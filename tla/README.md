# Chartpress in TLA+

Chartpress turns a short description of an application (a *Spec*) into a Helm
umbrella chart. This directory holds TLA+ models of the program, the TLC
configurations that check them on small instances, and TLAPS proofs of the
properties that matter most, for every size of the instance.

## 1. The system

| component | code | state it keeps | operations |
|---|---|---|---|
| operator | `internal/operator` | in memory: informer cache, workqueue, backoffs, the copy in the worker's hands | `Reconcile` for one key at a time: reap, finalize, generate |
| Kubernetes API server (external) | used through `client.go`, `server/k8s.go` | `ChartpressConfig` objects: spec, generation, finalizer, deletion mark, status | apply, update, update status, delete, watch |
| object store (external) | `internal/objectstore` | `charts/<name>.zip` | upload, remove, get, presign |
| backend | `internal/server/{generate,charts,files,k8s,spec,manifest}.go` | none of its own | `/generate`, `/charts`, `/charts/{name}`, `/charts/{name}/files` |
| ownership | `internal/server/owner.go` | owner labels and the expires-at annotation on objects | stored name, owner, expiry, visibility |
| authentication | `internal/server/auth.go` | session cookie | login, callback, me, logout |
| drafting | `internal/server/{openai,texttoconfig,composetoconfig}.go` | none | text or compose file to Spec |
| engine | `internal/engine` | none | traits, handoffs, rules, validation, assembly of the chart's files |
| compose importer | `internal/compose` | none | compose file to Spec |
| web app | `web/src/app` | drafts and charts in the browser, the screens' state | edit, submit, poll, sign in and out |
| command line | `cmd` | none | drives the engine once |

How they interact: the web app posts a Spec to the backend, which validates it,
scopes it to its owner, applies it as an object and answers *Pending*. The
operator's informer sees the object; the worker adds a finalizer, marks
*Generating*, renders, uploads the archive and marks *Ready*. The web app polls
the backend, which offers a presigned download link, or the files inside the
archive, as long as the status is *Ready* for the object's current generation.
Anonymous charts carry an expiry; the operator deletes them when it has passed
and removes their archive when they are deleted. There is no request to delete a
chart: users' deletions in the models stand for `kubectl delete`.

What makes a component correct, and what is hard about it, is listed as
`hazards` in `PROJECT.json`, each at its line. In short:

* **operator**: every call to the API server or the object store may fail, be
  lost after it took effect, be refused because the copy is stale, or be cut
  short by the end of the process; meanwhile users apply, delete and re-create
  charts, the clock runs, and during a rollout a second operator works. Served
  archives must be exact, no archive may be left behind, no chart forgotten.
* **backend**: several requests of one owner race with each other and with the
  operator; reads are gated on an object that may change before they are used.
* **ownership**: names are truncated and prefixed; two charts must not meet.
* **engine and web form**: the same derivations are written twice, once to preview
  and once to generate; edits made in any order must not add up to a spec the
  server rejects.
* **compose importer**: names are normalised and numbered, which may run into
  other names; what it chooses meets the engine's defaults only later.
* **web app**: answers that arrive when their screen is gone, refreshes that
  overtake each other, and storage that may refuse a write or everything.

## 2. Modules

| module | models | corresponds to |
|---|---|---|
| `ApiServer` | one object under the API server's operations (external) | fields as `Reconcile`, `summarize` and `applyOwnership` read and write them |
| `Operator` | the operator and its surroundings | one action per call of `Reconcile`, `Controller.processNext`, `Controller.Run`, the informer's handlers and timers; user writes and the clock |
| `ChartCatalog` | abstract specification: what readers of charts are promised | `Operator` implements it with `wanted` and `served` |
| `ChartLife` | abstract specification: a chart as `GET /charts` tells about it over time | `Operator` implements it with `view` (`summarize`) |
| `Service` | the backend's requests beside the operator; extends `Operator` | `handleGenerate`, `summarize`, `handleChartFiles`, presigned links |
| `ChartsPage` | one browser tab: list, refreshes, submissions, sign-in; on top of `ChartLife` | `AppShell.jsx`, `api.js`, `handleAuthMe`, `requestOwner` |
| `Traits` | traits, contradictions, warnings, validation and templates, the form's and the engine's, as operators side by side | `spec.js`, `StructurePreview.jsx`; `resolve.go`, `types.go`, `traits.go`, `rules.go`, `ingress.go` |
| `SpecForm` | the spec editor; extends `Traits` | `RichFormScreen.jsx`, `Dialog.jsx`, `normalizeSpec`, `cleanSubchart` |
| `LocalStore` | what the browser remembers, in memory and in storage | `localStore.js` |
| `Shell` | navigation, the screens that are mounted, calls under way, other tabs; extends `LocalStore` | `AppShell.jsx` and the screens, `ChartExplorer.jsx`, `ChartsTable.jsx` |
| `ComposeImport` | a compose file turned into a draft, service by service; resolved by `Traits` | `compose.go` |
| `OperatorInvariants` | the inductive invariants of `Operator` | |
| `OperatorProofs`, `ExclusiveProofs` | theorems about `Operator`, for any number of operators and for exactly one | |
| `CatalogProofs` | theorems: `Operator` implements `ChartCatalog` and takes the steps of `ChartLife` | |
| `ServiceProofs` | theorems about `Service`, requests and operator together | |
| `PageProofs`, `FormProofs`, `ShellProofs`, `ComposeProofs` | theorems about `ChartsPage` as `MCChartsPage` runs it, `SpecForm`, `Shell` and `ComposeImport` | |
| `MCOperator`, `MCService`, `MCChartsPage`, `MCSpecForm`, `MCShell`, `MCComposeImport` | model values and bounds for TLC | |

### State of `Operator`

`cr[c]` is the API server's object for chart `c` (or `NoCR`), `bucket[c]` the
stored archive. An archive is a function of the spec it was rendered from, so it
is that spec, with the generation it belonged to so that archives can be
compared by age. Per operator `o`: `watch[o][c]` are the versions of `c` the
informer has not seen yet, `cache[o]` what it has seen, `queue[o]` the
workqueue, `delayed[o]` the keys in backoff, and `pc[o]`, `key[o]`, `snap[o]`
the position of the worker inside `Reconcile` with the object it holds.

A resourceVersion is only compared with the server's. Instead of a number,
`current[o]` says whether the worker's copy is still the server's version: it
becomes false as soon as somebody else writes the object. A write with a copy
that is not current is refused.

Between two network calls `Reconcile` does nothing anybody can observe, so each
action is one call together with the decisions up to the next
(`FirstCall`, `AfterFinalizer`, `AfterGenerating`). An action that calls out has
up to three outcomes: success, failure without effect, and failure although the
server carried it out (a lost answer). The last two are counted by `MaxFaults`.

Some definitions are followed or preceded by a *faulty variant*, an operator no
specification uses. They document bugs the properties exclude: put in the place
of the definition they vary, each makes the property named in `mutants` fail.

### State of `Service`

`request[r]` is what a request is about to do: apply a stamped manifest, or
follow a link or fetch an archive whose gate it has passed; `"served"` keeps what
it answered with. A request is split where something else may happen in between:
`Generate` stamps the expiry and `ApplyGenerated` applies; `Read` passes the gate
on the object (`summarize` for a link, `handleChartFiles` for the files) and
`Fetch` takes the archive as it is later on. `since` is history: the specs the
chart has had since the gate. User writes of `Operator` are replaced by requests,
its other steps stay.

### State of `ChartsPage`

`rows` and `listError` are the `useState` values of `AppShell`, `user` and `me`
its `auth`, `remembered` the names in `localStorage`; `cookie` is the browser's
session cookie. `refreshes` are the calls of `refreshCharts` under way, each with
what its requests have been answered so far (`ReadList` or one `ReadOne` per
remembered chart, then `Deliver`), and `submits` the calls of `handleSubmit` up
to the timer that refreshes the list (`Submit`, `Generated`, `Submitted`,
`TimerFires`). A row's `owner` is not in the code: it remembers whose chart the
row tells about, which the code has no need to know.

The page does not run on `Operator` itself but on `ChartLife`: run
`OperatorCatalog` shows that the operator implements it, safety and fairness
both, and the page is checked against everything `ChartLife` allows. What holds
of the page therefore holds of page, backend and operator together.

### State of `Traits` and `SpecForm`

A row carries intent: a pattern and the trait keys somebody chose, `keys`. A key
that is null, empty or port 0 is not in its domain. `resolveTraits` (the form)
clamps what does not fit, `ResolveTraits` (the engine) takes what is chosen and
reports a contradiction; they agree where there is none, which is what
`TemplatesFromPreview` and `WarningsMirrorEngine` say of every form that can be
edited together. `Templates` is what the engine leaves of the manifests a subchart
ships with and adds to them, in its order; the preview's list is
`subchartManifests`. The two lists are *not* equal. `TemplatesFromPreview` says what
the difference is, to the file: the preview shows `ingress.yaml` where the engine
writes `istio.yaml`, and it never shows `pdb.yaml`, which all but singletons have,
nor the `headless-service.yaml` of a statefulset (`Unlisted`). Section 5 quotes the
comment this contradicts.

`form`, `expanded`, `pickerFor`, `submitting` and `submitError` are the
`useState` values; `overflow` and `prev` are `document.body.style.overflow` and
what the dialog's effect will restore (the effect depends on a new function in
every render, so each rendering undoes it and does it again: `Rendered`).
`sending` holds the specs of calls under way. `opened` and `sound` are history: the
rows the user has open, and whether the form was seeded with a valid spec.
Everything but the submit button stays usable while a submission is under way;
when it is accepted, what was edited meanwhile is gone. Drafts from a language
model or a compose file have legal values one by one, not necessarily together.

### State of `LocalStore` and `Shell`

`stored` is `localStorage`, `memClientId` and `memCharts` the copies a page has,
`storage` whether reads and writes work. `Shell` adds the route (`nav`, `step`,
`draftFrom`, `openChart`), who is signed in, the state of the screen that is
mounted (`screen`), and `calls`: what has been asked of the server or of a file
reader and not been answered. `Go` is a change of route: if it renders another
screen, that one starts afresh and calls of the former are orphaned (`live` is
FALSE), but not cancelled. `sentAs` and `answered` are history: the ids sent, and
the specs that anonymous charts were last generated from.

The list is refreshed in one step here and its rows are any that `ChartsPage`
could show; who is signed in is whatever `/auth/me` says. Chart names are
kebab-case. React 18 applies the state set in one handler together. The explorer's
edit mode, the editor's editing and `removeLocalChart` exist in the code and are
never turned on.

### State of `ComposeImport`

The loop of `ToSpec`, one action per kind of service: `Dependency`, `Skipped`
(no name is left) and `Subchart`. A name is the sequence of its words, with
numbers for words, because the suffix that `deduped` appends is one: `<<0, 2>>`
is both "x-2" written in the file and the second x. Services come in the order of
their keys; the model needs only that of two kebab-case keys, one starting with the
other, the shorter is first (`Follows`). `read` and `origin` are history. Parsing
is the library's: a service is what `ToSpec` reads of it.

### Assumptions

* Events of one object arrive in order and none is lost for good: client-go
  relists when a watch breaks. Several events at once are several deliveries.
* A list that fills the cache at a restart is not older than the writes of the
  previous process.
* Rendering is deterministic and either always or never fails for a spec.
* A request's cookie travels with it: the server decides at the moment it
  answers. Sessions do not expire while a page is open. `ChartsPage` has one tab;
  `Shell` has others, which write the shared storage.
* The workqueue holds a key once, and a key that is taken again while it is
  being processed waits: with one worker per process the set `queue` says both.
* The page is the production build: effects run once per mount.

## 3. Runs

Bounds of `Operator`: `MaxEdits` user writes, `MaxFaults` crashes and failed
calls, a clock up to `MaxTime`; `TTL` is one tick. All other variables are bounded
by these.

| run | instance | what it shows |
|---|---|---|
| `OperatorCatalog` | 1 operator, 1 anonymous chart, 2 good specs, an invalid and an unrenderable one, 2 writes, 1 fault, 3 instants, with fairness | `Operator` implements `ChartCatalog` and `ChartLife`; `NoLostWakeup`; `Converges` |
| `ServiceReads` | 2 requests at once, 1 operator, 1 anonymous chart, 2 specs, 3 writes, 1 fault, 3 instants | `ServedWasWanted`: nothing is served that was replaced before the gate; `ReadyIsExact`, `NoOrphan`, `NoRollback`, `Copies`, `ReadyStays` beside requests |
| `PageTurns` | 1 name, 2 refreshes at once, 1 reload or sign-in, 2 of submissions, removals and faults together, with fairness | `RowsSettle`: no row the page refreshes stays *Pending* or *Generating*; `ListOfIdentityInTurns` and `RowsStayInTurns`, as long as refreshes do not overlap |
| `FormEdits` | 7 patterns, 2 rows, 2 edits, ports 0, 9090 and 70000, ingress alb, istio and none, one other rule | the form resolves traits and warns as the engine does, and lists its templates up to the differences named; edits keep a valid spec valid; panels, the scroll lock and the submission |
| `ShellTurns` | 2 names, a text, a file, 2 calls at once, 2 loads, 2 of drafts, imports, submissions and other tabs' charts together, storage that works or not at all | no screen shows another's answer, nothing typed is lost to one, one client id, charts remembered |
| `ComposeFiles` | 3 services over the names "", x and x-2 in 3 spellings; the first with anything, up to 2 ports of 0, 8080 and 70000 | names differ, drafts fit and say what the file says, no service is lost |
| `OperatorReap` | 3 writes, no fault | **violated**: a chart that is not past its expiry is deleted |
| `OperatorInvalid` | one invalid spec, no resync, with fairness | **violated**: the status of an invalid spec never comes to rest |
| `OperatorRollout` | 2 operators | **violated**: `ReadyIsExact` needs one operator |
| `PageResubmit` | 1 refresh at a time, 2 submissions, with fairness | **violated**: a *Ready* row without a link never gets one |
| `PageIdentity` | 2 refreshes, 1 submission, 1 sign-in | **violated**: rows of another identity stay in the list |
| `StoreQuota` | storage that can be read and not written | **violated**: the list stored earlier takes the place of this session's; a chart generated again has its older spec |

Why the bounds are enough. *Operator and Service*: three writes let a chart be
applied, changed or deleted during an attempt, and applied again, which is every
order of a stale copy and two versions; one fault at any call, with the retry that
follows; three instants cover "not yet", "at" and "past" the expiry. Charts share
nothing but the queue and the single worker. That one chart does not disturb
another is what the theorems of section 4 say, which hold for any set of charts,
and that it does not starve another is the strong fairness below. Two requests are
the fewest that race with each other as well as with the operator. *Page*: two
refreshes are the fewest whose answers can overtake each other; `overlapped` notes
that two were ever under way at once, and what the two properties in turns promise
ends there (`PageIdentity` shows the one; an answer read before a submission may
likewise arrive after a younger one has replaced the optimistic row, and remove
it). One name is enough, as rows are merged name by name, and one name already is
two charts, the user's and the anonymous browser's. *Form*: the seven patterns have
every default value and include every pattern the warnings look at, a draft may
bring two keys and each edit adds or changes one; a row that goes and one that moves up are two rows. *Shell*:
two calls are the fewest that can be answered in the wrong order, two names the
fewest to show one chart's files under another. *Compose*: a suffix runs into a
name in use only from the third service on, and for any number of them there is a
theorem. Symmetry is used where only invariants and action properties are
checked, over requests and specs (`ServiceReads`) and chart names (`ShellTurns`).
`ComposeFiles` turns the deadlock check off because an import returns.

The six violations are disagreements between the code and what its comments
say; `findings` in `PROJECT.json` quotes both. They show in short: (reap)
`isExpired` holds of the cached copy, a new apply extends the expiry, `Delete`
by name takes the extended chart; (invalid) *Generating* and *Failed* writes are
update events, and each event enqueues the chart at once, without backoff;
(rollout) the Deployment keeps the default rolling update, the old process
uploads late, over the archive the new process has just marked *Ready*;
(resubmit) after a changed spec the first refresh may still read *Ready*, without
a link, and then nothing is active and polling stops; (identity) answers are used
in the order they arrive, for whoever is signed in by then; (quota) `readCharts`
prefers the stored list to what this session could not write: the run has one name,
and the older spec stored of it comes back in place of the one just answered.

### Fairness

`FairSpec` assumes of every operator that a worker with a call to make makes it,
that a stopped process is restarted (kubelet), that backoffs end, events arrive
and the 30s resync fires (weak fairness), and that a key in the workqueue is
eventually taken (strong fairness: the queue is first-in first-out, so a key
that is put back again and again is still served). Users and the clock owe
nothing; faults are bounded. `QuietSpec` is the same without resync steps: the
stretch between two resyncs.

`ChartsPage` assumes that requests are answered and answers used, that the 600ms
timer and the 2.5s interval fire while they are set, and of `ChartLife` what the
operator was shown to implement: a chart without a link is begun, and a build
ends. Reloads, clicks, submissions, removals and faults owe nothing. The other modules
have no liveness properties and no fairness.

## 4. Proofs

The theorems hold for all values of the constants, under the named assumptions of
the modules (sets and numbers have their kinds; "no object", "no archive", "no
row", "no list", "no id", an absent chart and a chart nobody has asked for are none
of the things they stand beside; `Shell` allows one call at least). None of the
proofs uses the bounds except that they are numbers. Every safety property and
every action property of a passing run is stated by a theorem; what runs check
under fairness is not.

**`Operator`** (`OperatorProofs`, `ExclusiveProofs`).

1. `TypeCorrect`: `TypeOK`. Each call of `Reconcile` is a `Write`, a `Proceed`
   or a `Return`, so the proof is three lemmas and one case per action.
2. `CopiesAlways`: `Copies`, inductive relative to the types, for any number of
   operators. It says that a current copy *is* the server's object, that cache
   and events lead to it, that the copy fits the call the worker is at, and that
   objects are coherent: `observedGeneration` never exceeds the generation, and
   a marked or Ready object has the finalizer.
3. `ReadyStaysAlways`: a status write that is accepted started from the server's
   object, and the short-circuit keeps `Reconcile` from starting on one that is
   up to date; so however stale the copies, nobody sends it back.
4. `NoLostWakeupAlways`, for any number of operators. `NoLostWakeup` is about
   workers at rest and not inductive: the invariant `Noticed` adds what is true in
   the middle of an attempt. A chart that is neither queued, nor in backoff, nor
   announced by an event looks to the worker exactly as it is; so a worker that
   gives it up (`Return`) has decided on what the server holds, and one whose
   write is refused puts it back. A chart is given up only for an invalid spec.
5. `ExclusiveAlways`: with one operator, `Exclusive` is inductive relative to
   1 and 2. `ReadyIsExact` and `NoOrphan` are two of its conjuncts and not
   inductive alone. An upload must not hit an object that is Ready
   (`AttemptOwnsChart`); the removal of an archive must not hit one either, and
   that the worker, deep in a stale cache, may not take a served chart for an
   earlier one of the same name that was deleted is `NoStaleDeletion`: what
   brought the chart up to date was a current copy, so nothing older is left in
   the cache or on its way.
6. `ReadyIsExactAlways`, `NoOrphanAlways`, `NoRollbackAlways` follow.

`WorkerEffect` is the lemma most of this rests on: each of the nine calls ends
in one of nine ways, told in terms of `cr` and `bucket` only. The step lemmas are
stated of `Moves`: an operator's step, or one from `Outside` that leaves the
operators alone. User writes and the clock are of the second kind, and so are the
backend's requests, which is how the same lemmas serve `Service`.

**The two refinements** (`CatalogProofs`). `ImplementsCatalogAlways`, with one
operator: each change of `cr` and `bucket` is one of the catalogue's four actions
or changes neither `wanted` nor `served`; that what becomes Ready is what is wanted
is 5 above. `LifeStepsAlways`, for any number of operators: what `summarize` tells
of each chart moves as `ChartLife` says; that *Ready* never goes back by itself is
3. The fairness of `ChartLife` is the part of `ImplementsLife` left to TLC.

**`Service`** (`ServiceProofs`). Types and `Copies` hold beside any number of
requests (`ServiceTypeCorrect`), and with one operator so do `Exclusive`
(`ServiceExclusive`), `ReadyStays` and `NoRollback` (`ServiceStays`).
`ServedWasWantedAlways` needs to know what a fetch *may still find*: `Followed` says
that from the gate on, the object's spec, the archive and the spec of the attempt
under way are all among those noted for the request since (`Within`). The gate opens
on a Ready object, whose archive is exact and which no attempt is working on; from
then on a new spec gets noted when it is applied, before anybody can render it.

**`ChartsPage`** (`PageProofs`). `PageTypeCorrect` holds of any number of refreshes
and submissions. The two properties *in turns* are about the instance's
`overlapped`. `ListOfIdentityAlways` rests on `Turns`: a refresh has asked for the
identity of its start, and as long as tab and server agree on who that is, every row
it has been answered, and every row of a list at rest, is that identity's.
`RowsStayAlways` adds `Found`: while nothing is removed, a chart whose
submission was answered is there, so a later refresh finds it, and a row that is
in the list when a refresh has passed its name is in the answer as well.

**`SpecForm` and `Traits`** (`FormProofs`). Whatever the sequence of edits:

* `OneCallAlways` and `ScrollLockedAlways` are inductive with what each says of
  the process between the two ends (`CallInv`: a form that is gone has had its call
  accepted; `ScrollInv`: what the dialog will restore is what the page had).
* `FormTypeCorrect` and `RegeneratesSameAlways` rest on `FormInv`: a form is a
  form, what was sent has a name in each row, and the dialog for a new row is open
  only where a row is free. `SentAgain`: a spec without unnamed rows survives
  `normalizeSpec` and `submit`.
* `PanelsFollowRowsAlways`: `opened` is told by ids and `expanded` by positions,
  which determine each other because no two rows share an id (`PanelsInv`; a new row
  finds a free id by the pigeonhole principle).
* `EditsStayValidAlways` rests on `RowsLegal`, which is about every platform with
  an ingress, not only the one chosen at the moment; without that, changing the
  rules would not preserve it. `TraitSetLegal` is its one difficult step: whatever the row
  looked like, the keys `setTrait` leaves are legal together.
* `TemplatesFromPreviewAlways`: `SameTraits` (both sides resolve a row without
  contradictions alike) and `SameManifests` (`buildSubchart`'s changes in their
  order leave the files the preview lists, the ingress under its file's name, and
  the files of `Unlisted`; nothing is subtracted on either side) hold of all
  thirteen patterns and all keys.
* `WarningsMirrorEngineAlways`: the form warns by the rows on the screen, the engine
  by those that were sent. `NthOfSome` counts rows on both sides.

**`Shell` and `LocalStore`** (`ShellProofs`). `NeverBlankAlways` rests on `NavInv`.
The one answer that could take the user away from under the profile, that of
`/auth/me`, is awaited at most once and only while nobody is signed in; logging out
leaves the profile in the same step (`GoKeeps` is the lemma on routes).
`OneClientIdAlways` rests on `IdInv`: ids sent are the one in memory, and that is the
one stored as long as storage takes writes. `RemembersAnsweredAlways` rests on
`ListsInv`: unless storage refuses writes it can read, what `readCharts` returns is
what was answered; the copy in memory counts only where nothing can be stored.
`BusyOnlyWithCallAlways`, `FileNameIsTextAlways` and `FilesOfOpenChartAlways` rest on
`ScreenInv`: live calls belong to the screen shown, there is one of its own at most,
and the screen is busy exactly while there is; so an answer meets the screen, and
the chart, it was asked for. `AnswersKeepInputAlways` is an action property of these.

**`ComposeImport`** (`ComposeProofs`). `NamesDistinctAlways` rests on `FreeSuffix`:
among more suffixes than names taken, one is free (pigeonhole) and there is a
least such, so the loop of `deduped` ends on a name nobody has. `DraftInv` says of
every subchart that it is `Row` of its service, and of every
service read what became of it; `ImportsFitAlways`, `HonorsFileAlways` (through
the engine's `ResolveTraits`) and `ServicesAccountedAlways` follow.

*Only model-checked*: `Converges`, `RowsSettle`, the liveness half of
`ImplementsLife` and what the violated runs show under fairness, as liveness is out
of the prover's reach here. That `SubSeq`, `Append` and `\o` do what they do is the
library's; the two filters of the code (named rows, ports that are numbers) are
written as sets of positions counted in order, because the provers know nothing of
`SelectSeq`.

## 5. Known limits of the code

Seen while modelling, and not claimed otherwise by the properties:

* An apply that reaches an object being deleted is answered *Pending*, and the
  chart vanishes when the finalizer is dropped (`ApplyGenerated` and
  `DropFinalizer` in this order).
* The structure preview's comment says that its list is "the manifest list a
  subchart's templates/ carries after trait tailoring - mirrors
  internal/engine/traits.go (template drops) + applyWorkload"
  (`StructurePreview.jsx:51-52`). It is not: `applyWorkload` gives a statefulset
  `headless-service.yaml` (`rules.go:21-29`) and every subchart but a singleton
  keeps `pdb.yaml`; neither is ever listed, and with istio the file is `istio.yaml`.
  `TemplatesFromPreview` names these differences and shows that there are no others.
* Switching the platform's ingress off leaves a row's explicit ingress in place,
  hidden, and the server rejects the spec, although "the form prevents invalid
  explicit keys" (`spec.js:87-88`); `EditsStayValid` asks for a platform with an
  ingress.
* The importer drops an exposed port that is not a plain number without a note,
  and a service with no other port becomes a worker.
* A draft or a successful submission takes the user away from whatever they were
  doing by then, and what was typed there is lost; a submission that fails after
  its form was left is reported nowhere. `AnswersKeepInput` speaks of the screen
  that stays.
* The explorer shows the row as it was when clicked.
* A submission whose answer is lost is not remembered by the browser.

## 6. Not modelled, and what is left

Not planned: template text, presets and the values the engine writes, the CRD's
schema, presentation, the licence checker, the command line (it drives the engine
once), route tables, deployment files beyond the number of replicas and the
rollout strategy, the language model behind text drafting, the OAuth exchange.

Simplifications: names carry no blanks around them, so
`trim` (`spec.js:146`) has nothing to do and a padded name counts as one neither
side accepts; what `normalizeSpec` filters (null, empty, 0) is not in a set of keys
to begin with, so `RegeneratesSame` says that what is in it, a chosen FALSE above all, survives;
the form is opened with one named row or with none, never with several; the
dialog's missing focus trap is not used to edit behind it; another tab reads and
writes the list in one step; and an exposed port that is negative or no number is 0.

Strings are model values: the truncation of stored names (`owner.go:82`), the
grammar of names and images, and the reserved subchart name "global"
(`types.go:142`) are left out, as are handoffs, descriptions, the list of
dependencies in the form and the field hints. The archive's file tree and its size limits are pure functions of its bytes.

Worth adding next: expiry of a session while a page is open; ownership with names
of bounded length; a theorem about what two operators still guarantee of archives
(`OperatorRollout` shows that exactness is not).
