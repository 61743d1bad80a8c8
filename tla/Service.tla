------------------------------ MODULE Service ------------------------------
(***************************************************************************)
(* The backend's requests (internal/server) beside the operator.  A        *)
(* request is more than one step where something else may happen between   *)
(* two of them: /generate stamps the expiry and then applies; the files    *)
(* endpoint decides on the object it read and then fetches the archive; a  *)
(* download link is minted with the list and followed whenever the user    *)
(* clicks, for up to 15 minutes.  Requests that read one object and answer *)
(* change nothing and are not steps.                                       *)
(***************************************************************************)
EXTENDS Operator

CONSTANTS Requests, NoRequest

VARIABLES
  request,        \* what each request is about to do, or has served
  since           \* not in the code: the specs its chart has had meanwhile

svars == <<vars, request, since>>

Call ==
  [op: {"apply"}, chart: Charts, spec: Specs, exp: Nat]
  \cup [op: {"link", "files"}, chart: Charts]
  \cup [op: {"served"}, chart: Charts, archive: Artifact]
ASSUME NoRequestIsNotOne == NoRequest \notin Call

ServiceTypeOK ==
  /\ TypeOK
  /\ request \in [Requests -> Call \cup {NoRequest}]
  /\ since \in [Requests -> SUBSET Specs]

ServiceInit ==
  /\ Init
  /\ request = [r \in Requests |-> NoRequest]
  /\ since = [r \in Requests |-> {}]

-----------------------------------------------------------------------------
Becomes(r, call) == request' = [request EXCEPT ![r] = call]

(* POST /generate: decode, validate and stamp the manifest.                *)
Generate(r, c, spec) ==
  /\ request[r] = NoRequest /\ spec \notin Invalid
  /\ edits < MaxEdits /\ edits' = edits + 1
  /\ Becomes(r, [op |-> "apply", chart |-> c, spec |-> spec,
                 exp |-> IF c \in Anon THEN now + TTL ELSE 0])
  /\ UNCHANGED <<cr, bucket, now, informer, queue, delayed, worker, faults>>

(* ... and apply it, and answer Pending or the error.  No request takes as *)
(* long as a chart lives.                                                  *)
ApplyGenerated(r) ==
  /\ request[r] # NoRequest /\ request[r].op = "apply"
  /\ LET c == request[r].chart
         obj == Applied(cr[c], request[r].spec, request[r].exp)
     IN  /\ request[r].exp # 0 => request[r].exp >= now
         /\ \/ /\ Put(c, obj) /\ current' = StillCurrent(c, obj)
               /\ UNCHANGED faults \/ Fault
            \/ Fault /\ UNCHANGED <<cr, watch, current>>
  /\ Becomes(r, NoRequest)
  /\ UNCHANGED <<bucket, now, cache, queue, delayed, pc, key, snap, edits>>

(* Faulty variant: any Ready status will do.                               *)
gateOnPhase(obj) == obj # NoCR /\ obj.phase = "Ready"

(* The gate of summarize and of handleChartFiles.                          *)
gate(obj) == obj # NoCR /\ obj.phase = "Ready" /\ obj.observed = obj.gen

(* GET /charts or /charts/{name} mints a link; /charts/{name}/files goes   *)
(* on to fetch.                                                            *)
Read(r, c, op) ==
  /\ request[r] = NoRequest /\ gate(cr[c])
  /\ Becomes(r, [op |-> op, chart |-> c])
  /\ UNCHANGED vars

(* Faulty variant: a missing archive goes unnoticed (GetObject is lazy).   *)
FetchUnchecked(r) ==
  /\ request[r] # NoRequest /\ request[r].op \in {"link", "files"}
  /\ LET c == request[r].chart IN
     Becomes(r, [op |-> "served", chart |-> c, archive |-> bucket[c]])
  /\ UNCHANGED vars

(* The archive as it is when it is fetched, or an error if there is none.  *)
Fetch(r) ==
  /\ request[r] # NoRequest /\ request[r].op \in {"link", "files"}
  /\ LET c == request[r].chart IN
     Becomes(r, IF bucket[c] = NoArtifact THEN NoRequest
                ELSE [op |-> "served", chart |-> c, archive |-> bucket[c]])
  /\ UNCHANGED vars

(* The answer is out, the link has expired, or the object store is down.   *)
Done(r) ==
  /\ request[r] # NoRequest /\ request[r].op \in {"served", "link", "files"}
  /\ Becomes(r, NoRequest)
  /\ UNCHANGED vars

Delete(c) == UserDelete(c) /\ UNCHANGED request

-----------------------------------------------------------------------------
(* What a reader may see: the specs the chart has from the read on, until  *)
(* the archive is served.                                                  *)
Wanted(obj) == IF obj = NoCR THEN {} ELSE {obj.spec}
Track ==
  since' = [r \in Requests |->
    LET call == request'[r] IN
    IF call = NoRequest THEN {}
    ELSE IF request[r] # NoRequest /\ request[r].op = "served" THEN since[r]
    ELSE since[r] \cup Wanted(cr'[call.chart])]

RequestStep(r) ==
  \/ \E c \in Charts, spec \in Specs : Generate(r, c, spec)
  \/ \E c \in Charts, op \in {"link", "files"} : Read(r, c, op)
  \/ ApplyGenerated(r) \/ Fetch(r) \/ Done(r)

ServiceNext ==
  /\ \/ \E r \in Requests : RequestStep(r)
     \/ \E c \in Charts : Delete(c)
     \/ (Tick \/ \E o \in Operators : OperatorStep(o)) /\ UNCHANGED request
  /\ Track

ServiceSpec == ServiceInit /\ [][ServiceNext]_svars

-----------------------------------------------------------------------------
(* Properties.                                                             *)

(* Whatever is applied, rendered, deleted and created again between the    *)
(* gate and the fetch: what a link or the files endpoint serves was        *)
(* rendered from a spec the chart had since the gate.  A spec replaced     *)
(* before the gate is never served.                                        *)
ServedWasWanted ==
  \A r \in Requests :
    request[r] # NoRequest /\ request[r].op = "served" =>
      request[r].archive.spec \in since[r]
=============================================================================
