------------------------------- MODULE Traits -------------------------------
(***************************************************************************)
(* What a chart specification says of its subcharts, and what the form     *)
(* (web/src/app/spec.js) and the engine (internal/engine) make of it.  A   *)
(* subchart carries intent: a pattern and the trait keys somebody chose.   *)
(* Both sides resolve the other traits on their own, from the pattern's    *)
(* defaults and the rules, and must agree.  A key is set when it is in the *)
(* domain of keys; null, "" and port 0 mean that it is not.                *)
(***************************************************************************)
EXTENDS Naturals, Sequences, FiniteSets

CONSTANTS
  Kebab,          \* names both sides accept
  Odd,            \* a name that is not blank and that neither accepts
  Flags           \* the rules other than ingress, on or off

Blank == ""
Names == Kebab \cup {Blank, Odd}
isKebab(name) == name \in Kebab

-----------------------------------------------------------------------------
(* The registry, one copy per side, kept equal by a contract test.         *)

PatternIds ==
  {"api-microservice", "grpc-service", "edge-gateway", "web-frontend", "worker",
   "stream-processor", "scheduler", "realtime-gateway", "ml-inference", "webhook-ingest",
   "admin-dashboard", "node-agent", "custom"}

PATTERNS ==
  [id \in PatternIds |->
    [workload |-> IF id = "node-agent" THEN "daemonset" ELSE "deployment",
     exposure |->
       CASE id = "grpc-service" -> "grpc"
         [] id \in {"worker", "stream-processor", "scheduler", "node-agent"} -> "none"
         [] OTHER -> "http",
     ingress |-> id \in {"api-microservice", "edge-gateway", "web-frontend", "realtime-gateway",
                         "webhook-ingest", "admin-dashboard", "custom"},
     scaling |->
       CASE id = "scheduler" -> "singleton"
         [] id \in {"stream-processor", "realtime-gateway", "ml-inference", "admin-dashboard",
                    "node-agent"} -> "fixed"
         [] OTHER -> "auto",
     shared_env |-> id \notin {"web-frontend", "node-agent"}]]

DEFAULT_PATTERN == "api-microservice"
WORKLOADS == {"deployment", "statefulset", "daemonset"}
EXPOSURE_OPTIONS == {"http", "grpc", "tcp", "none"}
SCALING_OPTIONS == {"auto", "fixed", "singleton"}
INGRESS_OPTIONS == {"alb", "nginx", "traefik", "istio", "gce", "none"}
TRAIT_KEYS == {"workload", "exposure", "port", "ingress", "scaling", "shared_env"}

NoKeys == [key \in {} |-> key]
With(keys, key, value) ==
  [k \in DOMAIN keys \cup {key} |-> IF k = key THEN value ELSE keys[k]]
Without(keys, gone) == [key \in DOMAIN keys \ gone |-> keys[key]]
Chosen(row, key, default) == IF key \in DOMAIN row.keys THEN row.keys[key] ELSE default

defaultPort(exposure) == IF exposure = "grpc" THEN 50051 ELSE 8080
Routable(exposure, rules) == exposure \in {"http", "grpc"} /\ rules.ingress # "none"

-----------------------------------------------------------------------------
(* The form's side.                                                        *)

(* Faulty variant: a daemonset keeps the scaling of its pattern.           *)
resolveTraitsScaled(row, rules) ==
  LET d == PATTERNS[row.pattern]
      exposure == Chosen(row, "exposure", d.exposure)
  IN [pattern |-> row.pattern,
      workload |-> Chosen(row, "workload", d.workload),
      exposure |-> exposure,
      port |-> IF exposure = "none" THEN 0 ELSE Chosen(row, "port", defaultPort(exposure)),
      ingress |-> Chosen(row, "ingress", d.ingress) /\ Routable(exposure, rules),
      scaling |-> Chosen(row, "scaling", d.scaling),
      shared_env |-> Chosen(row, "shared_env", d.shared_env)]

(* What does not fit is clamped, chosen or not.                            *)
resolveTraits(row, rules) ==
  LET d == PATTERNS[row.pattern]
      workload == Chosen(row, "workload", d.workload)
      exposure == Chosen(row, "exposure", d.exposure)
  IN [pattern |-> row.pattern, workload |-> workload, exposure |-> exposure,
      port |-> IF exposure = "none" THEN 0 ELSE Chosen(row, "port", defaultPort(exposure)),
      ingress |-> Chosen(row, "ingress", d.ingress) /\ Routable(exposure, rules),
      scaling |-> IF workload = "daemonset" THEN "fixed" ELSE Chosen(row, "scaling", d.scaling),
      shared_env |-> Chosen(row, "shared_env", d.shared_env)]

(* The chips on a row: chosen keys that make a difference.                 *)
traitOverrides(row, rules) ==
  {key \in DOMAIN row.keys :
     resolveTraits([row EXCEPT !.keys = Without(@, {key})], rules)[key]
       # resolveTraits(row, rules)[key]}

Admin(name) == <<"protect this route", {name}, {}>>
Gateway(gateways, public) == <<"several public entries", gateways, public>>

(* Faulty variant: one public subchart beside a gateway is enough.         *)
specWarningsEager(rows, rules) ==
  LET named == {i \in DOMAIN rows : rows[i].name # Blank}
      public == {i \in named : resolveTraits(rows[i], rules).ingress}
      gateways == {i \in named : rows[i].pattern = "edge-gateway"}
  IN {Admin(rows[i].name) : i \in {j \in public : rows[j].pattern = "admin-dashboard"}} \cup
     {w \in {Gateway({rows[i].name : i \in gateways}, {rows[i].name : i \in public})} :
        gateways # {} /\ public # {}}

specWarnings(rows, rules) ==
  LET named == {i \in DOMAIN rows : rows[i].name # Blank}
      public == {i \in named : resolveTraits(rows[i], rules).ingress}
      gateways == {i \in named : rows[i].pattern = "edge-gateway"}
  IN {Admin(rows[i].name) : i \in {j \in public : rows[j].pattern = "admin-dashboard"}} \cup
     {w \in {Gateway({rows[i].name : i \in gateways}, {rows[i].name : i \in public})} :
        gateways # {} /\ Cardinality(public) > 1}

(* What the structure preview lists under a subchart's templates.          *)
subchartManifests(t) ==
  {t.workload} \cup {f \in {"service", "networkPolicy"} : t.exposure # "none"} \cup
  {f \in {"ingress"} : t.ingress} \cup
  {f \in {"hpa"} : t.scaling = "auto" /\ t.workload # "daemonset"}

-----------------------------------------------------------------------------
(* The engine's side: what is set is taken as it is, or the spec rejected  *)
(* with a contradiction; only defaults give way.                           *)

ResolveTraits(row, rules) ==
  LET p == PATTERNS[row.pattern]
      workload == Chosen(row, "workload", p.workload)
      exposure == Chosen(row, "exposure", p.exposure)
  IN [pattern |-> row.pattern, workload |-> workload, exposure |-> exposure,
      port |-> IF exposure = "none" THEN 0 ELSE Chosen(row, "port", defaultPort(exposure)),
      ingress |-> Chosen(row, "ingress", p.ingress /\ Routable(exposure, rules)),
      scaling |-> Chosen(row, "scaling", IF workload = "daemonset" THEN "fixed" ELSE p.scaling),
      shared_env |-> Chosen(row, "shared_env", p.shared_env)]

PortRange == 1..65535

Contradictions(row, rules) ==
  LET t == ResolveTraits(row, rules)
  IN {key \in DOMAIN row.keys :
        \/ key = "port" /\ t.exposure # "none" /\ t.port \notin PortRange
        \/ key = "ingress" /\ t.ingress = TRUE /\ ~Routable(t.exposure, rules)
        \/ key = "scaling" /\ t.workload = "daemonset" /\ t.scaling # "fixed"}

(* Validate: a spec is [name, rows, rules].                                *)
Validate(spec) ==
  /\ isKebab(spec.name) /\ Len(spec.rows) > 0 /\ spec.rules.ingress \in INGRESS_OPTIONS
  /\ \A i \in DOMAIN spec.rows :
       /\ isKebab(spec.rows[i].name)
       /\ \A j \in DOMAIN spec.rows : spec.rows[j].name = spec.rows[i].name => j = i
       /\ Contradictions(spec.rows[i], spec.rules) = {}

Warnings(spec) ==
  LET t == [i \in DOMAIN spec.rows |-> ResolveTraits(spec.rows[i], spec.rules)]
      Of(is) == {spec.rows[i].name : i \in is}
      public == {i \in DOMAIN t : t[i].ingress}
      gateways == {i \in DOMAIN t : t[i].pattern = "edge-gateway"}
  IN {Admin(spec.rows[i].name) : i \in {j \in public : t[j].pattern = "admin-dashboard"}} \cup
     (IF gateways = {} \/ Cardinality(public) <= 1 THEN {} ELSE {Gateway(Of(gateways), Of(public))})

(* The manifests a subchart ships with and what applyWorkload, applyTraits *)
(* and applyIngress, in this order, make of them.  Helpers, configmap,     *)
(* secrets and tests, which no trait or rule touches, are left out.        *)
applyWorkload(files, workload) ==
  CASE workload = "statefulset" -> (files \ {"deployment"}) \cup {"statefulset", "headless-service"}
    [] workload = "daemonset"   -> (files \ {"deployment", "hpa"}) \cup {"daemonset"}
    [] OTHER                    -> files

applyTraits(files, t) ==
  files \ ((IF t.exposure = "none" THEN {"service", "networkPolicy"} ELSE {}) \cup
           (CASE t.scaling = "fixed" -> {"hpa"} [] t.scaling = "singleton" -> {"hpa", "pdb"}
              [] OTHER -> {}))

applyIngress(files, t, rules) ==
  (files \ {"ingress"}) \cup
  (IF ~t.ingress THEN {} ELSE IF rules.ingress = "istio" THEN {"istio"} ELSE {"ingress"})

Templates(t, rules) ==
  applyIngress(applyTraits(applyWorkload(
    {"deployment", "service", "ingress", "hpa", "networkPolicy", "pdb"}, t.workload), t), t, rules)
=============================================================================
