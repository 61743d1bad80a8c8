--------------------------- MODULE ComposeImport ---------------------------
(***************************************************************************)
(* The import of a docker-compose file (internal/compose): a spec is       *)
(* drafted from the services, one after the other in the order of their    *)
(* keys, and what could not be mapped is noted for the user to review.     *)
(* A name is the sequence of its words, which are numbers here because the *)
(* suffixes that keep names apart are: <<0>> is some word x, <<0, 2>> is   *)
(* x-2.  A key is a name in some spelling, of which one is kebab-case.     *)
(* The file has been parsed, by a library, into services.                  *)
(***************************************************************************)
EXTENDS Naturals, Sequences, FiniteSets

CONSTANTS
  Words, Numbers,  \* first and second words of names
  Spellings,       \* how a key is spelled; "kebab" is the name itself
  DependencyKeys,  \* the registry of infrastructure, by dependency key
  Ports,           \* what entries of ports and expose say; 0: no port number
  MaxServices,     \* bound on services
  MaxPorts         \* bound on entries of a service

ASSUME ImportAssumption ==
  /\ Words \cup Numbers \cup Ports \subseteq Nat
  /\ "kebab" \in Spellings /\ DependencyKeys \cap {"", "other"} = {}
  /\ MaxServices \in Nat /\ MaxPorts \in Nat

VARIABLES
  umbrella,        \* spec.UmbrellaChartName
  subcharts,       \* spec.Subcharts
  dependencies,    \* spec.Dependencies
  seen, sawDropped, notes,
  status,          \* "reading" or "returned"
  read,            \* not in the code: services read, key and dependency
  origin           \* not in the code: the service of each subchart

vars == <<umbrella, subcharts, dependencies, seen, sawDropped, notes, status, read, origin>>

(* <<>> is what a key like "_" comes down to.                              *)
Names == {<<>>} \cup {<<w>> : w \in Words} \cup {<<w, n>> : w \in Words, n \in Numbers}

Engine == INSTANCE Traits WITH Kebab <- Names \ {<<>>}, Odd <- <<>>, Flags <- {}

Keys == [name : Names, spelling : Spellings]
Changed(key) == key.spelling # "kebab"

(* image is what imageToDependency makes of it: a dependency's key, an     *)
(* image that is not recognised, or none.  ports has the entries of ports  *)
(* and then those of expose.  carries: it has environment variables,       *)
(* volumes, secrets or networks.                                           *)
Services ==
  [key : Keys, build : BOOLEAN, image : DependencyKeys \cup {"other", ""},
   ports : UNION {[1..n -> Ports] : n \in 0..MaxPorts},
   global : BOOLEAN, replicas : BOOLEAN, carries : BOOLEAN]

Note(kind, about) == <<kind, about>>

TypeOK ==
  /\ umbrella \in Names /\ seen \subseteq Seq(Nat) \ {<<>>}
  /\ dependencies \subseteq DependencyKeys
  /\ read \subseteq Keys \X (DependencyKeys \cup {""})
  /\ \A i \in DOMAIN subcharts :
       /\ subcharts[i].name \in seen /\ subcharts[i].pattern \in {"api-microservice", "worker"}
       /\ DOMAIN subcharts[i].keys \subseteq {"port", "workload", "scaling"}

Init ==
  /\ \E top \in Keys \cup {[name |-> <<>>, spelling |-> "kebab"]} :
       /\ umbrella = top.name
       /\ notes = {n \in {Note("normalized", top.name)} : top.name # <<>> /\ Changed(top)}
  /\ subcharts = <<>> /\ dependencies = {} /\ seen = {} /\ sawDropped = FALSE
  /\ status = "reading" /\ read = {} /\ origin = <<>>

-----------------------------------------------------------------------------
(* One service.                                                            *)

(* The keys that may follow: of two kebab-case keys, one of which starts   *)
(* with the other, the shorter is first.  Other spellings of a name may    *)
(* stand anywhere.                                                         *)
StartsWith(name, start) == Len(start) < Len(name) /\ SubSeq(name, 1, Len(start)) = start
Follows(key) ==
  \A r \in read :
    /\ r[1] # key
    /\ ~Changed(key) /\ ~Changed(r[1]) => ~StartsWith(r[1].name, key.name)

imageToDependency(service) ==
  IF ~service.build /\ service.image \in DependencyKeys THEN service.image ELSE ""

Reading(service) ==
  /\ status = "reading" /\ Cardinality(read) < MaxServices /\ Follows(service.key)
  /\ read' = read \cup {<<service.key, imageToDependency(service)>>}
  /\ sawDropped' = (sawDropped \/ service.carries)
  /\ UNCHANGED <<umbrella, status>>

Dependency(service) ==
  /\ Reading(service) /\ imageToDependency(service) # ""
  /\ dependencies' = dependencies \cup {service.image}
  /\ UNCHANGED <<subcharts, seen, notes, origin>>

Unrecognized(service) ==
  {n \in {Note("image", service.key)} : ~service.build /\ service.image = "other"}

(* Faulty variant: nobody is told.                                         *)
SkippedQuietly(service) ==
  /\ Reading(service) /\ imageToDependency(service) = "" /\ service.key.name = <<>>
  /\ notes' = notes \cup Unrecognized(service)
  /\ UNCHANGED <<subcharts, dependencies, seen, origin>>

Skipped(service) ==
  /\ Reading(service) /\ imageToDependency(service) = "" /\ service.key.name = <<>>
  /\ notes' = notes \cup Unrecognized(service) \cup {Note("skipped", service.key)}
  /\ UNCHANGED <<subcharts, dependencies, seen, origin>>

(* Faulty variant: a second service of a name is always number 2.          *)
dedupedOnce(name) == IF name \in seen THEN Append(name, 2) ELSE name

(* The first of name, name-2, name-3 ... that is free.                     *)
Suffixes == 2..(Cardinality(seen) + 2)
Free(name, i) ==
  Append(name, i) \notin seen /\ \A j \in Suffixes : j < i => Append(name, j) \in seen
deduped(name) ==
  IF name \in seen THEN Append(name, CHOOSE i \in Suffixes : Free(name, i)) ELSE name

(* Where the entries are that give a port, and the first of them.          *)
Listed(service) == {i \in DOMAIN service.ports : service.ports[i] > 0}
firstPort(service) ==
  LET first == CHOOSE i \in Listed(service) : \A j \in Listed(service) : i <= j
  IN IF Listed(service) = {} THEN 0 ELSE service.ports[first]
multiple(service) == Cardinality(Listed(service)) > 1

(* Faulty variant: a service on every node is taken for an agent.          *)
RowAgent(service, name) ==
  [name |-> name,
   pattern |-> CASE service.global         -> "node-agent"
                 [] firstPort(service) > 0 -> "api-microservice"
                 [] OTHER                  -> "worker",
   keys |-> [k \in {x \in {"port"} : firstPort(service) > 0}
                   \cup {x \in {"workload"} : service.global} |->
               IF k = "port" THEN firstPort(service) ELSE "daemonset"]]

(* Faulty variant: a number of replicas makes a singleton.                 *)
RowSingle(service, name) ==
  [name |-> name,
   pattern |-> IF firstPort(service) > 0 THEN "api-microservice" ELSE "worker",
   keys |-> [k \in {x \in {"port"} : firstPort(service) > 0}
                   \cup {x \in {"workload"} : service.global}
                   \cup {x \in {"scaling"} : service.replicas} |->
               CASE k = "port"     -> firstPort(service)
                 [] k = "workload" -> "daemonset"
                 [] OTHER          -> "singleton"]]

Row(service, name) ==
  [name |-> name,
   pattern |-> IF firstPort(service) > 0 THEN "api-microservice" ELSE "worker",
   keys |-> [k \in {x \in {"port"} : firstPort(service) > 0}
                   \cup {x \in {"workload"} : service.global}
                   \cup {x \in {"scaling"} : service.replicas} |->
               CASE k = "port"     -> firstPort(service)
                 [] k = "workload" -> "daemonset"
                 [] OTHER          -> "fixed"]]

Subchart(service) ==
  LET name == deduped(service.key.name)
  IN /\ Reading(service) /\ imageToDependency(service) = "" /\ service.key.name # <<>>
     /\ subcharts' = Append(subcharts, Row(service, name))
     /\ origin' = Append(origin, service)
     /\ seen' = seen \cup {name}
     /\ notes' = notes \cup Unrecognized(service)
          \cup {n \in {Note("renamed", service.key)} : Changed(service.key)}
          \cup {n \in {Note("deduped", name)} : name # service.key.name}
          \cup {n \in {Note("ports", service.key)} : multiple(service)}
     /\ UNCHANGED dependencies

-----------------------------------------------------------------------------

(* The two notes on the file as a whole.  A file without services is       *)
(* refused.                                                                *)
Return ==
  /\ status = "reading" /\ read # {} /\ status' = "returned"
  /\ notes' = notes \cup {n \in {Note("empty", <<>>)} : subcharts = <<>>}
                    \cup {n \in {Note("dropped", <<>>)} : sawDropped}
  /\ UNCHANGED <<umbrella, subcharts, dependencies, seen, sawDropped, read, origin>>

Import(service) == Dependency(service) \/ Skipped(service) \/ Subchart(service)

Next == Return \/ \E service \in Services : Import(service)

Spec == Init /\ [][Next]_vars

-----------------------------------------------------------------------------
(* Properties.                                                             *)

Platform == [ingress |-> "alb", on |-> {}]

(* No two subcharts have one name, however services are spelled and        *)
(* whichever names the suffixes run into: Validate refuses such a spec.    *)
NamesDistinct ==
  \A i, j \in DOMAIN subcharts : subcharts[i].name = subcharts[j].name => i = j

(* Under the default rules no subchart's keys contradict each other or the *)
(* defaults of the pattern chosen for it; only a port may be out of range, *)
(* where the file says so.                                                 *)
ImportsFit ==
  \A i \in DOMAIN subcharts : Engine!Contradictions(subcharts[i], Platform) \subseteq {"port"}

(* "what the user already wrote is honored exactly" (compose.go): once the *)
(* engine has resolved a subchart, it listens where the service does, is   *)
(* on every node if the service is, and has no autoscaler beside a number  *)
(* of replicas that was given.                                             *)
HonorsFile ==
  \A i \in DOMAIN subcharts :
    LET t == Engine!ResolveTraits(subcharts[i], Platform)
        service == origin[i]
    IN /\ t.port = firstPort(service) /\ (t.exposure # "none") = (firstPort(service) # 0)
       /\ service.global => t.workload = "daemonset"
       /\ service.replicas \/ service.global => t.scaling = "fixed"

(* No service is lost, or renamed without a word: each is a dependency, a *)
(* subchart under its own name or one the user is told of, or was noted as *)
(* skipped.                                                                *)
ServicesAccounted ==
  \A r \in read :
    LET key == r[1]
    IN \/ r[2] \in dependencies
       \/ Note("skipped", key) \in notes
       \/ \E i \in DOMAIN origin :
            /\ origin[i].key = key
            /\ Changed(key) => Note("renamed", key) \in notes
            /\ subcharts[i].name # key.name => Note("deduped", subcharts[i].name) \in notes
=============================================================================
