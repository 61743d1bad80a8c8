----------------------------- MODULE LocalStore -----------------------------
(***************************************************************************)
(* What the browser remembers for anonymous users, as one tab sees it      *)
(* (web/src/app/localStore.js): an id sent with every request, and the     *)
(* charts generated, by name, with the spec they were generated from.      *)
(* Both live in localStorage, shared by the tabs, and in variables of the  *)
(* module, which die with the page.  Storage may refuse writes (quota) or  *)
(* everything (private mode); each call is one synchronous step.  Times    *)
(* and the order of the list are left out.                                 *)
(***************************************************************************)
EXTENDS Naturals, FiniteSets

CONSTANT None     \* null, or nothing stored
ASSUME NoneIsNotAnId == None \notin Nat

VARIABLES
  storage,        \* what works of it: "all", "reads" or "none"
  stored,         \* localStorage: [clientId, charts]
  memClientId, memCharts,
  minted,         \* ids made so far
  sentAs          \* not in the code: ids this page has sent requests under

memory == <<memClientId, memCharts>>
store == <<storage, stored, memory, minted, sentAs>>

NoCharts == [name \in {} |-> None]

safeGet(key) == IF storage = "none" THEN None ELSE stored[key]
safeSet(key, value) ==
  stored' = IF storage = "all" THEN [stored EXCEPT ![key] = value] ELSE stored

-----------------------------------------------------------------------------
(* Faulty variant: an id is only kept in storage.                          *)
clientIdStored(mem, sent) ==
  LET old == safeGet("clientId")
      new == minted + 1
      id  == IF old # None THEN old ELSE new
  IN /\ sentAs' = sent \cup {id} /\ memClientId' = id
     /\ IF old # None THEN UNCHANGED <<minted, stored>>
        ELSE minted' = new /\ safeSet("clientId", new)

(* clientId, as every request calls it: the id, made at the first use.     *)
clientId(mem, sent) ==
  LET old == IF mem # None THEN mem ELSE safeGet("clientId")
      new == minted + 1
      id  == IF old # None THEN old ELSE new
  IN /\ memClientId' = id /\ sentAs' = sent \cup {id}
     /\ IF old # None THEN UNCHANGED <<minted, stored>>
        ELSE minted' = new /\ safeSet("clientId", new)

(* Faulty variant: what this page has written counts more than what is     *)
(* stored.                                                                 *)
readChartsOwn ==
  IF memCharts # None THEN memCharts
  ELSE IF safeGet("charts") # None THEN safeGet("charts") ELSE NoCharts

(* What is stored, or else what this page has written.                     *)
readCharts ==
  IF safeGet("charts") # None THEN safeGet("charts")
  ELSE IF memCharts # None THEN memCharts ELSE NoCharts

(* What was stored is kept in memory when it is read.                      *)
loadLocalCharts ==
  memCharts' = IF safeGet("charts") # None THEN safeGet("charts") ELSE memCharts

writeCharts(list) == memCharts' = list /\ safeSet("charts", list)

(* The list with one chart recorded or updated.                            *)
Recorded(list, name, spec) ==
  [n \in DOMAIN list \cup {name} |-> IF n = name THEN spec ELSE list[n]]

saveLocalChart(name, spec) == writeCharts(Recorded(readCharts, name, spec))
=============================================================================
