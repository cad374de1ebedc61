------------------------------ MODULE Environment ------------------------------
(***************************************************************************)
(* How an operation finds its surroundings: resolveEnvironment             *)
(* (environment/resolve.ts) takes the handles a TronBox context injects    *)
(* and constructs the slots that were asked for, or says why it cannot.    *)
(*                                                                         *)
(* Two handles lead to TronBox's configuration, the deployer and the       *)
(* artifacts; usually to one object, sometimes to two.  A handle, a        *)
(* property on the way, or a field of a configuration may be missing, of   *)
(* the wrong kind, or raise when it is read.                               *)
(***************************************************************************)
EXTENDS Naturals, FiniteSets

CONSTANTS
  Undefined,               \* a handle that was not passed
  Missing, Threw, Junk,    \* a property that is not there, raises, or is of a wrong kind
  Nullish, Falsy,          \* undefined or null; a value that is falsy otherwise
  Fails,                   \* a projection that could not be made
  Requests,                \* what callers ask for: records of required, optional
  MaxFaults                \* bound of an instance: what may be wrong at once

VARIABLES
  context,       \* the context TronBox runs the caller in
  faults,        \* what is wrong with what it injects, counted
  host,          \* its handles, the properties behind them, its configurations
  request,       \* the slots asked for
  stage,         \* where the resolution is
  slots,         \* the slots constructed so far
  unsatisfied,   \* why required slots could not be
  inconsistencies,
  outcome

vars == <<context, faults, host, request, stage, slots, unsatisfied, inconsistencies, outcome>>

Slots == {"paths", "network", "artifacts", "chain", "receipts", "scheduling", "output",
          "compiler"}

Handles == {"deployer", "artifacts", "tronWrap", "tronWeb", "waitForTransactionReceipt"}

\* Every caller requires something: the operations a list of slots, erc1967.ts the chain.
ASSUME RequestAssumption ==
  /\ MaxFaults \in Nat
  /\ \A r \in Requests : r.required \cup r.optional \subseteq Slots /\ r.required # {}

Contexts == {"tronbox migrate", "tronbox test migration phase", "tronbox test mocha files",
             "tronbox console", "plain node"}

configContexts ==
  {"tronbox migrate", "tronbox test migration phase", "tronbox test mocha files"}
chainContexts == configContexts \cup {"tronbox console"}
deployerContexts == {"tronbox migrate", "tronbox test migration phase"}

requirement(handles, providedIn) == [handles |-> handles, providedIn |-> providedIn]

\* Mutant: the table says of output what holds of the deployer's logger only.
deployerOutput(slot) ==
  IF slot = "output" THEN requirement({"deployer", "artifacts"}, deployerContexts)
  ELSE requirement({"deployer", "artifacts"}, configContexts)

slotRequirements(slot) ==
  CASE slot \in {"paths", "network", "output", "compiler"} ->
         requirement({"deployer", "artifacts"}, configContexts)
    [] slot = "artifacts" -> requirement({"artifacts"}, configContexts)
    [] slot = "chain" -> requirement({"tronWrap", "tronWeb"}, chainContexts)
    [] slot = "receipts" -> requirement({"waitForTransactionReceipt"}, configContexts)
    [] slot = "scheduling" -> requirement({"deployer"}, deployerContexts)
-----------------------------------------------------------------------------
(* What TronBox injects *)

\* The paths of properties the resolution follows, and what is there when nothing is
\* wrong. Under `tronbox test` the migration runs on a copy of the configuration.
injected(ctx) ==
  LET has(S, v) == IF ctx \in S THEN v ELSE Undefined IN
  [p \in {"deployer", "deployer.options", "deployer.options.options", "deployer.then",
          "deployer.logger.log", "artifacts", "artifacts.require", "artifacts.resolver",
          "artifacts.resolver.options", "tronWrap", "tronWrap.trx", "tronWeb", "tronWeb.trx",
          "waitForTransactionReceipt"} |->
     CASE p \in {"deployer", "deployer.options", "deployer.then", "deployer.logger.log"} ->
            has(deployerContexts, "object")
       [] p = "deployer.options.options" ->
            IF ctx = "tronbox test migration phase" THEN "copy"
            ELSE has(deployerContexts, "live")
       [] p \in {"artifacts", "artifacts.require"} -> has(configContexts, "object")
       [] p = "artifacts.resolver" -> has(configContexts, "resolver")
       [] p = "artifacts.resolver.options" -> has(configContexts, "live")
       [] p \in {"tronWrap", "tronWrap.trx", "tronWeb", "tronWeb.trx"} ->
            has(chainContexts, "tron")
       [] p = "waitForTransactionReceipt" -> has(configContexts, "function")]

pathFields == {"working_directory", "contracts_directory", "contracts_build_directory",
               "build_info_directory"}

\* A configuration: fields TronBox resolves, and a few it leaves as they are. A
\* network_id may be a number or a string.
Configured ==
  [working_directory |-> "inside", contracts_directory |-> "inside",
   contracts_build_directory |-> "inside", build_info_directory |-> "inside",
   network |-> "shasta", networks |-> {"shasta"}, network_id |-> "number 1",
   configured_id |-> "number 1", privateKey |-> "set", feeLimit |-> Nullish,
   evm |-> Missing, legacyFlag |-> Missing, networkVersion |-> Missing,
   globalVersion |-> "0.8.20", solc |-> "no keys", settings |-> "settings",
   resolver |-> "resolver", logger |-> "object", quiet |-> Missing]

\* What else a field may hold.
Odd(field) ==
  {Missing, Threw} \cup
  CASE field \in pathFields -> {"outside", "relative"}
    [] field = "network" -> {"nile", Nullish}
    [] field = "networks" -> {{}, {"shasta", "nile"}, Falsy}
    [] field \in {"network_id", "configured_id"} -> {"string 1", "string 2", "number 0"}
    [] field = "privateKey" -> {}
    [] field = "feeLimit" -> {"100", Junk}
    [] field = "evm" -> {"true"}
    [] field = "legacyFlag" -> {"useZeroFourCompiler"}
    [] field \in {"networkVersion", "globalVersion"} -> {"0.8.26", Falsy, Junk}
    [] field = "solc" -> {"keys", "uncloneable", Nullish, Junk}
    [] field = "settings" -> {"other settings", Falsy, Junk}
    [] field \in {"resolver", "logger"} -> {"other", Nullish}
    [] field = "quiet" -> {"true", Junk}
-----------------------------------------------------------------------------
(* Reading the handles and the configurations behind them *)

supplied(h) == host.at[h] # Undefined

\* A property that is there and is an object.
readsObject(p) == host.at[p] \notin {Undefined, Missing, Threw, Junk}

hops(h) ==
  IF h = "deployer" THEN {"deployer", "deployer.options", "deployer.options.options"}
  ELSE {"artifacts", "artifacts.resolver", "artifacts.resolver.options"}

config(h) ==
  host.configs[IF h = "deployer" THEN host.at["deployer.options.options"]
               ELSE host.at["artifacts.resolver.options"]]

inspectLineage(h) ==
  IF ~supplied(h) THEN "absent"
  ELSE IF /\ \A p \in hops(h) : readsObject(p)
          /\ config(h)["working_directory"] # Missing
  THEN "present" ELSE "malformed"

lineages == {h \in {"deployer", "artifacts"} : inspectLineage(h) # "absent"}

unread == {Missing, Threw}

\* Only the directory of the artifacts may lie outside the project.
projectPathValues(c) ==
  IF \/ \E f \in pathFields : c[f] \in unread \cup {"relative"}
     \/ (c["working_directory"] = "outside") # (c["build_info_directory"] = "outside")
  THEN Fails ELSE [f \in pathFields |-> c[f]]

normalizeNetworkId(id) ==
  IF id \in unread \cup {"number 0"} THEN Fails
  ELSE IF id = "number 1" THEN "string 1" ELSE id

projectNetworkValues(c) ==
  IF \/ c["network"] \in unread \cup {Nullish}
     \/ c["networks"] \in unread \cup {Falsy}
     \/ c["networks"] \notin unread \cup {Falsy} /\ c["network"] \notin c["networks"]
     \/ Fails \in {normalizeNetworkId(c["configured_id"]), normalizeNetworkId(c["network_id"])}
     \/ c["privateKey"] = Threw
     \/ c["feeLimit"] \in unread \cup {Junk}
  THEN Fails
  ELSE [name |-> c["network"],
        network_id |-> normalizeNetworkId(c["network_id"]),
        configured |-> normalizeNetworkId(c["configured_id"]),
        feeLimit |-> c["feeLimit"],
        signing |-> c["privateKey"] # Missing]

truthy(v) == v \notin {Missing, Falsy, Nullish}

\* The version of the project's, else of its network's configuration, else a flag's.
resolvedVersion(c) ==
  IF ~truthy(c["networks"]) THEN "host default"
  ELSE IF truthy(c["globalVersion"]) THEN c["globalVersion"]
  ELSE IF truthy(c["networkVersion"]) THEN c["networkVersion"]
  ELSE IF truthy(c["legacyFlag"]) THEN c["legacyFlag"]
  ELSE "host default"

settingsSourceOf(c) ==
  IF c["solc"] # "no keys" THEN "solc"
  ELSE IF truthy(c["settings"]) THEN "settings" ELSE "none"

projectCompilerValues(c) ==
  IF \/ c["evm"] = Threw
     \/ c["networks"] \in unread
     \/ /\ truthy(c["networks"])
        /\ \/ Threw \in {c["legacyFlag"], c["networkVersion"], c["globalVersion"]}
           \/ resolvedVersion(c) = Junk
     \/ c["solc"] \in unread \cup {Nullish, Junk}
     \/ c["solc"] = "no keys" /\ c["settings"] = Threw
  THEN Fails
  ELSE [version |-> resolvedVersion(c), evm |-> truthy(c["evm"]), source |-> settingsSourceOf(c)]

project(group, c) ==
  CASE group = "paths" -> projectPathValues(c)
    [] group = "network" -> projectNetworkValues(c)
    [] group = "compiler" -> projectCompilerValues(c)

\* The markers are none of what a sound host holds, nor a failure what its configuration says.
ASSUME MarkerAssumption ==
  LET markers == {Undefined, Missing, Threw, Junk, Nullish, Falsy, Fails} IN
  /\ markers \cap {"object", "live", "copy", "resolver", "tron", "function", "inside", "shasta",
                  "number 1", "string 1", "set", "0.8.20", "no keys", "settings", "true"} = {}
  /\ {"shasta"} \notin markers
  /\ {Missing, Nullish} \cap {Threw, Junk} = {} /\ Nullish # Missing
  /\ \A group \in {"paths", "network", "compiler"} : project(group, Configured) # Fails

failing(group) ==
  {h \in lineages : inspectLineage(h) = "malformed" \/ project(group, config(h)) = Fails}

\* Mutant: a lineage that cannot be used gives way to the other.
preferUsable(group) ==
  LET values == {project(group, config(h)) : h \in lineages \ failing(group)}
  IN IF lineages = {} THEN [kind |-> "no lineage"]
     ELSE IF values = {} THEN [kind |-> "failed"]
     ELSE IF Cardinality(values) > 1 THEN [kind |-> "disagree"]
     ELSE [kind |-> "agreed", values |-> CHOOSE v \in values : TRUE]

\* Every lineage there is must construct the group before any two are compared.
resolveGroup(group) ==
  IF lineages = {} THEN [kind |-> "no lineage"]
  ELSE IF failing(group) # {} THEN [kind |-> "failed"]
  ELSE LET values == {project(group, config(h)) : h \in lineages}
       IN IF Cardinality(values) > 1 THEN [kind |-> "disagree"]
          ELSE [kind |-> "agreed", values |-> CHOOSE v \in values : TRUE]

agreed(group) == resolveGroup(group).kind = "agreed"

settingsAt(c, source) == IF source = "solc" THEN c["solc"] ELSE c["settings"]

\* The settings are one object, seen through either lineage, that can be copied.
compareCompilerSettings(source) ==
  IF source = "none" THEN "no settings"
  ELSE LET found == {settingsAt(config(h), source) : h \in lineages}
       IN IF Cardinality(found) > 1 THEN "conflict"
          ELSE IF found \subseteq {"uncloneable", Junk} THEN Fails
          ELSE CHOOSE s \in found : TRUE
-----------------------------------------------------------------------------
(* The resolution, slot by slot *)

requested == request.required \cup request.optional

\* A construction failure is recorded only where the slot was required.
fail(slot, causes) == IF slot \in request.required THEN causes ELSE {}

Because(slot, cause) == [slot |-> slot, cause |-> cause]

unusable(slot) == {Because(slot, "unusable")}

missingHandles(slot) ==
  {Because(slot, h) : h \in {k \in slotRequirements(slot).handles : ~supplied(k)}}

hasBearingHandle ==
  \E slot \in requested : \E h \in slotRequirements(slot).handles : supplied(h)

With(f, slot, value) ==
  [s \in DOMAIN f \cup {slot} |-> IF s = slot THEN value ELSE f[s]]

Go(from, to) ==
  /\ stage = from
  /\ stage' = to
  /\ UNCHANGED <<context, faults, host>>

Ask(r) ==
  /\ Go("injected", "asked")
  /\ request' = r
  /\ UNCHANGED <<slots, unsatisfied, inconsistencies, outcome>>

AnyHandle ==
  /\ Go("asked", IF requested # {} /\ ~hasBearingHandle THEN "done" ELSE "paths")
  /\ outcome' = IF requested # {} /\ ~hasBearingHandle THEN "absent" ELSE outcome
  /\ UNCHANGED <<request, slots, unsatisfied, inconsistencies>>

\* The slots a group of fields backs.
backed(group) ==
  requested \cap IF group = "paths" THEN {"paths", "artifacts"} ELSE {group}

causesOf(slot, group) ==
  CASE resolveGroup(group).kind = "failed" -> unusable(slot)
    [] resolveGroup(group).kind = "no lineage" -> missingHandles(slot)
    [] OTHER -> {}

Group(group, to) ==
  /\ Go(group, to)
  /\ IF backed(group) = {} THEN UNCHANGED <<slots, unsatisfied, inconsistencies>>
     ELSE /\ unsatisfied' = unsatisfied \cup
               UNION {fail(slot, causesOf(slot, group)) : slot \in backed(group)}
          /\ inconsistencies' = inconsistencies \cup
               IF resolveGroup(group).kind = "disagree" THEN {group} ELSE {}
          /\ slots' = IF group \in requested \ {"compiler"} /\ agreed(group)
                      THEN With(slots, group, resolveGroup(group).values) ELSE slots
  /\ UNCHANGED <<request, outcome>>

\* The compiler's settings are compared once the lineages agree on where they are.
Settings ==
  /\ Go("settings", "artifacts")
  /\ IF "compiler" \notin requested \/ ~agreed("compiler")
     THEN UNCHANGED <<slots, unsatisfied, inconsistencies>>
     ELSE LET values == resolveGroup("compiler").values
              settings == compareCompilerSettings(values.source)
          IN /\ inconsistencies' = inconsistencies \cup
                  IF settings = "conflict" THEN {"settings"} ELSE {}
             /\ unsatisfied' = unsatisfied \cup
                  IF settings = Fails THEN fail("compiler", unusable("compiler")) ELSE {}
             /\ slots' = IF settings \in {"conflict", Fails} THEN slots
                         ELSE With(slots, "compiler", [values |-> values, settings |-> settings])
  /\ UNCHANGED <<request, outcome>>

interceptFromHandle ==
  \A p \in {"artifacts", "artifacts.require", "artifacts.resolver"} : readsObject(p)

\* A slot that is one of the handles: built of a usable one, or diagnosed.
Handle(slot, there, usable, value) ==
  IF slot \notin requested THEN UNCHANGED <<slots, unsatisfied>>
  ELSE /\ slots' = IF there /\ usable THEN With(slots, slot, value) ELSE slots
       /\ unsatisfied' = unsatisfied \cup
            CASE ~there -> fail(slot, missingHandles(slot))
              [] there /\ ~usable -> fail(slot, unusable(slot))
              [] OTHER -> {}

Artifacts ==
  /\ Go("artifacts", "chain")
  /\ IF supplied("artifacts") /\ interceptFromHandle /\ ~agreed("paths")
     THEN UNCHANGED <<slots, unsatisfied>>
     ELSE Handle("artifacts", supplied("artifacts"), interceptFromHandle,
                 host.at["artifacts.resolver"])
  /\ UNCHANGED <<request, inconsistencies, outcome>>

chainNames == {n \in {"tronWrap", "tronWeb"} : supplied(n)}

trx(n) == IF n = "tronWrap" THEN "tronWrap.trx" ELSE "tronWeb.trx"

\* Two names for one object; each that is given must be usable.
Chain ==
  /\ Go("chain", "receipts")
  /\ LET usable == \A n \in chainNames : readsObject(n) /\ readsObject(trx(n))
         given == {host.at[n] : n \in chainNames}
     IN IF "chain" \in requested /\ usable /\ Cardinality(given) > 1
        THEN /\ inconsistencies' = inconsistencies \cup {"chain"}
             /\ UNCHANGED <<slots, unsatisfied>>
        ELSE /\ Handle("chain", chainNames # {}, usable, given)
             /\ UNCHANGED inconsistencies
  /\ UNCHANGED <<request, outcome>>

Receipts ==
  /\ Go("receipts", "scheduling")
  /\ Handle("receipts", supplied("waitForTransactionReceipt"),
            readsObject("waitForTransactionReceipt"), "wait")
  /\ UNCHANGED <<request, inconsistencies, outcome>>

Scheduling ==
  /\ Go("scheduling", "output")
  /\ Handle("scheduling", supplied("deployer"),
            readsObject("deployer") /\ readsObject("deployer.then"), "deployer")
  /\ UNCHANGED <<request, inconsistencies, outcome>>

\* Where the logger comes from, and the lineage whose "quiet" goes with it.
outputOrigin == IF supplied("deployer") THEN "deployer" ELSE "artifacts"

quietFrom == config(outputOrigin)["quiet"]

loggerUsable ==
  IF outputOrigin = "deployer" THEN readsObject("deployer.logger.log")
  ELSE config("artifacts")["logger"] \notin {Missing, Threw, Nullish}

outputFromHandles ==
  /\ inspectLineage(outputOrigin) = "present"
  /\ loggerUsable
  /\ quietFrom \notin {Threw, Junk}

Output ==
  /\ Go("output", "pairing")
  /\ Handle("output", lineages # {}, outputFromHandles,
            [origin |-> outputOrigin, quiet |-> quietFrom = "true"])
  /\ UNCHANGED <<request, inconsistencies, outcome>>

\* Whether the artifacts wrap the resolver of the deployer's configuration.
checkResolverPairing ==
  IF \E h \in {"deployer", "artifacts"} : inspectLineage(h) # "present" THEN "unchecked"
  ELSE IF config("deployer")["resolver"] \in {Missing, Threw, Nullish} THEN "unusable"
  ELSE IF config("deployer")["resolver"] = host.at["artifacts.resolver"] THEN "paired"
  ELSE "mispaired"

Pairing ==
  /\ Go("pairing", "finish")
  /\ inconsistencies' = inconsistencies \cup
       IF checkResolverPairing = "mispaired" THEN {"pairing"} ELSE {}
  /\ unsatisfied' = unsatisfied \cup
       IF checkResolverPairing = "unusable"
       THEN UNION {fail(slot, unusable(slot)) :
                     slot \in {"artifacts", "paths", "network", "output", "compiler"}}
       ELSE {}
  /\ UNCHANGED <<request, slots, outcome>>

\* Mutant: a disagreement is reported first.
disagreementFirst ==
  CASE inconsistencies # {} -> "inconsistent"
    [] inconsistencies = {} /\ unsatisfied # {} -> "incomplete"
    [] OTHER -> "resolved"

verdict ==
  CASE unsatisfied # {} -> "incomplete"
    [] unsatisfied = {} /\ inconsistencies # {} -> "inconsistent"
    [] unsatisfied = {} /\ inconsistencies = {} ->
         IF request.required \subseteq DOMAIN slots THEN "resolved" ELSE "neither"

Finish ==
  /\ Go("finish", "done")
  /\ outcome' = verdict
  /\ UNCHANGED <<request, slots, unsatisfied, inconsistencies>>
-----------------------------------------------------------------------------
(* What may be wrong with what is injected *)

Spoil ==
  /\ stage = "injected"
  /\ faults < MaxFaults
  /\ faults' = faults + 1
  /\ \/ \E h \in Handles : supplied(h) /\ host' = [host EXCEPT !.at[h] = Undefined]
     \/ \E p \in DOMAIN host.at :
          /\ host.at[p] # Undefined
          /\ \E v \in {Junk} \cup (IF p \in Handles THEN {} ELSE {Missing}) :
               host' = [host EXCEPT !.at[p] = v]
     \/ readsObject("tronWeb") /\ host' = [host EXCEPT !.at["tronWeb"] = "another"]
     \/ \E c \in {host.at["deployer.options.options"], host.at["artifacts.resolver.options"]}
                   \cap {"live", "copy"} :
        \E f \in DOMAIN Configured : \E v \in Odd(f) :
          host' = [host EXCEPT !.configs[c][f] = v]
  /\ UNCHANGED <<context, request, stage, slots, unsatisfied, inconsistencies, outcome>>

Init ==
  /\ context \in Contexts
  /\ faults = 0
  /\ host = [at |-> injected(context),
             configs |-> [live |-> Configured, copy |-> [Configured EXCEPT !.quiet = "true"]]]
  /\ request = [required |-> {}, optional |-> {}]
  /\ stage = "injected"
  /\ slots = <<>>
  /\ unsatisfied = {}
  /\ inconsistencies = {}
  /\ outcome = "none"

Next ==
  \/ Spoil
  \/ \E r \in Requests : Ask(r)
  \/ AnyHandle
  \/ Group("paths", "network") \/ Group("network", "compiler") \/ Group("compiler", "settings")
  \/ Settings \/ Artifacts \/ Chain \/ Receipts \/ Scheduling \/ Output \/ Pairing \/ Finish

Spec == Init /\ [][Next]_vars
-----------------------------------------------------------------------------
(* Properties *)

\* Type correctness; no resolution ends "neither": every required slot was constructed or
\* diagnosed, whatever is wrong with the host (resolve.ts:597 asserts it of itself).
TypeOK ==
  /\ context \in Contexts
  /\ faults \in 0..MaxFaults
  /\ DOMAIN slots \subseteq requested
  /\ \A u \in unsatisfied : u.slot \in request.required
                              /\ u.cause \in Handles \cup {"unusable"}
  /\ inconsistencies \subseteq {"paths", "network", "compiler", "settings", "chain", "pairing"}
  /\ outcome \in {"none", "absent", "incomplete", "inconsistent", "resolved"}
  /\ (stage = "done") = (outcome # "none")

\* What the configuration a handle leads to says of a group of slots.
Says(h, slot) == IF inspectLineage(h) = "present" THEN project(slot, config(h)) ELSE Fails

\* No value is taken from one source where another was reachable and said, or could
\* not say, something else: "a silent preference of exactly the kind this seam
\* forbids" (resolve.ts:128). It holds of what was constructed at any moment, and
\* once resolved every handle that was passed belongs to one migration (of slots that
\* are only optional a resolver that cannot be read says nothing).
NoPreference ==
  /\ \A slot \in {"paths", "network"} \cap DOMAIN slots :
       \A h \in {"deployer", "artifacts"} : supplied(h) => Says(h, slot) = slots[slot]
  /\ "compiler" \in DOMAIN slots =>
       \A h \in {"deployer", "artifacts"} : supplied(h) =>
         /\ Says(h, "compiler") = slots["compiler"].values
         /\ slots["compiler"].settings # "no settings" =>
              settingsAt(config(h), slots["compiler"].values.source) = slots["compiler"].settings
  /\ "chain" \in DOMAIN slots =>
       \A n \in {"tronWrap", "tronWeb"} : supplied(n) => {host.at[n]} = slots["chain"]
  /\ outcome = "resolved" /\ {"artifacts", "paths"} \cap request.required # {}
       /\ supplied("deployer") /\ supplied("artifacts") =>
       config("deployer")["resolver"] = host.at["artifacts.resolver"]

\* A diagnosis names what is true: a handle that is missing was not passed; what is
\* unusable was; and as long as a required slot cannot be built nothing is said about
\* a disagreement (resolve.ts:587).
DiagnosesAreTrue ==
  /\ TypeOK
  /\ \A u \in unsatisfied :
       IF u.cause \in Handles THEN ~supplied(u.cause)
       ELSE \E h \in slotRequirements(u.slot).handles \cup {"deployer"} : supplied(h)
  /\ outcome = "inconsistent" =>
       \A slot \in request.required \cap {"network", "compiler"} :
         \A h \in {"deployer", "artifacts"} : supplied(h) => Says(h, slot) # Fails
  /\ outcome = "incomplete" =>
       \A slot \in request.required \ DOMAIN slots :
         \/ \E u \in unsatisfied : u.slot = slot
         \/ inconsistencies # {}
  /\ outcome = "absent" => \A slot \in requested : context \notin slotRequirements(slot).providedIn
                                                    \/ faults > 0

\* The table the refusals quote - where a slot is provided and where it is not - says
\* what the resolution does: with nothing wrong, a request is met exactly in the
\* contexts that provide all it requires (slots.ts:61).
TableIsTrue ==
  faults = 0 /\ stage = "done" =>
    (outcome = "resolved") =
      \A slot \in request.required : context \in slotRequirements(slot).providedIn

=============================================================================
