--------------------------- MODULE EnvironmentProofs ---------------------------
(***************************************************************************)
(* Proofs about Environment, for any number of faults in any handle, any   *)
(* property and any field, and for any request: a resolution always ends   *)
(* in an answer, what it constructed is what every handle says, and what   *)
(* it complains of is so.                                                  *)
(***************************************************************************)
EXTENDS Environment, FiniteSetTheorems, TLAPS

Groups == {"paths", "network", "compiler"}

-----------------------------------------------------------------------------
(* The inductive invariant *)

Rank(st) ==
  CASE st = "injected" -> 0
    [] st = "asked" -> 1
    [] st = "paths" -> 2
    [] st = "network" -> 3
    [] st = "compiler" -> 4
    [] st = "settings" -> 5
    [] st = "artifacts" -> 6
    [] st = "chain" -> 7
    [] st = "receipts" -> 8
    [] st = "scheduling" -> 9
    [] st = "output" -> 10
    [] st = "pairing" -> 11
    [] st = "finish" -> 12
    [] st = "done" -> 13

Stage == {"injected", "asked", "paths", "network", "compiler", "settings", "artifacts", "chain",
          "receipts", "scheduling", "output", "pairing", "finish", "done"}

Passed(st) == Rank(stage) > Rank(st) /\ outcome # "absent"

\* What was looked at before this was constructed for a slot.
Built(slot, v) ==
  /\ slot \in requested
  /\ slot \in {"paths", "network"} => agreed(slot) /\ v = resolveGroup(slot).values
  /\ slot = "compiler" =>
       LET settings == compareCompilerSettings(resolveGroup("compiler").values.source)
       IN /\ agreed("compiler") /\ settings \notin {"conflict", Fails}
          /\ v = [values |-> resolveGroup("compiler").values, settings |-> settings]
  /\ slot = "artifacts" => agreed("paths")
  /\ slot = "chain" => /\ v = {host.at[n] : n \in chainNames}
                       /\ ~(Cardinality({host.at[n] : n \in chainNames}) > 1)
  /\ \E h \in slotRequirements(slot).handles : supplied(h)

\* A complaint about a required slot: a handle that is missing, or one that is there.
Diagnosis(u) ==
  /\ u.slot \in request.required
  /\ \/ u.cause \in slotRequirements(u.slot).handles /\ ~supplied(u.cause)
     \/ u.cause = "unusable" /\ \E h \in slotRequirements(u.slot).handles \cup {"deployer"} : supplied(h)

\* What was found of a required slot.
Answered(slot) ==
  \/ slot \in DOMAIN slots
  \/ \E u \in unsatisfied : u.slot = slot
  \/ inconsistencies # {}

lastStage(slot) == IF slot = "compiler" THEN "settings" ELSE slot

\* No slot is left behind without an answer, and a lineage that fails is always told of.
NothingIsForgotten ==
  /\ \A slot \in request.required : Passed(lastStage(slot)) => Answered(slot)
  /\ \A slot \in Groups \cap request.required : Passed(slot) =>
       /\ ~agreed(slot) => Answered(slot)
       /\ failing(slot) # {} => Because(slot, "unusable") \in unsatisfied
  /\ "artifacts" \in request.required /\ supplied("artifacts") /\ Passed("paths") /\ ~agreed("paths") =>
       Answered("artifacts")
  /\ Passed("pairing") =>
       /\ checkResolverPairing = "mispaired" => inconsistencies # {}
       /\ checkResolverPairing = "unusable" /\ {"artifacts", "paths"} \cap request.required # {} =>
            unsatisfied # {}

\* With nothing wrong the lineages agree, and only what the context does not provide is missed.
FineHost ==
  [at |-> injected(context), configs |-> [live |-> Configured, copy |-> [Configured EXCEPT !.quiet = "true"]]]

NothingWrong ==
  faults = 0 =>
    /\ host = FineHost
    /\ inconsistencies = {}
    /\ \A u \in unsatisfied : context \notin slotRequirements(u.slot).providedIn

Verdicts ==
  /\ (stage = "done") = (outcome # "none")
  /\ outcome \in {"none", "absent"} \/ outcome = verdict
  /\ outcome = "absent" => requested # {} /\ ~hasBearingHandle

EnvInv ==
  /\ context \in Contexts /\ faults \in 0..MaxFaults /\ stage \in Stage
  /\ request.required \cup request.optional \subseteq Slots
  /\ stage \in {"injected", "asked"} => slots = << >> /\ unsatisfied = {} /\ inconsistencies = {}
  /\ stage # "injected" => request.required # {}
  /\ inconsistencies \subseteq {"paths", "network", "compiler", "settings", "chain", "pairing"}
  /\ \A slot \in DOMAIN slots : Built(slot, slots[slot])
  /\ \A u \in unsatisfied : Diagnosis(u)
  /\ NothingIsForgotten /\ NothingWrong /\ Verdicts

-----------------------------------------------------------------------------
(* What is fixed once a request is made *)

Fixed == host' = host /\ request' = request /\ context' = context /\ faults' = faults

\* Nothing that is read of the host or the request changes under a resolution.
LEMMA Readings ==
  ASSUME Fixed
  PROVE  /\ requested' = requested /\ hasBearingHandle' = hasBearingHandle
         /\ checkResolverPairing' = checkResolverPairing /\ chainNames' = chainNames
         /\ \A h : supplied(h)' = supplied(h)
         /\ \A g : resolveGroup(g)' = resolveGroup(g) /\ agreed(g)' = agreed(g) /\ failing(g)' = failing(g)
         /\ \A source : compareCompilerSettings(source)' = compareCompilerSettings(source)
<1>1. \A h : supplied(h)' = supplied(h) /\ inspectLineage(h)' = inspectLineage(h) /\ config(h)' = config(h)
  BY DEF Fixed, supplied, inspectLineage, config, readsObject
<1>2. requested' = requested /\ hasBearingHandle' = hasBearingHandle /\ chainNames' = chainNames
  BY <1>1 DEF Fixed, requested, hasBearingHandle, chainNames
<1>3. lineages' = lineages
  BY <1>1 DEF lineages
<1>4. \A g : failing(g)' = failing(g)
  BY <1>1, <1>3 DEF failing
<1>5. \A g : resolveGroup(g)' = resolveGroup(g)
  BY <1>1, <1>3, <1>4 DEF resolveGroup
<1>6. \A source : compareCompilerSettings(source)' = compareCompilerSettings(source)
  <2>1. ASSUME NEW source
        PROVE  {settingsAt(config(h), source) : h \in lineages}' = {settingsAt(config(h), source) : h \in lineages}
    <3>1. \A h : settingsAt(config(h), source)' = settingsAt(config(h), source)
      BY <1>1 DEF settingsAt
    <3> QED
      BY <1>3, <3>1
  <2> QED
    BY <2>1 DEF compareCompilerSettings
<1>7. checkResolverPairing' = checkResolverPairing
  BY <1>1 DEF Fixed, checkResolverPairing
<1> QED
  BY <1>1, <1>2, <1>4, <1>5, <1>6, <1>7 DEF agreed

\* So what was built stays what was to be built, and a diagnosis stays so.
LEMMA BuiltStays ==
  ASSUME Fixed
  PROVE  /\ \A slot, v : Built(slot, v)' = Built(slot, v)
         /\ \A u : Diagnosis(u)' = Diagnosis(u)
<1>1. \A slot, v : Built(slot, v)' = Built(slot, v)
  BY Readings DEF Fixed, Built
<1>2. \A u : Diagnosis(u)' = Diagnosis(u)
  BY Readings DEF Fixed, Diagnosis
<1> QED
  BY <1>1, <1>2

-----------------------------------------------------------------------------
(* Of several values at most one *)

\* A finite set of no more than one element.
LEMMA AtMostOne ==
  ASSUME NEW S, IsFiniteSet(S), ~(Cardinality(S) > 1), NEW a \in S, NEW b \in S
  PROVE  a = b
<1> SUFFICES ASSUME a # b PROVE FALSE
  OBVIOUS
<1>1. {a, b} \subseteq S
  OBVIOUS
<1>2. Cardinality({a}) = 1 /\ IsFiniteSet({a})
  BY FS_Singleton
<1>3. Cardinality({a} \cup {b}) = Cardinality({a}) + 1
  BY <1>2, FS_AddElement
<1>4. {a} \cup {b} = {a, b}
  OBVIOUS
<1>5. Cardinality({a, b}) <= Cardinality(S)
  BY <1>1, FS_Subset
<1>6. Cardinality(S) \in Nat
  BY FS_CardinalityType
<1> QED
  BY <1>2, <1>3, <1>4, <1>5, <1>6

\* What is among two things is finite.
LEMMA PairsAreFinite ==
  ASSUME NEW S, NEW a, NEW b, S \subseteq {a, b}
  PROVE  IsFiniteSet(S)
<1>1. IsFiniteSet({a} \cup {b}) /\ {a} \cup {b} = {a, b}
  BY FS_Singleton, FS_AddElement
<1> QED
  BY <1>1, FS_Subset

\* The lineages are those of the handles supplied, the names of the chain two at most.
LEMMA Pairs ==
  /\ lineages \subseteq {"deployer", "artifacts"} /\ IsFiniteSet(lineages)
  /\ chainNames \subseteq {"tronWrap", "tronWeb"} /\ IsFiniteSet(chainNames)
  /\ \A h \in {"deployer", "artifacts"} : h \in lineages <=> supplied(h)
<1>2. lineages \subseteq {"deployer", "artifacts"} /\ chainNames \subseteq {"tronWrap", "tronWeb"}
  BY DEF lineages, chainNames
<1>3. \A h \in {"deployer", "artifacts"} : h \in lineages <=> supplied(h)
  BY DEF lineages, inspectLineage
<1> QED
  BY <1>2, <1>3, PairsAreFinite

\* What is agreed on is what every lineage says.
LEMMA AgreedByAll ==
  ASSUME NEW group, agreed(group)
  PROVE  /\ lineages # {} /\ failing(group) = {}
         /\ \A h \in {"deployer", "artifacts"} : supplied(h) =>
              inspectLineage(h) = "present" /\ project(group, config(h)) = resolveGroup(group).values
<1> DEFINE values == {project(group, config(h)) : h \in lineages}
<1>1. lineages # {} /\ failing(group) = {} /\ ~(Cardinality(values) > 1)
      /\ resolveGroup(group).values = CHOOSE v \in values : TRUE
  BY DEF agreed, resolveGroup
<1>2. IsFiniteSet(values)
  <2>1. values \subseteq {project(group, config("deployer")), project(group, config("artifacts"))}
    BY Pairs
  <2> QED
    BY <2>1, PairsAreFinite
<1>3. resolveGroup(group).values \in values
  BY <1>1
<1>4. ASSUME NEW h \in {"deployer", "artifacts"}, supplied(h)
      PROVE  inspectLineage(h) = "present" /\ project(group, config(h)) = resolveGroup(group).values
  <2>1. h \in lineages /\ inspectLineage(h) = "present"
    BY <1>1, <1>4, Pairs DEF failing, lineages, inspectLineage
  <2>2. project(group, config(h)) \in values
    BY <2>1
  <2> HIDE DEF values
  <2> QED
    BY <1>1, <1>2, <1>3, <2>1, <2>2, AtMostOne
<1> QED
  BY <1>1, <1>4

\* The settings are those of every lineage, where the agreed source says they are.
LEMMA SettingsOfAll ==
  ASSUME NEW source, compareCompilerSettings(source) \notin {"conflict", Fails, "no settings"}, lineages # {}
  PROVE  \A h \in {"deployer", "artifacts"} : supplied(h) =>
           settingsAt(config(h), source) = compareCompilerSettings(source)
<1> DEFINE found == {settingsAt(config(h), source) : h \in lineages}
<1>1. ~(Cardinality(found) > 1) /\ compareCompilerSettings(source) = CHOOSE s \in found : TRUE
  BY DEF compareCompilerSettings
<1>2. IsFiniteSet(found)
  <2>1. found \subseteq {settingsAt(config("deployer"), source), settingsAt(config("artifacts"), source)}
    BY Pairs
  <2> QED
    BY <2>1, PairsAreFinite
<1>3. compareCompilerSettings(source) \in found
  BY <1>1
<1>4. \A h \in {"deployer", "artifacts"} : supplied(h) => settingsAt(config(h), source) \in found
  BY Pairs
<1> HIDE DEF found
<1> QED
  BY <1>1, <1>2, <1>3, <1>4, AtMostOne

-----------------------------------------------------------------------------
(* A host with nothing wrong *)

\* What a context injects, path by path.
LEMMA FineHandles ==
  ASSUME host = FineHost, context \in Contexts
  PROVE  /\ \A p \in {"deployer", "deployer.options", "deployer.then", "deployer.logger.log"} :
              host.at[p] = IF context \in deployerContexts THEN "object" ELSE Undefined
         /\ host.at["deployer.options.options"] =
              IF context = "tronbox test migration phase" THEN "copy"
              ELSE IF context \in deployerContexts THEN "live" ELSE Undefined
         /\ \A p \in {"artifacts", "artifacts.require"} :
              host.at[p] = IF context \in configContexts THEN "object" ELSE Undefined
         /\ host.at["artifacts.resolver"] = IF context \in configContexts THEN "resolver" ELSE Undefined
         /\ host.at["artifacts.resolver.options"] = IF context \in configContexts THEN "live" ELSE Undefined
         /\ \A p \in {"tronWrap", "tronWrap.trx", "tronWeb", "tronWeb.trx"} :
              host.at[p] = IF context \in chainContexts THEN "tron" ELSE Undefined
         /\ host.at["waitForTransactionReceipt"] =
              IF context \in configContexts THEN "function" ELSE Undefined
         /\ host.configs["live"] = Configured
         /\ host.configs["copy"] = [Configured EXCEPT !.quiet = "true"]
<1>1. host.at = injected(context) /\ host.configs["live"] = Configured
      /\ host.configs["copy"] = [Configured EXCEPT !.quiet = "true"]
  BY DEF FineHost
<1> QED
  BY <1>1 DEF injected

\* Which handles there are, and that what they lead to can be read.
LEMMA FineReadings ==
  ASSUME host = FineHost, context \in Contexts
  PROVE  /\ supplied("deployer") <=> context \in deployerContexts
         /\ supplied("artifacts") <=> context \in configContexts
         /\ supplied("waitForTransactionReceipt") <=> context \in configContexts
         /\ \A n \in {"tronWrap", "tronWeb"} : supplied(n) <=> context \in chainContexts
         /\ context \in deployerContexts =>
              /\ \A p \in hops("deployer") \cup {"deployer.then", "deployer.logger.log"} : readsObject(p)
              /\ config("deployer") \in {Configured, [Configured EXCEPT !.quiet = "true"]}
         /\ context \in configContexts =>
              /\ \A p \in hops("artifacts") \cup {"artifacts.require", "waitForTransactionReceipt"} : readsObject(p)
              /\ config("artifacts") = Configured
         /\ context \in chainContexts =>
              \A n \in {"tronWrap", "tronWeb"} : readsObject(n) /\ readsObject(trx(n)) /\ host.at[n] = "tron"
<1>1. {Undefined, Missing, Threw, Junk}
        \cap {"object", "live", "copy", "resolver", "tron", "function"} = {}
  BY MarkerAssumption
<1>2. \A p : readsObject(p) <=> host.at[p] \notin {Undefined, Missing, Threw, Junk}
  BY DEF readsObject
<1>3. \A h : supplied(h) <=> host.at[h] # Undefined
  BY DEF supplied
<1>4. /\ supplied("deployer") <=> context \in deployerContexts
      /\ supplied("artifacts") <=> context \in configContexts
      /\ supplied("waitForTransactionReceipt") <=> context \in configContexts
      /\ \A n \in {"tronWrap", "tronWeb"} : supplied(n) <=> context \in chainContexts
  BY <1>1, <1>3, FineHandles
<1>5. ASSUME context \in deployerContexts
      PROVE  /\ \A p \in hops("deployer") \cup {"deployer.then", "deployer.logger.log"} : readsObject(p)
             /\ config("deployer") \in {Configured, [Configured EXCEPT !.quiet = "true"]}
  <2>1. /\ host.at["deployer"] = "object" /\ host.at["deployer.options"] = "object"
        /\ host.at["deployer.then"] = "object" /\ host.at["deployer.logger.log"] = "object"
        /\ host.at["deployer.options.options"] \in {"live", "copy"}
    BY <1>5, FineHandles
  <2>2. \A p \in hops("deployer") \cup {"deployer.then", "deployer.logger.log"} : readsObject(p)
    BY <1>1, <1>2, <2>1 DEF hops
  <2>3. config("deployer") \in {Configured, [Configured EXCEPT !.quiet = "true"]}
    BY <2>1, FineHandles DEF config
  <2> QED
    BY <2>2, <2>3
<1>6. ASSUME context \in configContexts
      PROVE  /\ \A p \in hops("artifacts") \cup {"artifacts.require", "waitForTransactionReceipt"} : readsObject(p)
             /\ config("artifacts") = Configured
  <2>1. /\ host.at["artifacts"] = "object" /\ host.at["artifacts.require"] = "object"
        /\ host.at["artifacts.resolver"] = "resolver" /\ host.at["artifacts.resolver.options"] = "live"
        /\ host.at["waitForTransactionReceipt"] = "function"
    BY <1>6, FineHandles
  <2>2. \A p \in hops("artifacts") \cup {"artifacts.require", "waitForTransactionReceipt"} : readsObject(p)
    BY <1>1, <1>2, <2>1 DEF hops
  <2>3. config("artifacts") = Configured
    BY <2>1, FineHandles DEF config
  <2> QED
    BY <2>2, <2>3
<1>7. ASSUME context \in chainContexts
      PROVE  \A n \in {"tronWrap", "tronWeb"} : readsObject(n) /\ readsObject(trx(n)) /\ host.at[n] = "tron"
  <2>1. \A n \in {"tronWrap", "tronWeb"} : host.at[n] = "tron" /\ host.at[trx(n)] = "tron"
    BY <1>7, FineHandles DEF trx
  <2> QED
    BY <1>1, <1>2, <2>1
<1> QED
  BY <1>4, <1>5, <1>6, <1>7

\* The fields of a configuration besides the one that the deployer's copy changes.
SharedFields ==
  {"working_directory", "contracts_directory", "contracts_build_directory", "build_info_directory",
   "network", "networks", "network_id", "configured_id", "privateKey", "feeLimit", "evm", "legacyFlag",
   "networkVersion", "globalVersion", "solc", "settings", "resolver", "logger"}

\* The fields of a sound configuration; the copy differs in one that no group reads.
LEMMA FineFields ==
  ASSUME NEW c \in {Configured, [Configured EXCEPT !.quiet = "true"]}
  PROVE  /\ \A f \in SharedFields : c[f] = Configured[f]
         /\ c["quiet"] \in {Missing, "true"}
         /\ c["working_directory"] = "inside" /\ c["solc"] = "no keys" /\ c["settings"] = "settings"
         /\ c["resolver"] = "resolver" /\ c["logger"] = "object"
<1>1. CASE c = Configured
  BY <1>1 DEF Configured
<1>2. CASE c = [Configured EXCEPT !.quiet = "true"]
  <2>1. "quiet" \in DOMAIN Configured
    BY DEF Configured
  <2>2. c["quiet"] = "true"
    BY <1>2, <2>1
  <2>3. \A f \in DOMAIN Configured \ {"quiet"} : c[f] = Configured[f]
    BY <1>2
  <2>4. SharedFields \subseteq DOMAIN Configured \ {"quiet"}
    BY DEF SharedFields, Configured
  <2>5. \A f \in SharedFields : c[f] = Configured[f]
    BY <2>3, <2>4
  <2>6. /\ Configured["working_directory"] = "inside" /\ Configured["solc"] = "no keys"
        /\ Configured["settings"] = "settings" /\ Configured["resolver"] = "resolver"
        /\ Configured["logger"] = "object"
    BY DEF Configured
  <2>7. {"working_directory", "solc", "settings", "resolver", "logger"} \subseteq SharedFields
    BY DEF SharedFields
  <2> QED
    BY <2>2, <2>5, <2>6, <2>7
<1> QED
  BY <1>1, <1>2

\* No group says of the copy what it does not say of the configuration.
LEMMA FineProjections ==
  ASSUME NEW c \in {Configured, [Configured EXCEPT !.quiet = "true"]}, NEW group \in Groups
  PROVE  project(group, c) = project(group, Configured) /\ project(group, Configured) # Fails
<1>1. \A f \in SharedFields : c[f] = Configured[f]
  BY FineFields
<1>2. CASE group = "paths"
  <2>1. projectPathValues(c) = projectPathValues(Configured)
    BY <1>1 DEF projectPathValues, pathFields, SharedFields
  <2> QED
    BY <1>2, <2>1, MarkerAssumption DEF project
<1>3. CASE group = "network"
  <2>1. projectNetworkValues(c) = projectNetworkValues(Configured)
    BY <1>1 DEF projectNetworkValues, SharedFields
  <2> QED
    BY <1>3, <2>1, MarkerAssumption DEF project
<1>4. CASE group = "compiler"
  <2>1. resolvedVersion(c) = resolvedVersion(Configured) /\ settingsSourceOf(c) = settingsSourceOf(Configured)
    BY <1>1 DEF resolvedVersion, settingsSourceOf, SharedFields
  <2>2. projectCompilerValues(c) = projectCompilerValues(Configured)
    BY <1>1, <2>1 DEF projectCompilerValues, SharedFields
  <2> QED
    BY <1>4, <2>2, MarkerAssumption DEF project
<1> QED
  BY <1>2, <1>3, <1>4 DEF Groups

\* The lineages of a sound host can be read and lead to sound configurations.
LEMMA FineLineages ==
  ASSUME host = FineHost, context \in Contexts
  PROVE  /\ lineages = {} <=> context \notin configContexts
         /\ \A h \in lineages : inspectLineage(h) = "present"
                                /\ config(h) \in {Configured, [Configured EXCEPT !.quiet = "true"]}
<1>1. deployerContexts \subseteq configContexts
  BY DEF deployerContexts, configContexts
<1>2. \A h \in lineages : \/ h = "deployer" /\ context \in deployerContexts
                          \/ h = "artifacts" /\ context \in configContexts
  BY Pairs, FineReadings
<1>3. \A h \in lineages : /\ \A p \in hops(h) : readsObject(p)
                          /\ config(h) \in {Configured, [Configured EXCEPT !.quiet = "true"]}
  BY <1>2, FineReadings
<1>4. "inside" # Missing
  BY MarkerAssumption
<1>5. \A h \in lineages : config(h)["working_directory"] = "inside"
  BY <1>3, FineFields
<1>6. \A h \in lineages : inspectLineage(h) = "present"
  BY <1>2, <1>3, <1>4, <1>5, Pairs DEF inspectLineage
<1>7. context \in configContexts => "artifacts" \in lineages
  BY Pairs, FineReadings
<1> QED
  BY <1>1, <1>2, <1>3, <1>6, <1>7

\* So they agree on every group, where there are any.
LEMMA FineGroups ==
  ASSUME host = FineHost, context \in Contexts, NEW group \in Groups
  PROVE  /\ failing(group) = {}
         /\ resolveGroup(group).kind = IF context \in configContexts THEN "agreed" ELSE "no lineage"
         /\ context \in configContexts => resolveGroup(group).values = project(group, Configured)
<1>1. failing(group) = {}
  <2>1. \A h \in lineages : inspectLineage(h) = "present" /\ project(group, config(h)) # Fails
    BY FineLineages, FineProjections
  <2> QED
    BY <2>1 DEF failing
<1>2. CASE context \notin configContexts
  BY <1>1, <1>2, FineLineages DEF resolveGroup
<1>3. CASE context \in configContexts
  <2> DEFINE values == {project(group, config(h)) : h \in lineages}
  <2>1. values = {project(group, Configured)}
    BY <1>3, FineLineages, FineProjections
  <2>2. ~(Cardinality(values) > 1) /\ (CHOOSE v \in values : TRUE) = project(group, Configured)
    <3> HIDE DEF values
    <3>1. Cardinality(values) = 1
      BY <2>1, FS_Singleton
    <3>2. (CHOOSE v \in values : TRUE) = project(group, Configured)
      BY <2>1
    <3> QED
      BY <3>1, <3>2
  <2>3. lineages # {}
    BY <1>3, FineLineages
  <2>4. resolveGroup(group) = [kind |-> "agreed", values |-> CHOOSE v \in values : TRUE]
    BY <1>1, <2>2, <2>3 DEF resolveGroup
  <2>5. resolveGroup(group) = [kind |-> "agreed", values |-> project(group, Configured)]
    BY <2>2, <2>4
  <2> QED
    BY <1>1, <1>3, <2>5
<1> QED
  BY <1>1, <1>2, <1>3

\* Their settings are one object.
LEMMA FineSettings ==
  ASSUME host = FineHost, context \in configContexts, context \in Contexts
  PROVE  compareCompilerSettings(resolveGroup("compiler").values.source) \notin {"conflict", Fails}
<1>1. settingsSourceOf(Configured) = "settings"
  <2>1. Configured["solc"] = "no keys" /\ Configured["settings"] = "settings"
    BY DEF Configured
  <2> QED
    BY <2>1, MarkerAssumption DEF settingsSourceOf, truthy
<1>2. resolveGroup("compiler").values.source = "settings"
  <2>1. resolveGroup("compiler").values = project("compiler", Configured)
        /\ project("compiler", Configured) # Fails
    BY FineGroups, FineProjections DEF Groups
  <2>2. project("compiler", Configured) = projectCompilerValues(Configured)
    BY DEF project
  <2>3. projectCompilerValues(Configured).source = "settings"
    BY <1>1, <2>1, <2>2 DEF projectCompilerValues
  <2> QED
    BY <2>1, <2>2, <2>3
<1> DEFINE found == {settingsAt(config(h), "settings") : h \in lineages}
<1>3. \A h \in lineages : settingsAt(config(h), "settings") = "settings"
  BY FineLineages, FineFields DEF settingsAt
<1>4. found = {"settings"}
  BY <1>3, FineLineages
<1>5. ~(Cardinality(found) > 1) /\ ~(found \subseteq {"uncloneable", Junk})
      /\ (CHOOSE s \in found : TRUE) = "settings"
  <2>1. "settings" # Junk
    BY MarkerAssumption
  <2>2. Cardinality({"settings"}) = 1
    BY FS_Singleton
  <2> QED
    BY <1>4, <2>1, <2>2
<1>6. compareCompilerSettings("settings") = "settings"
  BY <1>5 DEF compareCompilerSettings
<1> QED
  BY <1>2, <1>6, MarkerAssumption

\* The artifacts, the logger and the pairing of a sound host.
LEMMA FineRest ==
  ASSUME host = FineHost, context \in Contexts
  PROVE  /\ supplied("artifacts") => interceptFromHandle
         /\ lineages # {} => outputFromHandles
         /\ checkResolverPairing \notin {"mispaired", "unusable"}
         /\ \A n \in chainNames : readsObject(n) /\ readsObject(trx(n)) /\ host.at[n] = "tron"
         /\ chainNames # {} <=> context \in chainContexts
         /\ ~(Cardinality({host.at[n] : n \in chainNames}) > 1)
<1>1. supplied("artifacts") => interceptFromHandle
  BY FineReadings DEF interceptFromHandle, hops
<1>2. checkResolverPairing \notin {"mispaired", "unusable"}
  <2>1. CASE \E h \in {"deployer", "artifacts"} : inspectLineage(h) # "present"
    BY <2>1 DEF checkResolverPairing
  <2>2. CASE \A h \in {"deployer", "artifacts"} : inspectLineage(h) = "present"
    <3>1. "deployer" \in lineages /\ "artifacts" \in lineages
      BY <2>2 DEF lineages
    <3>2. config("deployer")["resolver"] = "resolver"
      BY <3>1, FineLineages, FineFields
    <3>3. host.at["artifacts.resolver"] = "resolver"
      BY <3>1, Pairs, FineReadings, FineHandles
    <3> QED
      BY <2>2, <3>2, <3>3, MarkerAssumption DEF checkResolverPairing
  <2> QED
    BY <2>1, <2>2
<1>3. ASSUME lineages # {} PROVE outputFromHandles
  <2>1. outputOrigin \in lineages
    BY <1>3, Pairs DEF outputOrigin
  <2>2. inspectLineage(outputOrigin) = "present"
        /\ config(outputOrigin) \in {Configured, [Configured EXCEPT !.quiet = "true"]}
    BY <2>1, FineLineages
  <2>3. quietFrom \notin {Threw, Junk}
    <3>1. quietFrom \in {Missing, "true"}
      BY <2>2, FineFields DEF quietFrom
    <3> QED
      BY <3>1, MarkerAssumption
  <2>4. CASE outputOrigin = "deployer"
    <3>1. readsObject("deployer.logger.log")
      BY <2>1, <2>4, Pairs, FineReadings
    <3> QED
      BY <2>2, <2>3, <2>4, <3>1 DEF outputFromHandles, loggerUsable
  <2>5. CASE outputOrigin = "artifacts"
    <3>1. config("artifacts")["logger"] = "object"
      BY <2>2, <2>5, FineFields
    <3> QED
      BY <2>2, <2>3, <2>5, <3>1, MarkerAssumption DEF outputFromHandles, loggerUsable
  <2> QED
    BY <2>4, <2>5 DEF outputOrigin
<1>4. \A n \in chainNames : readsObject(n) /\ readsObject(trx(n)) /\ host.at[n] = "tron"
  BY FineReadings DEF chainNames
<1>5. chainNames # {} <=> context \in chainContexts
  BY FineReadings DEF chainNames
<1>6. ~(Cardinality({host.at[n] : n \in chainNames}) > 1)
  <2> DEFINE given == {host.at[n] : n \in chainNames}
  <2>1. given = {} \/ given = {"tron"}
    BY <1>4
  <2>2. Cardinality({}) = 0 /\ Cardinality({"tron"}) = 1
    BY FS_EmptySet, FS_Singleton
  <2>3. given = {} => Cardinality(given) = 0
    BY <2>2
  <2>4. given = {"tron"} => Cardinality(given) = 1
    BY <2>2
  <2> HIDE DEF given
  <2>5. ~(Cardinality(given) > 1)
    BY <2>1, <2>3, <2>4
  <2> QED
    BY <2>5 DEF given
<1> QED
  BY <1>1, <1>2, <1>3, <1>4, <1>5, <1>6

-----------------------------------------------------------------------------
(* What a step of the resolution adds *)

Sane == context \in Contexts /\ request.required \cup request.optional \subseteq Slots

\* Answers and complaints are only added, and only true ones; with nothing wrong nothing
\* but what the context does not provide.
AddsSlots ==
  /\ DOMAIN slots \subseteq DOMAIN slots'
  /\ \A s \in DOMAIN slots' : (s \in DOMAIN slots /\ slots'[s] = slots[s]) \/ Built(s, slots'[s])
AddsCauses ==
  /\ unsatisfied \subseteq unsatisfied'
  /\ \A u \in unsatisfied' \ unsatisfied :
       Diagnosis(u) /\ (host = FineHost => context \notin slotRequirements(u.slot).providedIn)
AddsDisagreements ==
  /\ inconsistencies \subseteq inconsistencies'
  /\ inconsistencies' \subseteq inconsistencies
       \cup {"paths", "network", "compiler", "settings", "chain", "pairing"}
  /\ host = FineHost => inconsistencies' = inconsistencies
Moves(from, to) ==
  /\ stage = from /\ stage' = to /\ Fixed /\ outcome' = outcome
  /\ AddsSlots /\ AddsCauses /\ AddsDisagreements

\* A slot is known by its name.
LEMMA WithSlot ==
  ASSUME NEW slot, NEW v, slots' = With(slots, slot, v)
  PROVE  /\ DOMAIN slots' = DOMAIN slots \cup {slot} /\ slots'[slot] = v
         /\ \A s \in DOMAIN slots \ {slot} : slots'[s] = slots[s]
BY DEF With

\* Something built is a slot more.
LEMMA WithAdds ==
  ASSUME NEW slot, NEW v, slots' = With(slots, slot, v), Built(slot, v)
  PROVE  AddsSlots /\ slot \in DOMAIN slots'
<1>1. /\ DOMAIN slots' = DOMAIN slots \cup {slot} /\ slots'[slot] = v
      /\ \A s \in DOMAIN slots \ {slot} : slots'[s] = slots[s]
  BY WithSlot
<1>2. \A s \in DOMAIN slots' : s = slot \/ (s \in DOMAIN slots /\ slots'[s] = slots[s])
  BY <1>1
<1>3. \A s \in DOMAIN slots' : s = slot => Built(s, slots'[s])
  BY <1>1
<1> QED
  BY <1>1, <1>2, <1>3 DEF AddsSlots

\* A cause is one of a slot.
LEMMA CauseFields ==
  \A slot, cause : Because(slot, cause).slot = slot /\ Because(slot, cause).cause = cause
BY DEF Because

\* The handles of a slot, where there are none of a lineage.
LEMMA Bearing ==
  /\ \A slot \in Slots : slotRequirements(slot).handles # {} /\ slotRequirements(slot).handles \subseteq Handles
  /\ \A slot \in {"paths", "network", "output", "compiler"} :
       slotRequirements(slot) = requirement({"deployer", "artifacts"}, configContexts)
  /\ slotRequirements("artifacts") = requirement({"artifacts"}, configContexts)
  /\ slotRequirements("chain") = requirement({"tronWrap", "tronWeb"}, chainContexts)
  /\ slotRequirements("receipts") = requirement({"waitForTransactionReceipt"}, configContexts)
  /\ slotRequirements("scheduling") = requirement({"deployer"}, deployerContexts)
  /\ \A S, T : requirement(S, T).handles = S /\ requirement(S, T).providedIn = T
BY DEF slotRequirements, requirement, Slots, Handles

\* A slot of the lineages has a handle where there is a lineage.
LEMMA LineageBears ==
  ASSUME NEW slot \in {"paths", "network", "output", "compiler"}
  PROVE  lineages # {} <=> \E h \in slotRequirements(slot).handles : supplied(h)
<1>1. slotRequirements(slot).handles = {"deployer", "artifacts"}
  BY Bearing
<1>2. lineages # {} <=> \E h \in {"deployer", "artifacts"} : supplied(h)
  BY Pairs
<1> QED
  BY <1>1, <1>2

\* A slot that is a handle is constructed, or complained of if it was required.
LEMMA HandleAdds ==
  ASSUME Sane, NEW slot \in Slots, NEW there \in BOOLEAN, NEW usable \in BOOLEAN, NEW v,
         Handle(slot, there, usable, v),
         there <=> \E h \in slotRequirements(slot).handles : supplied(h),
         slot \in requested /\ there /\ usable => Built(slot, v),
         host = FineHost => /\ there <=> context \in slotRequirements(slot).providedIn
                            /\ there => usable
  PROVE  /\ AddsSlots /\ AddsCauses
         /\ slot \in request.required => slot \in DOMAIN slots' \/ \E u \in unsatisfied' : u.slot = slot
<1>1. CASE slot \notin requested
  BY <1>1 DEF Handle, AddsSlots, AddsCauses, requested
<1>2. CASE slot \in requested /\ there /\ usable
  <2>1. slots' = With(slots, slot, v) /\ unsatisfied' = unsatisfied
    BY <1>2 DEF Handle
  <2>2. AddsSlots /\ slot \in DOMAIN slots'
    BY <1>2, <2>1, WithAdds
  <2> QED
    BY <2>1, <2>2 DEF AddsCauses
<1>3. CASE slot \in requested /\ there /\ ~usable
  <2>1. slots' = slots /\ unsatisfied' = unsatisfied \cup fail(slot, unusable(slot))
    BY <1>3 DEF Handle
  <2>2. \A u \in fail(slot, unusable(slot)) : slot \in request.required /\ u.slot = slot /\ u.cause = "unusable"
    BY CauseFields DEF fail, unusable
  <2>3. \A u \in fail(slot, unusable(slot)) : Diagnosis(u)
    BY <1>3, <2>2 DEF Diagnosis
  <2>4. slot \in request.required => \E u \in unsatisfied' : u.slot = slot
    BY <2>1, CauseFields DEF fail, unusable
  <2> QED
    BY <1>3, <2>1, <2>3, <2>4 DEF AddsSlots, AddsCauses
<1>4. CASE slot \in requested /\ ~there
  <2>1. slots' = slots /\ unsatisfied' = unsatisfied \cup fail(slot, missingHandles(slot))
    BY <1>4 DEF Handle
  <2>2. \A u \in fail(slot, missingHandles(slot)) :
          /\ slot \in request.required /\ u.slot = slot
          /\ u.cause \in slotRequirements(slot).handles /\ ~supplied(u.cause)
    BY CauseFields DEF fail, missingHandles
  <2>3. \A u \in fail(slot, missingHandles(slot)) :
          Diagnosis(u) /\ (host = FineHost => context \notin slotRequirements(u.slot).providedIn)
    BY <1>4, <2>2 DEF Diagnosis
  <2>4. slot \in request.required => \E u \in unsatisfied' : u.slot = slot
    <3>1. PICK h \in slotRequirements(slot).handles : ~supplied(h)
      BY <1>4, Bearing
    <3>2. slot \in request.required => Because(slot, h) \in unsatisfied'
      BY <2>1, <3>1 DEF fail, missingHandles
    <3> QED
      BY <3>2, CauseFields
  <2> QED
    BY <2>1, <2>3, <2>4 DEF AddsSlots, AddsCauses
<1> QED
  BY <1>1, <1>2, <1>3, <1>4

\* How a group ends.
LEMMA GroupEnds ==
  ASSUME NEW group
  PROVE  /\ resolveGroup(group).kind \in {"no lineage", "failed", "disagree", "agreed"}
         /\ resolveGroup(group).kind = "no lineage" <=> lineages = {}
         /\ failing(group) # {} => resolveGroup(group).kind = "failed"
         /\ failing(group) \subseteq lineages
<1>1. failing(group) \subseteq lineages
  BY DEF failing
<1> QED
  BY <1>1 DEF resolveGroup

\* A group answers every slot it backs, or says that there is something to answer for.
LEMMA GroupAdds ==
  ASSUME Sane, NEW group \in Groups, NEW to, Group(group, to)
  PROVE  /\ Moves(group, to)
         /\ group \in request.required \ {"compiler"} /\ agreed(group) => group \in DOMAIN slots'
         /\ \A slot \in backed(group) \cap request.required :
              /\ ~agreed(group) => inconsistencies' # {} \/ \E u \in unsatisfied' : u.slot = slot
              /\ failing(group) # {} => Because(slot, "unusable") \in unsatisfied'
<1>1. stage = group /\ stage' = to /\ Fixed /\ outcome' = outcome
  BY DEF Group, Go, Fixed
<1>2. backed(group) \subseteq requested
      /\ backed(group) \subseteq {"paths", "network", "artifacts", "compiler"} /\ backed(group) \subseteq Slots
  BY DEF backed, Groups, Sane, requested
<1>3. host = FineHost =>
        /\ failing(group) = {}
        /\ resolveGroup(group).kind = IF context \in configContexts THEN "agreed" ELSE "no lineage"
  BY FineGroups DEF Sane
<1>4. CASE backed(group) = {}
  <2>1. UNCHANGED <<slots, unsatisfied, inconsistencies>>
    BY <1>4 DEF Group
  <2>2. group \notin requested
    BY <1>4 DEF backed, Groups
  <2> QED
    BY <1>1, <1>4, <2>1, <2>2 DEF Moves, AddsSlots, AddsCauses, AddsDisagreements, requested
<1>5. CASE backed(group) # {}
  <2>1. /\ unsatisfied' = unsatisfied \cup
             UNION {fail(slot, causesOf(slot, group)) : slot \in backed(group)}
        /\ inconsistencies' = inconsistencies \cup
             IF resolveGroup(group).kind = "disagree" THEN {group} ELSE {}
        /\ slots' = IF group \in requested \ {"compiler"} /\ agreed(group)
                    THEN With(slots, group, resolveGroup(group).values) ELSE slots
    BY <1>5 DEF Group
  <2>2. AddsDisagreements
    BY <1>3, <2>1 DEF AddsDisagreements, Groups
  <2>3. AddsSlots
    <3>1. CASE group \in requested \ {"compiler"} /\ agreed(group)
      <4>1. slots' = With(slots, group, resolveGroup(group).values)
        BY <2>1, <3>1
      <4>2. \E h \in slotRequirements(group).handles : supplied(h)
        BY <3>1, AgreedByAll, LineageBears DEF Groups
      <4>3. Built(group, resolveGroup(group).values)
        BY <3>1, <4>2 DEF Built, Groups
      <4> QED
        BY <4>1, <4>3, WithAdds
    <3>2. CASE ~(group \in requested \ {"compiler"} /\ agreed(group))
      BY <2>1, <3>2 DEF AddsSlots
    <3> QED
      BY <3>1, <3>2
  <2>4. ASSUME NEW slot \in backed(group), NEW u \in fail(slot, causesOf(slot, group))
        PROVE  Diagnosis(u) /\ (host = FineHost => context \notin slotRequirements(u.slot).providedIn)
    <3>1. slot \in request.required /\ u \in causesOf(slot, group) /\ slotRequirements(slot).providedIn = configContexts
          /\ slotRequirements(slot).handles \subseteq {"deployer", "artifacts"}
      BY <1>2, <2>4, Bearing DEF fail
    <3>2. CASE resolveGroup(group).kind = "failed"
      <4>1. u = Because(slot, "unusable")
        BY <3>1, <3>2 DEF causesOf, unusable
      <4>2. lineages # {}
        BY <3>2, GroupEnds
      <4>3. {"deployer", "artifacts"} \subseteq slotRequirements(slot).handles \cup {"deployer"}
        BY <1>2, Bearing
      <4>4. \E h \in slotRequirements(slot).handles \cup {"deployer"} : supplied(h)
        BY <4>2, <4>3, Pairs
      <4>5. host # FineHost
        BY <1>3, <3>2
      <4> QED
        BY <3>1, <4>1, <4>4, <4>5, CauseFields DEF Diagnosis
    <3>3. CASE resolveGroup(group).kind = "no lineage"
      <4>1. PICK h \in slotRequirements(slot).handles : u = Because(slot, h) /\ ~supplied(h)
        BY <3>1, <3>3 DEF causesOf, missingHandles
      <4>2. u.slot = slot /\ u.cause = h
        BY <4>1, CauseFields
      <4>3. host = FineHost => context \notin configContexts
        BY <1>3, <3>3
      <4> QED
        BY <3>1, <4>1, <4>2, <4>3 DEF Diagnosis
    <3> QED
      BY <3>1, <3>2, <3>3, GroupEnds DEF causesOf
  <2>5. AddsCauses
    BY <2>1, <2>4 DEF AddsCauses
  <2>6. group \in request.required \ {"compiler"} /\ agreed(group) => group \in DOMAIN slots'
    BY <2>1, WithSlot DEF requested
  <2>7. ASSUME NEW slot \in backed(group) \cap request.required
        PROVE  /\ ~agreed(group) => inconsistencies' # {} \/ \E u \in unsatisfied' : u.slot = slot
               /\ failing(group) # {} => Because(slot, "unusable") \in unsatisfied'
    <3>1. causesOf(slot, group) \subseteq unsatisfied'
      BY <2>1 DEF fail
    <3>2. resolveGroup(group).kind = "failed" => Because(slot, "unusable") \in unsatisfied'
      BY <3>1 DEF causesOf, unusable
    <3>3. ASSUME resolveGroup(group).kind = "no lineage"
          PROVE  \E u \in unsatisfied' : u.slot = slot
      <4>1. \A h \in {"deployer", "artifacts"} : ~supplied(h)
        BY <3>3, GroupEnds, Pairs
      <4>2. PICK h \in slotRequirements(slot).handles : ~supplied(h)
        BY <1>2, <4>1, Bearing
      <4>3. Because(slot, h) \in unsatisfied'
        BY <3>1, <3>3, <4>2 DEF causesOf, missingHandles
      <4> QED
        BY <4>3, CauseFields
    <3>4. resolveGroup(group).kind = "disagree" => inconsistencies' # {}
      BY <2>1
    <3> QED
      BY <3>2, <3>3, <3>4, GroupEnds, CauseFields DEF agreed
  <2> QED
    BY <1>1, <2>2, <2>3, <2>5, <2>6, <2>7 DEF Moves
<1> QED
  BY <1>4, <1>5

\* The settings answer for the compiler where the lineages agree on it.
LEMMA SettingsAdds ==
  ASSUME Sane, Settings
  PROVE  /\ Moves("settings", "artifacts")
         /\ "compiler" \in request.required /\ agreed("compiler") =>
              \/ "compiler" \in DOMAIN slots' \/ inconsistencies' # {}
              \/ \E u \in unsatisfied' : u.slot = "compiler"
<1>1. stage = "settings" /\ stage' = "artifacts" /\ Fixed /\ outcome' = outcome
  BY DEF Settings, Go, Fixed
<1>2. CASE "compiler" \notin requested \/ ~agreed("compiler")
  BY <1>1, <1>2 DEF Settings, Moves, AddsSlots, AddsCauses, AddsDisagreements, requested
<1>3. CASE "compiler" \in requested /\ agreed("compiler")
  <2> DEFINE values == resolveGroup("compiler").values
             settings == compareCompilerSettings(values.source)
             v == [values |-> values, settings |-> settings]
  <2>1. /\ inconsistencies' = inconsistencies \cup IF settings = "conflict" THEN {"settings"} ELSE {}
        /\ unsatisfied' = unsatisfied \cup
             IF settings = Fails THEN fail("compiler", unusable("compiler")) ELSE {}
        /\ slots' = IF settings \in {"conflict", Fails} THEN slots ELSE With(slots, "compiler", v)
    BY <1>3 DEF Settings
  <2>2. host = FineHost => settings \notin {"conflict", Fails}
    <3>1. ASSUME host = FineHost PROVE context \in configContexts
      BY <1>3, <3>1, FineGroups DEF Sane, Groups, agreed
    <3> QED
      BY <3>1, FineSettings DEF Sane
  <2>3. \E h \in slotRequirements("compiler").handles : supplied(h)
    BY <1>3, AgreedByAll, LineageBears
  <2>4. AddsDisagreements
    BY <2>1, <2>2 DEF AddsDisagreements
  <2>5. AddsSlots /\ (settings \notin {"conflict", Fails} => "compiler" \in DOMAIN slots')
    <3>1. CASE settings \in {"conflict", Fails}
      BY <2>1, <3>1 DEF AddsSlots
    <3>2. CASE settings \notin {"conflict", Fails}
      <4>1. Built("compiler", v)
        BY <1>3, <2>3, <3>2 DEF Built
      <4>2. slots' = With(slots, "compiler", v)
        BY <2>1, <3>2
      <4> HIDE DEF v
      <4> QED
        BY <4>1, <4>2, WithAdds
    <3> QED
      BY <3>1, <3>2
  <2>6. AddsCauses
    <3>1. \A u \in unsatisfied' \ unsatisfied :
            settings = Fails /\ "compiler" \in request.required /\ u = Because("compiler", "unusable")
      BY <2>1 DEF fail, unusable
    <3>2. \A u \in unsatisfied' \ unsatisfied : Diagnosis(u) /\ host # FineHost
      BY <2>2, <2>3, <3>1, CauseFields DEF Diagnosis
    <3> QED
      BY <2>1, <3>2 DEF AddsCauses
  <2>7. "compiler" \in request.required /\ settings = Fails => \E u \in unsatisfied' : u.slot = "compiler"
    BY <2>1, CauseFields DEF fail, unusable
  <2>8. settings = "conflict" => inconsistencies' # {}
    BY <2>1
  <2> QED
    BY <1>1, <2>4, <2>5, <2>6, <2>7, <2>8 DEF Moves
<1> QED
  BY <1>2, <1>3

\* The artifacts answer for themselves, unless the paths have answered for them.
LEMMA ArtifactsAdds ==
  ASSUME Sane, Artifacts
  PROVE  /\ Moves("artifacts", "chain")
         /\ "artifacts" \in request.required /\ ~(supplied("artifacts") /\ ~agreed("paths")) =>
              "artifacts" \in DOMAIN slots' \/ \E u \in unsatisfied' : u.slot = "artifacts"
<1>1. stage = "artifacts" /\ stage' = "chain" /\ Fixed /\ outcome' = outcome /\ AddsDisagreements
  BY DEF Artifacts, Go, Fixed, AddsDisagreements
<1>2. CASE supplied("artifacts") /\ interceptFromHandle /\ ~agreed("paths")
  BY <1>1, <1>2 DEF Artifacts, Moves, AddsSlots, AddsCauses
<1>3. CASE ~(supplied("artifacts") /\ interceptFromHandle /\ ~agreed("paths"))
  <2>1. Handle("artifacts", supplied("artifacts"), interceptFromHandle, host.at["artifacts.resolver"])
    BY <1>3 DEF Artifacts
  <2>2. supplied("artifacts") <=> \E h \in slotRequirements("artifacts").handles : supplied(h)
    BY Bearing
  <2>3. "artifacts" \in requested /\ supplied("artifacts") /\ interceptFromHandle =>
          Built("artifacts", host.at["artifacts.resolver"])
    BY <1>3, <2>2 DEF Built
  <2>4. host = FineHost => /\ supplied("artifacts") <=> context \in slotRequirements("artifacts").providedIn
                           /\ supplied("artifacts") => interceptFromHandle
    BY FineReadings, FineRest, Bearing DEF Sane
  <2>5. supplied("artifacts") \in BOOLEAN /\ interceptFromHandle \in BOOLEAN /\ "artifacts" \in Slots
    BY DEF supplied, interceptFromHandle, Slots
  <2>6. /\ AddsSlots /\ AddsCauses
        /\ "artifacts" \in request.required =>
             "artifacts" \in DOMAIN slots' \/ \E u \in unsatisfied' : u.slot = "artifacts"
    BY <2>1, <2>2, <2>3, <2>4, <2>5, HandleAdds
  <2> QED
    BY <1>1, <2>6 DEF Moves
<1> QED
  BY <1>2, <1>3

\* The chain is one object, or its names disagree.
LEMMA ChainAdds ==
  ASSUME Sane, Chain
  PROVE  /\ Moves("chain", "receipts")
         /\ "chain" \in request.required =>
              \/ "chain" \in DOMAIN slots' \/ inconsistencies' # {}
              \/ \E u \in unsatisfied' : u.slot = "chain"
<1> DEFINE usable == \A n \in chainNames : readsObject(n) /\ readsObject(trx(n))
           given == {host.at[n] : n \in chainNames}
<1>1. stage = "chain" /\ stage' = "receipts" /\ Fixed /\ outcome' = outcome
  BY DEF Chain, Go, Fixed
<1>2. CASE "chain" \in requested /\ usable /\ Cardinality(given) > 1
  <2>1. inconsistencies' = inconsistencies \cup {"chain"} /\ UNCHANGED <<slots, unsatisfied>>
    BY <1>2 DEF Chain
  <2>2. host # FineHost
    BY <1>2, FineRest DEF Sane
  <2> QED
    BY <1>1, <2>1, <2>2 DEF Moves, AddsSlots, AddsCauses, AddsDisagreements
<1>3. CASE ~("chain" \in requested /\ usable /\ Cardinality(given) > 1)
  <2>1. Handle("chain", chainNames # {}, usable, given) /\ inconsistencies' = inconsistencies
    BY <1>3 DEF Chain
  <2>2. chainNames # {} <=> \E h \in slotRequirements("chain").handles : supplied(h)
    BY Bearing DEF chainNames
  <2>3. "chain" \in requested /\ chainNames # {} /\ usable => Built("chain", given)
    BY <1>3, <2>2 DEF Built
  <2>4. host = FineHost => /\ chainNames # {} <=> context \in slotRequirements("chain").providedIn
                           /\ chainNames # {} => usable
    BY FineRest, Bearing DEF Sane
  <2>5. (chainNames # {}) \in BOOLEAN /\ usable \in BOOLEAN /\ "chain" \in Slots
    BY DEF Slots
  <2> HIDE DEF usable, given
  <2>6. /\ AddsSlots /\ AddsCauses
        /\ "chain" \in request.required =>
             "chain" \in DOMAIN slots' \/ \E u \in unsatisfied' : u.slot = "chain"
    BY <2>1, <2>2, <2>3, <2>4, <2>5, HandleAdds
  <2> QED
    BY <1>1, <2>1, <2>6 DEF Moves, AddsDisagreements
<1> QED
  BY <1>2, <1>3

\* The wait for receipts answers for itself.
LEMMA ReceiptsAdds ==
  ASSUME Sane, Receipts
  PROVE  /\ Moves("receipts", "scheduling")
         /\ "receipts" \in request.required =>
              "receipts" \in DOMAIN slots' \/ \E u \in unsatisfied' : u.slot = "receipts"
<1> DEFINE there == supplied("waitForTransactionReceipt")
           usable == readsObject("waitForTransactionReceipt")
<1>1. stage = "receipts" /\ stage' = "scheduling" /\ Fixed /\ outcome' = outcome /\ AddsDisagreements
  BY DEF Receipts, Go, Fixed, AddsDisagreements
<1>2. Handle("receipts", there, usable, "wait")
  BY DEF Receipts
<1>3. there <=> \E h \in slotRequirements("receipts").handles : supplied(h)
  BY Bearing
<1>4. "receipts" \in requested /\ there /\ usable => Built("receipts", "wait")
  BY <1>3 DEF Built
<1>5. host = FineHost => /\ there <=> context \in slotRequirements("receipts").providedIn
                         /\ there => usable
  BY FineReadings, Bearing DEF Sane
<1>6. there \in BOOLEAN /\ usable \in BOOLEAN /\ "receipts" \in Slots
  BY DEF supplied, readsObject, Slots
<1> HIDE DEF there, usable
<1>7. /\ AddsSlots /\ AddsCauses
      /\ "receipts" \in request.required =>
           "receipts" \in DOMAIN slots' \/ \E u \in unsatisfied' : u.slot = "receipts"
  BY <1>2, <1>3, <1>4, <1>5, <1>6, HandleAdds
<1> QED
  BY <1>1, <1>7 DEF Moves

\* So does the deployer.
LEMMA SchedulingAdds ==
  ASSUME Sane, Scheduling
  PROVE  /\ Moves("scheduling", "output")
         /\ "scheduling" \in request.required =>
              "scheduling" \in DOMAIN slots' \/ \E u \in unsatisfied' : u.slot = "scheduling"
<1> DEFINE there == supplied("deployer")
           usable == readsObject("deployer") /\ readsObject("deployer.then")
<1>1. stage = "scheduling" /\ stage' = "output" /\ Fixed /\ outcome' = outcome /\ AddsDisagreements
  BY DEF Scheduling, Go, Fixed, AddsDisagreements
<1>2. Handle("scheduling", there, usable, "deployer")
  BY DEF Scheduling
<1>3. there <=> \E h \in slotRequirements("scheduling").handles : supplied(h)
  BY Bearing
<1>4. "scheduling" \in requested /\ there /\ usable => Built("scheduling", "deployer")
  BY <1>3 DEF Built
<1>5. host = FineHost => /\ there <=> context \in slotRequirements("scheduling").providedIn
                         /\ there => usable
  BY FineReadings, Bearing DEF Sane, hops
<1>6. there \in BOOLEAN /\ usable \in BOOLEAN /\ "scheduling" \in Slots
  BY DEF supplied, readsObject, Slots
<1> HIDE DEF there, usable
<1>7. /\ AddsSlots /\ AddsCauses
      /\ "scheduling" \in request.required =>
           "scheduling" \in DOMAIN slots' \/ \E u \in unsatisfied' : u.slot = "scheduling"
  BY <1>2, <1>3, <1>4, <1>5, <1>6, HandleAdds
<1> QED
  BY <1>1, <1>7 DEF Moves

\* The output needs a lineage for its logger.
LEMMA OutputAdds ==
  ASSUME Sane, Output
  PROVE  /\ Moves("output", "pairing")
         /\ "output" \in request.required =>
              "output" \in DOMAIN slots' \/ \E u \in unsatisfied' : u.slot = "output"
<1> DEFINE there == lineages # {}
           usable == outputFromHandles
           v == [origin |-> outputOrigin, quiet |-> quietFrom = "true"]
<1>1. stage = "output" /\ stage' = "pairing" /\ Fixed /\ outcome' = outcome /\ AddsDisagreements
  BY DEF Output, Go, Fixed, AddsDisagreements
<1>2. Handle("output", there, usable, v)
  BY DEF Output
<1>3. there <=> \E h \in slotRequirements("output").handles : supplied(h)
  BY LineageBears
<1>4. "output" \in requested /\ there /\ usable => Built("output", v)
  BY <1>3 DEF Built
<1>5. host = FineHost => /\ there <=> context \in slotRequirements("output").providedIn
                         /\ there => usable
  BY FineLineages, FineRest, Bearing DEF Sane
<1>6. there \in BOOLEAN /\ usable \in BOOLEAN /\ "output" \in Slots
  BY DEF outputFromHandles, Slots
<1> HIDE DEF there, usable, v
<1>7. /\ AddsSlots /\ AddsCauses
      /\ "output" \in request.required =>
           "output" \in DOMAIN slots' \/ \E u \in unsatisfied' : u.slot = "output"
  BY <1>2, <1>3, <1>4, <1>5, <1>6, HandleAdds
<1> QED
  BY <1>1, <1>7 DEF Moves

\* The pairing of two lineages that are both there.
LEMMA PairingAdds ==
  ASSUME Sane, Pairing
  PROVE  /\ Moves("pairing", "finish")
         /\ checkResolverPairing = "mispaired" => inconsistencies' # {}
         /\ checkResolverPairing = "unusable" /\ {"artifacts", "paths"} \cap request.required # {} =>
              unsatisfied' # {}
<1> DEFINE affected == {"artifacts", "paths", "network", "output", "compiler"}
<1>1. stage = "pairing" /\ stage' = "finish" /\ Fixed /\ outcome' = outcome /\ AddsSlots
  BY DEF Pairing, Go, Fixed, AddsSlots
<1>2. /\ inconsistencies' = inconsistencies \cup
           IF checkResolverPairing = "mispaired" THEN {"pairing"} ELSE {}
      /\ unsatisfied' = unsatisfied \cup
           IF checkResolverPairing = "unusable"
           THEN UNION {fail(slot, unusable(slot)) : slot \in affected} ELSE {}
  BY DEF Pairing
<1>3. host = FineHost => checkResolverPairing \notin {"mispaired", "unusable"}
  BY FineRest DEF Sane
<1>4. AddsDisagreements
  BY <1>2, <1>3 DEF AddsDisagreements
<1>5. ASSUME NEW u \in unsatisfied' \ unsatisfied
      PROVE  Diagnosis(u) /\ host # FineHost
  <2>1. checkResolverPairing = "unusable"
    BY <1>2, <1>5
  <2>2. PICK slot \in affected : u \in fail(slot, unusable(slot))
    BY <1>2, <1>5, <2>1
  <2>3. slot \in request.required /\ u.slot = slot /\ u.cause = "unusable"
    BY <2>2, CauseFields DEF fail, unusable
  <2>4. inspectLineage("deployer") = "present"
    BY <2>1 DEF checkResolverPairing
  <2>5. supplied("deployer")
    BY <2>4 DEF inspectLineage
  <2> QED
    BY <1>3, <2>1, <2>3, <2>5 DEF Diagnosis
<1>6. AddsCauses
  BY <1>2, <1>5 DEF AddsCauses
<1>7. ASSUME checkResolverPairing = "unusable", NEW slot \in {"artifacts", "paths"} \cap request.required
      PROVE  unsatisfied' # {}
  BY <1>2, <1>7 DEF fail, unusable
<1> QED
  BY <1>1, <1>2, <1>4, <1>6, <1>7 DEF Moves

-----------------------------------------------------------------------------
(* The invariant is kept *)

\* The stages one after another.
LEMMA RankValues ==
  /\ Rank("injected") = 0 /\ Rank("asked") = 1 /\ Rank("paths") = 2 /\ Rank("network") = 3
  /\ Rank("compiler") = 4 /\ Rank("settings") = 5 /\ Rank("artifacts") = 6 /\ Rank("chain") = 7
  /\ Rank("receipts") = 8 /\ Rank("scheduling") = 9 /\ Rank("output") = 10 /\ Rank("pairing") = 11
  /\ Rank("finish") = 12 /\ Rank("done") = 13
<1>1. Rank("injected") = 0 /\ Rank("asked") = 1 /\ Rank("paths") = 2 /\ Rank("network") = 3
  BY DEF Rank
<1>2. Rank("compiler") = 4 /\ Rank("settings") = 5 /\ Rank("artifacts") = 6 /\ Rank("chain") = 7
  BY DEF Rank
<1>3. Rank("receipts") = 8 /\ Rank("scheduling") = 9 /\ Rank("output") = 10 /\ Rank("pairing") = 11
  BY DEF Rank
<1>4. Rank("finish") = 12 /\ Rank("done") = 13
  BY DEF Rank
<1> QED
  BY <1>1, <1>2, <1>3, <1>4

\* No two have one rank, and those of the slots are behind the request and before the end.
LEMMA Ranks ==
  /\ \A st \in Stage : Rank(st) \in 0..13
  /\ \A s, t \in Stage : Rank(s) = Rank(t) => s = t
  /\ \A slot \in Slots : lastStage(slot) \in Stage /\ Rank(lastStage(slot)) \in 2..10
  /\ \A slot \in Groups : slot \in Stage /\ Rank(slot) \in 2..4
<1>1. \A st \in Stage : Rank(st) \in 0..13
  BY RankValues DEF Stage
<1>2. \A s, t \in Stage : Rank(s) = Rank(t) => s = t
  BY RankValues DEF Stage
<1>3. \A slot \in Slots : lastStage(slot) \in Stage /\ Rank(lastStage(slot)) \in 2..10
  BY RankValues DEF Stage, Slots, lastStage
<1>4. \A slot \in Groups : slot \in Stage /\ Rank(slot) \in 2..4
  BY RankValues DEF Stage, Groups
<1> QED
  BY <1>1, <1>2, <1>3, <1>4

\* Before a request is looked at there is nothing to keep but the host.
Early ==
  /\ stage \in {"injected", "asked"} /\ slots = << >> /\ unsatisfied = {} /\ inconsistencies = {}
  /\ outcome = "none" /\ context \in Contexts /\ faults \in 0..MaxFaults
  /\ request.required \cup request.optional \subseteq Slots
  /\ stage # "injected" => request.required # {}
  /\ faults = 0 => host = FineHost

\* No stage has been passed, so nothing can be forgotten.
LEMMA EarlyInv == Early => EnvInv
<1> SUFFICES ASSUME Early PROVE EnvInv
  OBVIOUS
<1> USE DEF Early
<1>1. Rank(stage) \in {0, 1} /\ stage \in Stage
  BY DEF Rank, Stage
<1>2. \A slot \in request.required : ~Passed(lastStage(slot))
  BY <1>1, Ranks DEF Passed
<1>3. (\A slot \in Groups : ~Passed(slot)) /\ ~Passed("pairing") /\ ~Passed("paths")
  BY <1>1, Ranks, RankValues DEF Passed
<1>4. NothingIsForgotten
  BY <1>2, <1>3 DEF NothingIsForgotten
<1>5. NothingWrong /\ Verdicts
  BY DEF NothingWrong, Verdicts
<1>6. DOMAIN slots = {}
  OBVIOUS
<1> QED
  BY <1>1, <1>4, <1>5, <1>6 DEF EnvInv

\* It holds of the next state as of this one.
LEMMA EarlyNext == Early' => EnvInv'
BY EarlyInv, PTL

\* Nothing is asked at first.
LEMMA EnvInit == Init => EnvInv
<1>1. Init => Early
  BY RequestAssumption DEF Init, Early, FineHost
<1> QED
  BY <1>1, EarlyInv

\* Answers stay, and one stage more has been passed.
LEMMA MovesOn ==
  ASSUME EnvInv, NEW from \in Stage, NEW to \in Stage, Moves(from, to), Rank(to) = Rank(from) + 1,
         from # "finish"
  PROVE  /\ outcome = "none"
         /\ \A slot : Answered(slot) => Answered(slot)'
         /\ \A st \in Stage : Passed(st)' => Passed(st) \/ st = from
<1>1. stage = from /\ stage' = to /\ outcome' = outcome
  BY DEF Moves
<1>2. from # "done"
  BY Ranks, RankValues
<1>3. outcome = "none"
  BY <1>1, <1>2 DEF EnvInv, Verdicts
<1>4. \A slot : Answered(slot) => Answered(slot)'
  BY DEF Moves, AddsSlots, AddsCauses, AddsDisagreements, Answered
<1>5. ASSUME NEW st \in Stage, Passed(st)' PROVE Passed(st) \/ st = from
  <2>1. Rank(to) > Rank(st)
    BY <1>1, <1>5 DEF Passed, Rank
  <2>2. Rank(st) < Rank(from) \/ Rank(st) = Rank(from)
    BY <2>1, Ranks
  <2>3. Rank(st) < Rank(from) => Passed(st)
    BY <1>1, <1>3, Ranks DEF Passed
  <2>4. Rank(st) = Rank(from) => st = from
    BY Ranks
  <2> QED
    BY <2>2, <2>3, <2>4
<1> QED
  BY <1>3, <1>4, <1>5

\* A step that answers for what it is the last of keeps the invariant.
LEMMA MovesKeep ==
  ASSUME EnvInv, NEW from \in Stage, NEW to \in Stage, Moves(from, to), Rank(to) = Rank(from) + 1,
         Rank(from) \in 2..11,
         \A slot \in request.required : lastStage(slot) = from => Answered(slot)',
         \A slot \in Groups \cap request.required : slot = from =>
           /\ ~agreed(slot) => Answered(slot)'
           /\ failing(slot) # {} => Because(slot, "unusable") \in unsatisfied',
         from = "paths" /\ "artifacts" \in request.required /\ supplied("artifacts") /\ ~agreed("paths") =>
           Answered("artifacts")',
         from = "pairing" =>
           /\ checkResolverPairing = "mispaired" => inconsistencies' # {}
           /\ checkResolverPairing = "unusable" /\ {"artifacts", "paths"} \cap request.required # {} =>
                unsatisfied' # {}
  PROVE  EnvInv'
<1>1. /\ stage = from /\ stage' = to /\ Fixed /\ outcome' = outcome
      /\ AddsSlots /\ AddsCauses /\ AddsDisagreements
  BY DEF Moves
<1>2. from # "finish" /\ to \notin {"injected", "asked", "done"}
  BY Ranks, RankValues
<1>3. /\ outcome = "none"
      /\ \A slot : Answered(slot) => Answered(slot)'
      /\ \A st \in Stage : Passed(st)' => Passed(st) \/ st = from
  BY <1>2, MovesOn
<1>4. request' = request /\ context' = context /\ faults' = faults /\ host' = host
  BY <1>1 DEF Fixed
<1>5. request.required \subseteq Slots /\ request.required # {}
  BY <1>1 DEF EnvInv, Rank
<1>6. (\A slot \in DOMAIN slots : Built(slot, slots[slot]))'
  <2>1. \A slot \in DOMAIN slots' : Built(slot, slots'[slot])
    BY <1>1 DEF AddsSlots, EnvInv
  <2> QED
    BY <1>1, <2>1, BuiltStays
<1>7. \A u \in unsatisfied' : Diagnosis(u)'
  <2>1. \A u \in unsatisfied' : Diagnosis(u)
    BY <1>1 DEF AddsCauses, EnvInv
  <2> QED
    BY <1>1, <2>1, BuiltStays
<1>8. NothingIsForgotten'
  <2>1. ASSUME NEW slot \in request.required, Passed(lastStage(slot))' PROVE Answered(slot)'
    <3>1. PICK st \in Stage : st = lastStage(slot)
      BY <1>5, Ranks
    <3>2. Passed(st)'
      BY <2>1, <3>1 DEF lastStage
    <3>3. Passed(st) \/ st = from
      BY <1>3, <3>2
    <3> QED
      BY <1>3, <3>1, <3>3 DEF EnvInv, NothingIsForgotten
  <2>2. ASSUME NEW slot \in Groups \cap request.required, Passed(slot)'
        PROVE  /\ ~agreed(slot) => Answered(slot)'
               /\ failing(slot) # {} => Because(slot, "unusable") \in unsatisfied'
    <3>1. Passed(slot) \/ slot = from
      BY <1>3, <2>2, Ranks
    <3>2. unsatisfied \subseteq unsatisfied'
      BY <1>1 DEF AddsCauses
    <3> QED
      BY <1>3, <3>1, <3>2 DEF EnvInv, NothingIsForgotten
  <2>3. ASSUME "artifacts" \in request.required, supplied("artifacts"), Passed("paths")', ~agreed("paths")
        PROVE  Answered("artifacts")'
    <3>1. Passed("paths") \/ "paths" = from
      BY <1>3, <2>3 DEF Stage
    <3> QED
      BY <1>3, <2>3, <3>1 DEF EnvInv, NothingIsForgotten
  <2>4. ASSUME Passed("pairing")'
        PROVE  /\ checkResolverPairing = "mispaired" => inconsistencies' # {}
               /\ checkResolverPairing = "unusable" /\ {"artifacts", "paths"} \cap request.required # {} =>
                    unsatisfied' # {}
    <3>1. Passed("pairing") \/ "pairing" = from
      BY <1>3, <2>4 DEF Stage
    <3>2. unsatisfied \subseteq unsatisfied' /\ inconsistencies \subseteq inconsistencies'
      BY <1>1 DEF AddsCauses, AddsDisagreements
    <3> QED
      BY <3>1, <3>2 DEF EnvInv, NothingIsForgotten
  <2>5. /\ supplied("artifacts")' = supplied("artifacts") /\ checkResolverPairing' = checkResolverPairing
        /\ \A g : agreed(g)' = agreed(g) /\ failing(g)' = failing(g)
    BY <1>1, Readings
  <2> QED
    BY <1>4, <2>1, <2>2, <2>3, <2>4, <2>5 DEF NothingIsForgotten
<1>9. NothingWrong'
  <2>1. FineHost' = FineHost
    BY <1>4 DEF FineHost
  <2>2. faults = 0 => inconsistencies' = {} /\
          \A u \in unsatisfied' : context \notin slotRequirements(u.slot).providedIn
    BY <1>1 DEF EnvInv, NothingWrong, AddsCauses, AddsDisagreements
  <2> QED
    BY <1>4, <2>1, <2>2 DEF EnvInv, NothingWrong
<1>10. Verdicts'
  BY <1>1, <1>2, <1>3 DEF Verdicts
<1>11. inconsistencies' \subseteq {"paths", "network", "compiler", "settings", "chain", "pairing"}
  BY <1>1 DEF AddsDisagreements, EnvInv
<1> QED
  BY <1>1, <1>2, <1>4, <1>5, <1>6, <1>7, <1>8, <1>9, <1>10, <1>11 DEF EnvInv

\* A group answers for its slots, and the paths for the artifacts.
LEMMA GroupKeeps ==
  ASSUME EnvInv, NEW group \in Groups, NEW to \in Stage, Group(group, to), Rank(to) = Rank(group) + 1
  PROVE  EnvInv'
<1>1. Sane
  BY DEF EnvInv, Sane
<1>2. /\ Moves(group, to)
      /\ group \in request.required \ {"compiler"} /\ agreed(group) => group \in DOMAIN slots'
      /\ \A slot \in backed(group) \cap request.required :
           /\ ~agreed(group) => inconsistencies' # {} \/ \E u \in unsatisfied' : u.slot = slot
           /\ failing(group) # {} => Because(slot, "unusable") \in unsatisfied'
  BY <1>1, GroupAdds
<1>3. /\ \A slot \in request.required : slot = group => slot \in backed(group)
      /\ group = "paths" /\ "artifacts" \in request.required => "artifacts" \in backed(group)
  BY DEF backed, requested
<1>4. \A slot \in request.required : lastStage(slot) = group => Answered(slot)'
  <2>1. \A slot \in request.required : lastStage(slot) = group => slot = group /\ slot # "compiler"
    BY DEF lastStage, Groups
  <2> QED
    BY <1>2, <1>3, <2>1 DEF Answered
<1>5. \A slot \in Groups \cap request.required : slot = group =>
        /\ ~agreed(slot) => Answered(slot)'
        /\ failing(slot) # {} => Because(slot, "unusable") \in unsatisfied'
  BY <1>2, <1>3 DEF Answered
<1>6. group = "paths" /\ "artifacts" \in request.required /\ supplied("artifacts") /\ ~agreed("paths") =>
        Answered("artifacts")'
  BY <1>2, <1>3 DEF Answered
<1>7. group \in Stage /\ group # "pairing" /\ Rank(group) \in 2..11
  BY Ranks DEF Groups
<1> QED
  BY <1>2, <1>4, <1>5, <1>6, <1>7, MovesKeep

\* The other stages answer for the one slot that is theirs.
LEMMA StageKeeps ==
  ASSUME EnvInv, NEW from \in Stage \ (Groups \cup {"pairing"}), NEW to \in Stage, Moves(from, to),
         Rank(to) = Rank(from) + 1, Rank(from) \in 2..11,
         \A slot \in request.required : lastStage(slot) = from => Answered(slot)'
  PROVE  EnvInv'
<1>1. from # "pairing" /\ from # "paths" /\ \A slot \in Groups \cap request.required : slot # from
  BY DEF Groups
<1> QED
  BY <1>1, MovesKeep

\* At the end every slot is answered for.
LEMMA AllPassed ==
  ASSUME EnvInv, stage \in {"finish", "done"}, outcome # "absent"
  PROVE  /\ \A slot \in request.required : Answered(slot)
         /\ \A slot \in Groups \cap request.required :
              failing(slot) # {} => Because(slot, "unusable") \in unsatisfied
         /\ checkResolverPairing = "mispaired" => inconsistencies # {}
         /\ checkResolverPairing = "unusable" /\ {"artifacts", "paths"} \cap request.required # {} =>
              unsatisfied # {}
<1>1. Rank(stage) \in {12, 13}
  BY RankValues
<1>2. \A st \in Stage : Rank(st) \in 2..11 => Passed(st)
  BY <1>1 DEF Passed
<1>3. \A slot \in request.required : Passed(lastStage(slot))
  BY <1>1, Ranks DEF Passed, EnvInv
<1>4. (\A slot \in Groups : Passed(slot)) /\ Passed("pairing")
  BY <1>2, Ranks, RankValues DEF Stage
<1> QED
  BY <1>3, <1>4 DEF EnvInv, NothingIsForgotten

\* Every step keeps the invariant.
LEMMA EnvStep == EnvInv /\ [Next]_vars => EnvInv'
<1> SUFFICES ASSUME EnvInv, [Next]_vars PROVE EnvInv'
  OBVIOUS
<1>0. Sane
  BY DEF EnvInv, Sane
<1>1. ASSUME Spoil PROVE EnvInv'
  <2>1. /\ stage = "injected" /\ faults < MaxFaults /\ faults' = faults + 1
        /\ UNCHANGED <<context, request, stage, slots, unsatisfied, inconsistencies, outcome>>
    BY <1>1 DEF Spoil
  <2>2. slots = << >> /\ unsatisfied = {} /\ inconsistencies = {} /\ outcome = "none"
    BY <2>1 DEF EnvInv, Verdicts
  <2>3. faults' \in 0..MaxFaults /\ faults' # 0
    BY <2>1, RequestAssumption DEF EnvInv
  <2>4. stage' = "injected" /\ slots' = << >> /\ unsatisfied' = {} /\ inconsistencies' = {} /\ outcome' = "none"
        /\ context' \in Contexts /\ request'.required \cup request'.optional \subseteq Slots
    BY <2>1, <2>2 DEF EnvInv
  <2> QED
    BY <2>3, <2>4, EarlyNext DEF Early
<1>2. ASSUME NEW r \in Requests, Ask(r) PROVE EnvInv'
  <2>1. /\ stage = "injected" /\ stage' = "asked" /\ request' = r
        /\ UNCHANGED <<context, faults, host, slots, unsatisfied, inconsistencies, outcome>>
    BY <1>2 DEF Ask, Go
  <2>2. slots = << >> /\ unsatisfied = {} /\ inconsistencies = {} /\ outcome = "none"
    BY <2>1 DEF EnvInv, Verdicts
  <2>3. r.required \cup r.optional \subseteq Slots /\ r.required # {}
    BY <1>2, RequestAssumption
  <2>4. FineHost' = FineHost
    BY <2>1 DEF FineHost
  <2>5. (faults = 0 => host = FineHost)'
    BY <2>1, <2>4 DEF EnvInv, NothingWrong
  <2>6. stage' = "asked" /\ slots' = << >> /\ unsatisfied' = {} /\ inconsistencies' = {} /\ outcome' = "none"
        /\ context' \in Contexts /\ faults' \in 0..MaxFaults
        /\ request'.required \cup request'.optional \subseteq Slots /\ request'.required # {}
    BY <2>1, <2>2, <2>3 DEF EnvInv
  <2> QED
    BY <2>5, <2>6, EarlyNext DEF Early
<1>3. ASSUME AnyHandle PROVE EnvInv'
  <2>1. /\ stage = "asked" /\ stage' \in {"done", "paths"} /\ Fixed
        /\ UNCHANGED <<context, faults, host, request, slots, unsatisfied, inconsistencies>>
        /\ stage' = "done" => outcome' = "absent" /\ requested # {} /\ ~hasBearingHandle
        /\ stage' = "paths" => outcome' = outcome
    BY <1>3 DEF AnyHandle, Go, Fixed
  <2>2. slots = << >> /\ unsatisfied = {} /\ inconsistencies = {} /\ outcome = "none"
    BY <2>1 DEF EnvInv, Verdicts
  <2>3. \A st \in Stage : Rank(st) \in 2..13 => ~Passed(st)'
    <3>1. CASE stage' = "done"
      BY <2>1, <3>1 DEF Passed
    <3>2. CASE stage' = "paths"
      <4>1. Rank(stage') = 2
        BY <3>2, RankValues
      <4>2. \A st \in Stage : Passed(st)' => Rank(stage') > Rank(st)
        BY DEF Passed, Rank
      <4> QED
        BY <4>1, <4>2, Ranks
    <3> QED
      BY <2>1, <3>1, <3>2
  <2>4. request.required \subseteq Slots
    BY DEF EnvInv
  <2>5. NothingIsForgotten'
    <3>1. ASSUME NEW slot \in request.required PROVE ~Passed(lastStage(slot))'
      <4>1. PICK st \in Stage : st = lastStage(slot) /\ Rank(st) \in 2..13
        BY <2>4, Ranks
      <4>2. ~Passed(st)'
        BY <2>3, <4>1
      <4> QED
        BY <4>1, <4>2 DEF lastStage
    <3>2. (\A slot \in Groups : ~Passed(slot)') /\ ~Passed("pairing")' /\ ~Passed("paths")'
      BY <2>3, Ranks, RankValues DEF Stage
    <3> QED
      BY <2>1, <3>1, <3>2 DEF NothingIsForgotten
  <2>6. NothingWrong'
    BY <2>1, <2>2 DEF EnvInv, NothingWrong, FineHost
  <2>7. Verdicts'
    <3>1. requested' = requested /\ hasBearingHandle' = hasBearingHandle
      BY <2>1, Readings
    <3> QED
      BY <2>1, <2>2, <3>1 DEF Verdicts
  <2>8. DOMAIN slots' = {}
    BY <2>1, <2>2
  <2> QED
    BY <2>1, <2>2, <2>5, <2>6, <2>7, <2>8 DEF EnvInv, Stage
<1>4. ASSUME Group("paths", "network") \/ Group("network", "compiler") \/ Group("compiler", "settings")
      PROVE  EnvInv'
  BY <1>4, GroupKeeps, RankValues DEF Groups, Stage
<1>5. ASSUME Settings PROVE EnvInv'
  <2>1. /\ Moves("settings", "artifacts")
        /\ "compiler" \in request.required /\ agreed("compiler") => Answered("compiler")'
    BY <1>0, <1>5, SettingsAdds DEF Answered
  <2>2. "compiler" \in request.required /\ ~agreed("compiler") => Answered("compiler")'
    <3>1. stage = "settings" /\ outcome = "none"
      BY <2>1 DEF Moves, EnvInv, Verdicts
    <3>2. Passed("compiler")
      BY <3>1, RankValues DEF Passed
    <3>3. "compiler" \in request.required /\ ~agreed("compiler") => Answered("compiler")
      BY <3>2 DEF EnvInv, NothingIsForgotten, Groups
    <3> QED
      BY <2>1, <3>3 DEF Moves, AddsSlots, AddsCauses, AddsDisagreements, Answered
  <2>3. \A slot \in request.required : lastStage(slot) = "settings" => slot = "compiler"
    BY DEF lastStage, EnvInv, Slots
  <2> QED
    BY <2>1, <2>2, <2>3, StageKeeps, RankValues DEF Stage, Groups
<1>6. ASSUME Artifacts PROVE EnvInv'
  <2>1. /\ Moves("artifacts", "chain")
        /\ "artifacts" \in request.required /\ ~(supplied("artifacts") /\ ~agreed("paths")) =>
             Answered("artifacts")'
    BY <1>0, <1>6, ArtifactsAdds DEF Answered
  <2>2. "artifacts" \in request.required /\ supplied("artifacts") /\ ~agreed("paths") => Answered("artifacts")'
    <3>1. stage = "artifacts" /\ outcome = "none"
      BY <2>1 DEF Moves, EnvInv, Verdicts
    <3>2. Passed("paths")
      BY <3>1, RankValues DEF Passed
    <3>3. "artifacts" \in request.required /\ supplied("artifacts") /\ ~agreed("paths") => Answered("artifacts")
      BY <3>2 DEF EnvInv, NothingIsForgotten
    <3> QED
      BY <2>1, <3>3 DEF Moves, AddsSlots, AddsCauses, AddsDisagreements, Answered
  <2>3. \A slot \in request.required : lastStage(slot) = "artifacts" => slot = "artifacts"
    BY DEF lastStage
  <2> QED
    BY <2>1, <2>2, <2>3, StageKeeps, RankValues DEF Stage, Groups
<1>7. ASSUME Chain PROVE EnvInv'
  <2>1. Moves("chain", "receipts") /\ ("chain" \in request.required => Answered("chain")')
    BY <1>0, <1>7, ChainAdds DEF Answered
  <2>2. \A slot \in request.required : lastStage(slot) = "chain" => slot = "chain"
    BY DEF lastStage
  <2> QED
    BY <2>1, <2>2, StageKeeps, RankValues DEF Stage, Groups
<1>8. ASSUME Receipts PROVE EnvInv'
  <2>1. Moves("receipts", "scheduling") /\ ("receipts" \in request.required => Answered("receipts")')
    BY <1>0, <1>8, ReceiptsAdds DEF Answered
  <2>2. \A slot \in request.required : lastStage(slot) = "receipts" => slot = "receipts"
    BY DEF lastStage
  <2> QED
    BY <2>1, <2>2, StageKeeps, RankValues DEF Stage, Groups
<1>9. ASSUME Scheduling PROVE EnvInv'
  <2>1. Moves("scheduling", "output") /\ ("scheduling" \in request.required => Answered("scheduling")')
    BY <1>0, <1>9, SchedulingAdds DEF Answered
  <2>2. \A slot \in request.required : lastStage(slot) = "scheduling" => slot = "scheduling"
    BY DEF lastStage
  <2> QED
    BY <2>1, <2>2, StageKeeps, RankValues DEF Stage, Groups
<1>10. ASSUME Output PROVE EnvInv'
  <2>1. Moves("output", "pairing") /\ ("output" \in request.required => Answered("output")')
    BY <1>0, <1>10, OutputAdds DEF Answered
  <2>2. \A slot \in request.required : lastStage(slot) = "output" => slot = "output"
    BY DEF lastStage
  <2> QED
    BY <2>1, <2>2, StageKeeps, RankValues DEF Stage, Groups
<1>11. ASSUME Pairing PROVE EnvInv'
  <2>1. /\ Moves("pairing", "finish")
        /\ checkResolverPairing = "mispaired" => inconsistencies' # {}
        /\ checkResolverPairing = "unusable" /\ {"artifacts", "paths"} \cap request.required # {} =>
             unsatisfied' # {}
    BY <1>0, <1>11, PairingAdds
  <2>2. /\ \A slot \in request.required : lastStage(slot) # "pairing"
        /\ \A slot \in Groups : slot # "pairing"
    BY DEF lastStage, EnvInv, Slots, Groups
  <2> QED
    BY <2>1, <2>2, MovesKeep, RankValues DEF Stage
<1>12. ASSUME Finish PROVE EnvInv'
  <2>1. /\ stage = "finish" /\ stage' = "done" /\ outcome' = verdict /\ Fixed
        /\ UNCHANGED <<context, faults, host, request, slots, unsatisfied, inconsistencies>>
    BY <1>12 DEF Finish, Go, Fixed
  <2>2. outcome = "none"
    BY <2>1 DEF EnvInv, Verdicts
  <2>3. verdict' = verdict /\ verdict \in {"incomplete", "inconsistent", "resolved", "neither"}
    BY <2>1 DEF verdict
  <2>5. NothingIsForgotten'
    <3>1. /\ \A slot \in request.required : Answered(slot)
          /\ \A slot \in Groups \cap request.required :
               failing(slot) # {} => Because(slot, "unusable") \in unsatisfied
          /\ checkResolverPairing = "mispaired" => inconsistencies # {}
          /\ checkResolverPairing = "unusable" /\ {"artifacts", "paths"} \cap request.required # {} =>
               unsatisfied # {}
      BY <2>1, <2>2, AllPassed
    <3>2. /\ \A slot : Answered(slot)' = Answered(slot)
          /\ \A slot : failing(slot)' = failing(slot)
          /\ checkResolverPairing' = checkResolverPairing
      BY <2>1, Readings DEF Answered
    <3> QED
      BY <2>1, <3>1, <3>2 DEF NothingIsForgotten
  <2>6. NothingWrong'
    BY <2>1 DEF EnvInv, NothingWrong, FineHost
  <2>7. Verdicts'
    BY <2>1, <2>3 DEF Verdicts
  <2>8. (\A slot \in DOMAIN slots : Built(slot, slots[slot]))' /\ (\A u \in unsatisfied : Diagnosis(u))'
    BY <2>1, BuiltStays DEF EnvInv
  <2> QED
    BY <2>1, <2>5, <2>6, <2>7, <2>8 DEF EnvInv, Stage
<1>13. CASE UNCHANGED vars
  <2>1. Fixed /\ UNCHANGED <<stage, slots, unsatisfied, inconsistencies, outcome>>
    BY <1>13 DEF vars, Fixed
  <2>2. context' = context /\ request' = request /\ host' = host /\ faults' = faults
    BY <2>1 DEF Fixed
  <2>3. (\A slot \in DOMAIN slots : Built(slot, slots[slot]))' /\ (\A u \in unsatisfied : Diagnosis(u))'
    BY <2>1, BuiltStays DEF EnvInv
  <2>4. NothingIsForgotten'
    BY <2>1, <2>2, Readings DEF EnvInv, NothingIsForgotten, Passed, Answered
  <2>5. NothingWrong' /\ Verdicts'
    BY <2>1, <2>2, Readings DEF EnvInv, NothingWrong, FineHost, Verdicts, verdict
  <2> QED
    BY <2>1, <2>2, <2>3, <2>4, <2>5 DEF EnvInv
<1> QED
  BY <1>1, <1>2, <1>3, <1>4, <1>5, <1>6, <1>7, <1>8, <1>9, <1>10, <1>11, <1>12, <1>13 DEF Next

\* The invariant holds.
LEMMA EnvHolds == Spec => []EnvInv
BY EnvInit, EnvStep, PTL DEF Spec

-----------------------------------------------------------------------------
(* The properties *)

\* A resolution that says it is resolved has constructed everything that was required.
LEMMA ResolvedIsWhole ==
  ASSUME EnvInv, outcome = "resolved"
  PROVE  stage = "done" /\ unsatisfied = {} /\ inconsistencies = {} /\ request.required \subseteq DOMAIN slots
<1>1. outcome = verdict /\ stage = "done"
  BY DEF EnvInv, Verdicts
<1> QED
  BY <1>1 DEF verdict

\* What a lineage that was agreed with says, where its handle was supplied.
LEMMA AgreedSays ==
  ASSUME NEW group, agreed(group), NEW h \in {"deployer", "artifacts"}, supplied(h)
  PROVE  Says(h, group) = resolveGroup(group).values /\ inspectLineage(h) = "present"
BY AgreedByAll DEF Says

\* No value is taken where another was reachable and said something else (resolve.ts:128),
\* whatever is wrong with whichever handle; a resolver that does not belong to the other
\* handle's configuration ends in a complaint.
THEOREM NothingIsPreferred == Spec => []NoPreference
<1>1. ASSUME EnvInv PROVE NoPreference
  <2>0. \A slot \in DOMAIN slots : Built(slot, slots[slot])
    BY <1>1 DEF EnvInv
  <2>1. ASSUME NEW slot \in {"paths", "network"} \cap DOMAIN slots, NEW h \in {"deployer", "artifacts"}, supplied(h)
        PROVE  Says(h, slot) = slots[slot]
    <3>1. agreed(slot) /\ slots[slot] = resolveGroup(slot).values
      BY <2>0, <2>1 DEF Built
    <3> QED
      BY <2>1, <3>1, AgreedSays
  <2>2. ASSUME "compiler" \in DOMAIN slots, NEW h \in {"deployer", "artifacts"}, supplied(h)
        PROVE  /\ Says(h, "compiler") = slots["compiler"].values
               /\ slots["compiler"].settings # "no settings" =>
                    settingsAt(config(h), slots["compiler"].values.source) = slots["compiler"].settings
    <3> DEFINE values == resolveGroup("compiler").values
               settings == compareCompilerSettings(values.source)
    <3>1. agreed("compiler") /\ settings \notin {"conflict", Fails}
          /\ slots["compiler"] = [values |-> values, settings |-> settings]
      BY <2>0, <2>2 DEF Built
    <3>2. slots["compiler"].values = values /\ slots["compiler"].settings = settings
      BY <3>1
    <3>3. Says(h, "compiler") = values /\ lineages # {}
      BY <2>2, <3>1, AgreedSays, AgreedByAll
    <3>4. settings # "no settings" => settingsAt(config(h), values.source) = settings
      BY <2>2, <3>1, <3>3, SettingsOfAll
    <3> QED
      BY <3>2, <3>3, <3>4
  <2>3. ASSUME "chain" \in DOMAIN slots, NEW n \in {"tronWrap", "tronWeb"}, supplied(n)
        PROVE  {host.at[n]} = slots["chain"]
    <3> DEFINE given == {host.at[m] : m \in chainNames}
    <3>1. slots["chain"] = given /\ ~(Cardinality(given) > 1)
      BY <2>0, <2>3 DEF Built
    <3>2. IsFiniteSet(given)
      <4>1. given \subseteq {host.at["tronWrap"], host.at["tronWeb"]}
        BY Pairs
      <4> QED
        BY <4>1, PairsAreFinite
    <3>3. host.at[n] \in given
      BY <2>3 DEF chainNames
    <3> HIDE DEF given
    <3>4. \A v \in given : v = host.at[n]
      BY <3>1, <3>2, <3>3, AtMostOne
    <3> QED
      BY <3>1, <3>3, <3>4
  <2>4. ASSUME outcome = "resolved", {"artifacts", "paths"} \cap request.required # {},
               supplied("deployer"), supplied("artifacts")
        PROVE  config("deployer")["resolver"] = host.at["artifacts.resolver"]
    <3>1. stage = "done" /\ unsatisfied = {} /\ inconsistencies = {} /\ request.required \subseteq DOMAIN slots
      BY <1>1, <2>4, ResolvedIsWhole
    <3>2. checkResolverPairing \notin {"mispaired", "unusable"}
      BY <1>1, <2>4, <3>1, AllPassed
    <3>3. agreed("paths")
      BY <2>0, <2>4, <3>1 DEF Built
    <3>4. \A h \in {"deployer", "artifacts"} : inspectLineage(h) = "present"
      BY <2>4, <3>3, AgreedSays
    <3> QED
      BY <3>2, <3>4 DEF checkResolverPairing
  <2> QED
    BY <2>1, <2>2, <2>3, <2>4 DEF NoPreference
<1> QED
  BY <1>1, EnvHolds, PTL

\* With nothing wrong and no handle that bears on a request, its context provides nothing of it.
LEMMA FineAbsence ==
  ASSUME EnvInv, outcome = "absent", faults = 0, NEW slot \in requested
  PROVE  context \notin slotRequirements(slot).providedIn
<1>1. host = FineHost /\ context \in Contexts /\ slot \in Slots
  BY DEF EnvInv, NothingWrong, requested
<1>2. \A h \in slotRequirements(slot).handles : ~supplied(h)
  BY DEF EnvInv, Verdicts, hasBearingHandle
<1>3. CASE slot \in {"paths", "network", "output", "compiler"}
  <2>1. lineages = {}
    BY <1>2, <1>3, LineageBears
  <2> QED
    BY <1>1, <1>3, <2>1, FineLineages, Bearing
<1>4. CASE slot \in {"artifacts", "receipts", "scheduling"}
  BY <1>1, <1>2, <1>4, FineReadings, Bearing
<1>5. CASE slot = "chain"
  BY <1>1, <1>2, <1>5, FineReadings, Bearing
<1> QED
  BY <1>1, <1>3, <1>4, <1>5 DEF Slots

\* A diagnosis names what is true and a disagreement never hides a slot that cannot be had
\* (resolve.ts:587); no resolution ends without an answer (resolve.ts:597 asserts it of
\* itself), since every stage answers for its slot or complains.
THEOREM ComplaintsAreTrue == Spec => []DiagnosesAreTrue
<1>1. ASSUME EnvInv PROVE DiagnosesAreTrue
  <2>1. outcome \notin {"none", "absent"} =>
          /\ outcome = verdict /\ stage = "done"
          /\ \A slot \in request.required : Answered(slot)
          /\ \A slot \in Groups \cap request.required :
               failing(slot) # {} => Because(slot, "unusable") \in unsatisfied
    BY <1>1, AllPassed DEF EnvInv, Verdicts
  <2>2. outcome \in {"none", "absent", "incomplete", "inconsistent", "resolved"}
    <3>1. ASSUME outcome \notin {"none", "absent"}, unsatisfied = {}, inconsistencies = {}
          PROVE  outcome = "resolved"
      <4>1. request.required \subseteq DOMAIN slots
        BY <2>1, <3>1 DEF Answered
      <4> QED
        BY <2>1, <3>1, <4>1 DEF verdict
    <3> QED
      BY <2>1, <3>1 DEF verdict
  <2>3. \A u \in unsatisfied : u.slot \in request.required /\ u.slot \in Slots
                                /\ u.cause \in Handles \cup {"unusable"}
    BY <1>1, Bearing DEF EnvInv, Diagnosis
  <2>4. TypeOK
    BY <1>1, <2>2, <2>3 DEF TypeOK, EnvInv, Built, Verdicts
  <2>5. ASSUME NEW u \in unsatisfied
        PROVE  IF u.cause \in Handles THEN ~supplied(u.cause)
               ELSE \E h \in slotRequirements(u.slot).handles \cup {"deployer"} : supplied(h)
    BY <1>1, <2>3, <2>5, Bearing DEF EnvInv, Diagnosis, Handles
  <2>6. ASSUME outcome = "inconsistent", NEW slot \in request.required \cap {"network", "compiler"},
               NEW h \in {"deployer", "artifacts"}, supplied(h)
        PROVE  Says(h, slot) # Fails
    <3>1. unsatisfied = {}
      BY <2>1, <2>6 DEF verdict
    <3>2. failing(slot) = {}
      BY <2>1, <2>6, <3>1 DEF Groups
    <3>3. h \in lineages
      BY <2>6, Pairs
    <3>4. inspectLineage(h) \notin {"malformed", "absent"} /\ project(slot, config(h)) # Fails
      BY <3>2, <3>3 DEF failing, lineages
    <3> QED
      BY <3>4 DEF Says, inspectLineage
  <2>7. outcome = "incomplete" =>
          \A slot \in request.required \ DOMAIN slots :
            (\E u \in unsatisfied : u.slot = slot) \/ inconsistencies # {}
    BY <2>1 DEF Answered
  <2>8. outcome = "absent" =>
          \A slot \in requested : context \notin slotRequirements(slot).providedIn \/ faults > 0
    <3>1. faults = 0 \/ faults > 0
      BY <1>1 DEF EnvInv
    <3> QED
      BY <1>1, <3>1, FineAbsence
  <2> QED
    BY <2>4, <2>5, <2>6, <2>7, <2>8 DEF DiagnosesAreTrue
<1> QED
  BY <1>1, EnvHolds, PTL

\* What was constructed with nothing wrong is what the table says the context provides.
LEMMA FineSlots ==
  ASSUME EnvInv, faults = 0, NEW slot \in DOMAIN slots
  PROVE  context \in slotRequirements(slot).providedIn
<1>1. host = FineHost /\ context \in Contexts /\ Built(slot, slots[slot])
  BY DEF EnvInv, NothingWrong
<1>2. slot \in Slots
  BY <1>1 DEF Built, EnvInv, requested
<1>3. PICK h \in slotRequirements(slot).handles : supplied(h)
  BY <1>1 DEF Built
<1>4. CASE slot \in {"paths", "network", "output", "compiler"}
  <2>1. lineages # {}
    BY <1>3, <1>4, LineageBears
  <2> QED
    BY <1>1, <1>4, <2>1, FineLineages, Bearing
<1>5. CASE slot \in {"artifacts", "receipts", "scheduling"}
  BY <1>1, <1>3, <1>5, FineReadings, Bearing
<1>6. CASE slot = "chain"
  BY <1>1, <1>3, <1>6, FineReadings, Bearing
<1> QED
  BY <1>2, <1>4, <1>5, <1>6 DEF Slots

\* With nothing wrong a request is met exactly in the contexts that provide all it requires
\* (slots.ts:61): every handle, lineage and setting of such a context is usable.
THEOREM TableHolds == Spec => []TableIsTrue
<1>1. ASSUME EnvInv, faults = 0, stage = "done"
      PROVE  (outcome = "resolved") =
               \A slot \in request.required : context \in slotRequirements(slot).providedIn
  <2>1. /\ outcome # "none" /\ inconsistencies = {} /\ request.required # {}
        /\ \A u \in unsatisfied : /\ context \notin slotRequirements(u.slot).providedIn
                                  /\ u.slot \in request.required
    BY <1>1 DEF EnvInv, Verdicts, NothingWrong, Diagnosis
  <2>2. outcome = "resolved" => \A slot \in request.required : context \in slotRequirements(slot).providedIn
    BY <1>1, FineSlots, ResolvedIsWhole
  <2>3. ASSUME \A slot \in request.required : context \in slotRequirements(slot).providedIn
        PROVE  outcome = "resolved"
    <3>1. outcome # "absent"
      BY <1>1, <2>1, <2>3, FineAbsence DEF requested
    <3>2. unsatisfied = {}
      BY <2>1, <2>3
    <3>3. outcome = verdict /\ \A slot \in request.required : Answered(slot)
      BY <1>1, <2>1, <3>1, AllPassed DEF EnvInv, Verdicts
    <3>4. request.required \subseteq DOMAIN slots
      BY <2>1, <3>2, <3>3 DEF Answered
    <3> QED
      BY <2>1, <3>2, <3>3, <3>4 DEF verdict
  <2> QED
    BY <2>2, <2>3
<1>2. EnvInv => TableIsTrue
  BY <1>1 DEF TableIsTrue
<1> QED
  BY <1>2, EnvHolds, PTL

================================================================================
