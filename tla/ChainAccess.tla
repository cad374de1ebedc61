---------------------------- MODULE ChainAccess ----------------------------
(***************************************************************************)
(* The chain layer of the plugin (src/chain): one ChainAccess is built     *)
(* over one endpoint, and every reader sends its requests through it.      *)
(*                                                                         *)
(* Behind the endpoint stand nodes, not necessarily of one chain, and any  *)
(* of them may answer any request.  A request may also fail in each of the *)
(* ways the transport and the classifier tell apart.  The contract that is *)
(* read is deployed or upgraded while a reader is between two requests.    *)
(***************************************************************************)
EXTENDS Naturals, FiniteSets, Sequences, TLC

CONSTANTS
  Node,            \* the nodes behind the endpoint
  Deployed,        \* those on whose chain the address that is read comes into use
  chainIdOf,       \* [Node -> chain id]
  genesisOf,       \* [Node -> hash of block 0]
  firstOf,         \* [Node -> hash of block 1, once there is one]
  tailOf,          \* what the last four bytes of a genesis hash spell
  Implementation,  \* addresses of implementations
  Caller,          \* calls made on one ChainAccess
  MaxChanges,      \* bound on changes of the contract
  NoOne

ASSUME ChainAssumption ==
  /\ \A n \in Node : tailOf[genesisOf[n]] = chainIdOf[n]
  /\ Deployed \subseteq Node
  /\ MaxChanges \in Nat
  /\ NoOne \notin Caller

VARIABLES
  config,      \* what was configured, until createChainAccess has used it
  access,      \* how far createChainAccess is
  post,        \* the transport it chose
  operation,   \* [Caller -> the reader called, or "none"]
  heard,       \* [Caller -> a function from its requests to what it heard]
  outcome,     \* [Caller -> how its promise settled]
  memo,        \* the caller whose reads identity() has memoized
  contract,    \* [Node -> what stands at the address that is read]
  mined,       \* [Node -> whether there is a block 1]
  changes,     \* how often the contract changed
  answeredBy,  \* history: the nodes that answered a call
  meanwhile    \* history: the contracts there were during a call

factoryVars == <<config, access, post>>
callVars == <<operation, heard, outcome, memo, answeredBy>>
chainVars == <<contract, mined, changes>>
vars == <<factoryVars, callVars, chainVars, meanwhile>>

-----------------------------------------------------------------------------
(* The endpoint and its transport *)

\* Sources of the endpoint, by what the URL says: nothing, the handle's own
\* origin, another one, or one no request may be sent to.
Source == {"absent", "own", "other", "refused"}

Config ==
  [argument : Source, variable : Source, host : {"own", "refused"},
   handle : {"usable", "malformed"}, injected : BOOLEAN, fetch : BOOLEAN]

used == [argument |-> "absent", variable |-> "absent", host |-> "own",
         handle |-> "usable", injected |-> FALSE, fetch |-> FALSE]

\* Mutant: an unusable override is skipped.
chooseUsable(c) ==
  IF c.argument \in {"own", "other"} THEN c.argument
  ELSE IF c.variable \in {"own", "other"} THEN c.variable
  ELSE c.host

\* chooseEndpoint: the argument, the environment variable, the handle's host.
chooseEndpoint(c) ==
  IF c.argument # "absent" THEN c.argument
  ELSE IF c.variable # "absent" THEN c.variable
  ELSE c.host

\* selectPost: an injected transport, the handle's client for its own origin,
\* fetch for any other; a host no endpoint can have shares no origin with one.
selectPost(c) ==
  IF c.injected THEN "injected"
  ELSE IF chooseEndpoint(c) = "own" /\ c.host = "own" THEN "handle"
  ELSE IF c.fetch THEN "fetch"
  ELSE "none"

-----------------------------------------------------------------------------
(* Replies, and what the layers of the chain seam make of one *)

\* The values a result may hold, by what the shape rules and the readers see
\* in them.  A word is 32 bytes that carry an address, or zero.
Zero == "zero"

\* What stands in no slot is nobody's address.
ASSUME AddressAssumption == Zero \notin Implementation

noCode == [is |-> "0x"]
someCode == [is |-> "bytecode"]
word(a) == [is |-> "word", address |-> a]
otherHex == [is |-> "hex"]
string == [is |-> "string"]
quantity(id) == [is |-> "quantity", id |-> id]
block(h) == [is |-> "block", hash |-> h]
noBlock == [is |-> "null"]
metadata == [is |-> "metadata"]
garbage == [is |-> "garbage"]

\* What a reader may be given: never a value of an undeclared shape.
Value ==
  {noCode, someCode, otherHex, string, noBlock}
    \cup {word(a) : a \in Implementation \cup {Zero, "admin", "beacon", "owner"}}
    \cup {quantity(chainIdOf[n]) : n \in Node}
    \cup {block(genesisOf[n]) : n \in Node} \cup {block(firstOf[n]) : n \in Node}
    \cup {[is |-> "no-answer", because |-> b] :
             b \in {"reverted", "no-contract-at-address", "failed"}}

result(v) == [kind |-> "result", value |-> v]
nodeError(code, says) == [kind |-> "error", code |-> code, says |-> says]

ChainIdRequest == "eth_chainId"
BlockRequest == {"block0", "block1"}
MetadataRequest == {"hardhat_metadata", "anvil_metadata"}
Getter == {"owner()", "implementation()", "UPGRADE_INTERFACE_VERSION()"}
Slot == {"implementation", "legacyImplementation", "admin", "legacyAdmin", "beacon"}

\* A request may be answered with any of these, whatever it asks for.
Failures ==
  {[kind |-> "rejected"], [kind |-> "text"], [kind |-> "neither"], [kind |-> "badError"],
   nodeError(32000, "out-of-energy"), nodeError(32600, "other"),
   nodeError(32601, "no-such-method"), nodeError(32602, "bad-argument"),
   result(garbage)}

\* policyFor: the dev-instance probes are refused, all else is forwarded.
policyFor(request) == IF request \in MetadataRequest THEN "refuse" ELSE "forward"

\* The rejection of a round-trip, and validateEnvelope of the body of any other.
validateEnvelope(reply) ==
  IF reply.kind \in {"result", "error"} THEN reply.kind ELSE "transport-failure"

\* Mutant: every execution error is a revert.
executionIsRevert(error) ==
  CASE error.code = 32600 /\ error.says = "not-exist" -> "no-contract-at-address"
    [] error.code = 32000 -> "reverted"
    [] OTHER -> "unclassified"

\* classifyNodeError: by code first, by message only within a code.
classifyNodeError(error) ==
  CASE error.code = 32600 /\ error.says = "not-exist" -> "no-contract-at-address"
    [] error.code = 32000 /\ error.says = "revert" -> "reverted"
    [] error.code = 32601 -> "method-unsupported"
    [] error.code = 32602 -> "argument-rejected"
    [] OTHER -> "unclassified"

isProbeOutcome(diagnosis) == diagnosis \in {"no-contract-at-address", "reverted"}

\* stringResultMethods, and readBlockHash for the two block requests.
accepts(request, v) ==
  CASE request = ChainIdRequest -> v.is = "quantity"
    [] request \in BlockRequest -> v.is \in {"block", "null"}
    [] request \in MetadataRequest -> TRUE
    [] OTHER -> v.is \notin {"garbage", "null", "block", "metadata"}

resolved(v) == [ok |-> TRUE, value |-> v]
raised(class) == [ok |-> FALSE, error |-> class]

\* provider.send on one reply: the only place a reply becomes a value.
send(request, reply) ==
  IF policyFor(request) = "refuse" THEN raised("method-refused")
  ELSE CASE validateEnvelope(reply) = "transport-failure" -> raised("transport")
         [] validateEnvelope(reply) = "error" -> raised(classifyNodeError(reply))
         [] validateEnvelope(reply) = "result" ->
              IF accepts(request, reply.value) THEN resolved(reply.value)
              ELSE raised("result-shape")

\* tvmCallOptional: exactly the two probe outcomes become an absence.
tvmCallOptional(sent) ==
  IF ~sent.ok /\ isProbeOutcome(sent.error)
  THEN resolved([is |-> "no-answer", because |-> sent.error])
  ELSE sent

\* The engine takes any failure of a metadata request for a persistent chain.
absorbed(sent) ==
  IF sent.ok THEN sent ELSE resolved([is |-> "no-answer", because |-> "failed"])

hears(request, reply) ==
  CASE request \in Getter -> tvmCallOptional(send(request, reply))
    [] request \in MetadataRequest -> absorbed(send(request, reply))
    [] OTHER -> send(request, reply)

-----------------------------------------------------------------------------
(* The readers: what each asks, in order, and what it makes of the answers *)

\* The slots of a label: the modern one, then the legacy one; a beacon has none.
slotsFor(label) ==
  CASE label = "implementation" -> <<"implementation", "legacyImplementation">>
    [] label = "admin" -> <<"admin", "legacyAdmin">>
    [] OTHER -> <<"beacon">>

Program ==
  [hasCode |-> <<"code">>,
   readImplementationAddress |-> slotsFor("implementation"),
   readAdminAddress |-> slotsFor("admin"),
   readBeaconAddress |-> slotsFor("beacon"),
   readProxySlots |-> <<"code", "implementation", "legacyImplementation", "admin",
                        "legacyAdmin", "beacon">>,
   readUpgradeInterfaceVersion |-> <<"UPGRADE_INTERFACE_VERSION()">>,
   looksLikeProxyAdmin |-> <<"owner()">>,
   readBeaconImplementation |-> <<"code", "implementation()">>,
   identity |-> <<ChainIdRequest, "block0", "block1">>,
   forNetwork |-> <<ChainIdRequest, "hardhat_metadata", "anvil_metadata">>]

Operation == DOMAIN Program

isEmptySlotWord(v) == v = word(Zero)
looksLikeSlotAddressWord(v) == v.is = "word"

\* Answers that end the reading early: code that is not there, a slot that is
\* not empty, a metadata probe that was answered.
skips(h, request) ==
  \/ request # "code" /\ "code" \in DOMAIN h /\ h["code"] = noCode
  \/ \E modern \in {"implementation", "admin"} :
       /\ request = slotsFor(modern)[2]
       /\ modern \in DOMAIN h
       /\ ~isEmptySlotWord(h[modern])
  \/ /\ request = "anvil_metadata"
     /\ "hardhat_metadata" \in DOMAIN h
     /\ h["hardhat_metadata"].is # "no-answer"

\* The requests a reader still has to make, as places in its program.
ahead(op, h) ==
  {i \in DOMAIN Program[op] : Program[op][i] \notin DOMAIN h /\ ~skips(h, Program[op][i])}

nextRequest(op, h) ==
  Program[op][CHOOSE i \in ahead(op, h) : \A j \in ahead(op, h) : i <= j]

\* readSlotWithFallback: the first word that is not empty, or the zero word.
slotRead(h, label) ==
  LET slots == {slotsFor(label)[i] : i \in DOMAIN slotsFor(label)}
      full == {s \in slots \cap DOMAIN h : ~isEmptySlotWord(h[s])}
  IN  IF full = {} THEN word(Zero) ELSE h[CHOOSE s \in full : TRUE]

\* Mutant: no cross-check.
onlySlots(h) == \E s \in Slot \cap DOMAIN h : ~looksLikeSlotAddressWord(h[s])

\* What makes a reader give up on an answer it was given: slotToAddress, and
\* the cross-check of the chain id with the genesis hash.
inconsistent(h) ==
  \/ \E s \in Slot \cap DOMAIN h : ~looksLikeSlotAddressWord(h[s])
  \/ /\ "block0" \in DOMAIN h
     /\ \/ h["block0"] = noBlock
        \/ tailOf[h["block0"].hash] # h[ChainIdRequest].id

answers(a) == [end |-> "resolved", with |-> a]
rejects(because) == [end |-> "rejected", because |-> because]
Pending == [end |-> "pending"]

\* What readBeaconImplementation makes of the beacon's answer.
beaconRead(h) ==
  IF h["code"] = noCode THEN answers(noCode)
  ELSE IF ~looksLikeSlotAddressWord(h["implementation()"]) THEN answers([is |-> "not-a-beacon"])
  ELSE answers(h["implementation()"])

proxySlots(h) ==
  IF h["code"] = noCode THEN answers(noCode)
  ELSE answers([is |-> "slots",
                implementation |-> slotRead(h, "implementation"),
                admin |-> slotRead(h, "admin"), beacon |-> slotRead(h, "beacon")])

\* An empty implementation or beacon slot raises, an empty admin slot is zero.
slotOrRefusal(h, label) ==
  IF isEmptySlotWord(slotRead(h, label)) THEN rejects("not-found")
  ELSE answers(slotRead(h, label))

identityRead(h) ==
  answers([is |-> "identity", chainId |-> h[ChainIdRequest].id,
           genesisHash |-> h["block0"].hash, firstBlock |-> h["block1"]])

\* Manifest.forNetwork: a chain that answers a metadata probe is a dev
\* instance, and its metadata has to agree with the chain id.
networkRead(h) ==
  IF \A r \in MetadataRequest \cap DOMAIN h : h[r].is = "no-answer"
  THEN answers(h[ChainIdRequest])
  ELSE rejects("broken-invariant")

settles(op, h) ==
  CASE op = "hasCode" -> answers([is |-> "boolean", value |-> h["code"] # noCode])
    [] op = "readImplementationAddress" -> slotOrRefusal(h, "implementation")
    [] op = "readAdminAddress" -> answers(slotRead(h, "admin"))
    [] op = "readBeaconAddress" -> slotOrRefusal(h, "beacon")
    [] op = "readProxySlots" -> proxySlots(h)
    [] op = "readUpgradeInterfaceVersion" ->
         answers([is |-> "boolean", value |-> h["UPGRADE_INTERFACE_VERSION()"] = string])
    [] op = "looksLikeProxyAdmin" ->
         answers([is |-> "boolean", value |-> looksLikeSlotAddressWord(h["owner()"])])
    [] op = "readBeaconImplementation" -> beaconRead(h)
    [] op = "identity" -> identityRead(h)
    [] op = "forNetwork" -> networkRead(h)

-----------------------------------------------------------------------------
(* The chain *)

Kind == {"plain", "fallback", "uups", "transparent", "legacy", "odd",
         "beaconProxy", "beacon", "proxyAdmin"}
\* The kinds that name an implementation, which an upgrade replaces.
Behind == {"uups", "transparent", "legacy", "beacon"}
nothing == [kind |-> "none", implementation |-> Zero]
Contract ==
  {nothing} \cup [kind : Kind \ Behind, implementation : {Zero}]
            \cup [kind : Behind, implementation : Implementation]

\* The word in a slot.  An odd contract keeps something else in a proxy's slot.
holds(k, slot) ==
  CASE slot = "implementation" /\ k.kind \in {"uups", "transparent"} -> word(k.implementation)
    [] slot = "legacyImplementation" /\ k.kind = "legacy" -> word(k.implementation)
    [] slot = "admin" /\ k.kind = "transparent" -> word("admin")
    [] slot = "legacyAdmin" /\ k.kind = "legacy" -> word("admin")
    [] slot = "beacon" /\ k.kind = "beaconProxy" -> word("beacon")
    [] slot = "implementation" /\ k.kind = "odd" -> otherHex
    [] OTHER -> word(Zero)

\* The answer to a getter: a contract without it reverts, one with a fallback
\* answers anything, and where there is no contract the node says so.
calls(k, getter) ==
  CASE k.kind = "none" -> nodeError(32600, "not-exist")
    [] k.kind = "fallback" -> result(otherHex)
    [] getter = "owner()" /\ k.kind \in {"proxyAdmin", "beacon"} -> result(word("owner"))
    [] getter = "implementation()" /\ k.kind = "beacon" -> result(word(k.implementation))
    [] getter = "UPGRADE_INTERFACE_VERSION()" /\ k.kind \in {"proxyAdmin", "uups"} ->
         result(string)
    [] OTHER -> nodeError(32000, "revert")

\* What a node answers when nothing fails.  Nobody knows what it says to the
\* methods of other tools' development nodes.
served(n, request) ==
  CASE request = ChainIdRequest -> {result(quantity(chainIdOf[n]))}
    [] request = "block0" -> {result(block(genesisOf[n]))}
    [] request = "block1" -> {result(IF mined[n] THEN block(firstOf[n]) ELSE noBlock)}
    [] request \in MetadataRequest -> {nodeError(32601, "no-such-method"), result(metadata)}
    [] request = "code" -> {result(IF contract[n].kind = "none" THEN noCode ELSE someCode)}
    [] request \in Slot -> {result(holds(contract[n], request))}
    [] OTHER -> {calls(contract[n], request)}

Reply(n, request) == served(n, request) \cup Failures

-----------------------------------------------------------------------------
Init ==
  /\ config \in Config
  /\ access = "none"
  /\ post = "none"
  /\ operation = [c \in Caller |-> "none"]
  /\ heard = [c \in Caller |-> << >>]
  /\ outcome = [c \in Caller |-> Pending]
  /\ memo = NoOne
  /\ contract = [n \in Node |-> nothing]
  /\ mined = [n \in Node |-> FALSE]
  /\ changes = 0
  /\ answeredBy = [c \in Caller |-> {}]
  /\ meanwhile = [c \in Caller |-> {}]

\* resolveEndpoint: the handle is read, one source is chosen, validated, and
\* given a transport; nothing falls back to another source.
ResolveEndpoint ==
  /\ access = "none"
  /\ IF \/ config.handle = "malformed"
        \/ chooseEndpoint(config) = "refused"
        \/ selectPost(config) = "none"
     THEN access' = "refused" /\ post' = "none"
     ELSE access' = "resolved" /\ post' = selectPost(config)
  /\ config' = used
  /\ UNCHANGED <<callVars, chainVars, meanwhile>>

\* probeJsonRpc: one request for the chain id decides whether there is a
\* ChainAccess at all; the native probe behind a failure only words it.
\* No property is about the transport after this, and it is forgotten.
ProbeJsonRpc ==
  /\ access = "resolved"
  /\ \E n \in Node : \E reply \in Reply(n, ChainIdRequest) :
       access' = IF send(ChainIdRequest, reply).ok THEN "ready" ELSE "refused"
  /\ post' = "none"
  /\ UNCHANGED <<config, callVars, chainVars, meanwhile>>

\* Bound: the readers share nothing but the memo of identity(), so a call of
\* another reader is made alone.
Calls(c, op) ==
  \A d \in Caller : operation[d] # "none" => {op, operation[d]} = {"identity"}

\* A caller calls a reader; the first to ask for the identity reads it for all.
Call(c) ==
  /\ access = "ready"
  /\ operation[c] = "none"
  /\ \E op \in Operation :
       /\ Calls(c, op)
       /\ operation' = [operation EXCEPT ![c] = op]
       /\ memo' = IF op = "identity" /\ memo = NoOne THEN c ELSE memo
  /\ meanwhile' = [meanwhile EXCEPT ![c] = {<<n, contract[n]>> : n \in Node}]
  /\ UNCHANGED <<factoryVars, heard, outcome, answeredBy, chainVars>>

\* The calls of identity() that were given the memoized promise.
awaitsMemo(c) == operation[c] = "identity" /\ memo # c

\* A reader holds one answer more.
withAnswer(h, request, value) ==
  [r \in DOMAIN h \cup {request} |-> IF r = request THEN value ELSE h[r]]

\* One round-trip of a reader, and the reader's next step on its answer.
Ask(c) ==
  /\ operation[c] # "none" /\ outcome[c] = Pending /\ ~awaitsMemo(c)
  /\ \E n \in Node : \E reply \in Reply(n, nextRequest(operation[c], heard[c])) :
       LET request == nextRequest(operation[c], heard[c])
           got == hears(request, reply)
           h == IF got.ok THEN withAnswer(heard[c], request, got.value) ELSE heard[c]
           end == IF ~got.ok THEN rejects(got.error)
                  ELSE IF inconsistent(h) THEN rejects("inconsistent")
                  ELSE IF ahead(operation[c], h) = {} THEN settles(operation[c], h)
                  ELSE Pending
       IN  /\ outcome' = [outcome EXCEPT ![c] = end]
           /\ heard' = [heard EXCEPT ![c] = IF end = Pending THEN h ELSE << >>]
           /\ answeredBy' = [answeredBy EXCEPT ![c] = @ \cup {n}]
  /\ UNCHANGED <<factoryVars, operation, memo, chainVars, meanwhile>>

\* Mutant: a failure of the memoized read is nobody else's.
JoinSuccess(c) ==
  /\ awaitsMemo(c) /\ outcome[c] = Pending
  /\ outcome[memo].end = "resolved"
  /\ outcome' = [outcome EXCEPT ![c] = outcome[memo]]
  /\ UNCHANGED <<factoryVars, operation, heard, memo, answeredBy, chainVars, meanwhile>>

\* A call of identity() settles as the memoized promise did.
Join(c) ==
  /\ awaitsMemo(c) /\ outcome[c] = Pending
  /\ outcome[memo] # Pending
  /\ outcome' = [outcome EXCEPT ![c] = outcome[memo]]
  /\ UNCHANGED <<factoryVars, operation, heard, memo, answeredBy, chainVars, meanwhile>>

\* Something is deployed at the address, or what stands there is upgraded.
ChangeContract(n) ==
  /\ changes < MaxChanges
  /\ \E k \in Contract :
       /\ k \notin {nothing, contract[n]}
       /\ contract[n].kind \in {"none", k.kind}
       /\ contract' = [contract EXCEPT ![n] = k]
       /\ meanwhile' = [c \in Caller |->
            IF operation[c] # "none" /\ outcome[c] = Pending
            THEN meanwhile[c] \cup {<<n, k>>} ELSE meanwhile[c]]
  /\ changes' = changes + 1
  /\ UNCHANGED <<factoryVars, callVars, mined>>

MineFirstBlock(n) ==
  /\ ~mined[n]
  /\ mined' = [mined EXCEPT ![n] = TRUE]
  /\ UNCHANGED <<factoryVars, callVars, contract, changes, meanwhile>>

Next ==
  \/ ResolveEndpoint
  \/ ProbeJsonRpc
  \/ \E c \in Caller : Call(c) \/ Ask(c) \/ Join(c)
  \/ \E n \in Deployed : ChangeContract(n)
  \/ \E n \in Node : MineFirstBlock(n)

\* A round-trip ends with a reply or a rejection: the handle's client has the
\* user's timeout, fetch the runtime's.
Fairness == \A c \in Caller : WF_vars(Ask(c)) /\ WF_vars(Join(c))

Spec == Init /\ [][Next]_vars
FairSpec == Spec /\ Fairness

-----------------------------------------------------------------------------
(* Properties *)

\* The types, and that no reader is given a value of an undeclared shape.
TypeOK ==
  /\ config \in Config
  /\ access \in {"none", "resolved", "ready", "refused"}
  /\ post \in {"none", "injected", "handle", "fetch"}
  /\ operation \in [Caller -> Operation \cup {"none"}]
  /\ \A c \in Caller : \A request \in DOMAIN heard[c] : heard[c][request] \in Value
  /\ \A c \in Caller : outcome[c].end \in {"pending", "resolved", "rejected"}
  /\ memo \in Caller \cup {NoOne}
  /\ contract \in [Node -> Contract]
  /\ mined \in [Node -> BOOLEAN]
  /\ changes \in 0..MaxChanges

\* Whether a settled outcome says the truth about node n while contract k
\* stood there.  A failed call says nothing, but "not-found" is an answer.
saysTrue(op, o, n, k) ==
  LET slots == [label \in {"implementation", "admin", "beacon"} |->
                  slotRead([s \in Slot |-> holds(k, s)], label)]
      isTrue == [is |-> "boolean", value |-> TRUE]
      label == CASE op = "readImplementationAddress" -> "implementation"
                 [] op = "readAdminAddress" -> "admin"
                 [] OTHER -> "beacon"
  IN  IF o.end = "rejected"
      THEN /\ o.because # "broken-invariant"
           /\ o.because = "not-found" => slots[label] = word(Zero)
      ELSE CASE op = "hasCode" -> o.with = isTrue <=> k.kind # "none"
             [] op = "readUpgradeInterfaceVersion" ->
                  o.with = isTrue <=> k.kind \in {"proxyAdmin", "uups"}
             [] op = "looksLikeProxyAdmin" ->
                  o.with = isTrue <=> k.kind \in {"proxyAdmin", "beacon"}
             [] op = "forNetwork" -> o.with = quantity(chainIdOf[n])
             [] op = "readBeaconImplementation" ->
                  IF o.with = noCode THEN k.kind = "none"
                  ELSE IF o.with.is = "word"
                  THEN k.kind = "beacon" /\ o.with = word(k.implementation)
                  ELSE k.kind \notin {"none", "beacon"}
             [] op = "readProxySlots" ->
                  IF o.with = noCode THEN k.kind = "none"
                  ELSE k.kind # "none" /\ \A l \in DOMAIN slots : o.with[l] = slots[l]
             [] OTHER -> o.with = slots[label]

\* read.ts: "no transport failure is ever converted into a no-answer, a false,
\* a zero address, an empty slot".  More than that: whatever a reader answers
\* was so on the node that answered it, at some moment of the call, although
\* the reader asked several times and the contract may have changed between;
\* and no reader is given a value of an undeclared shape (TypeOK).
AnswersAreTrue ==
  /\ TypeOK
  /\ \A c \in Caller :
       /\ outcome[c] # Pending
       /\ operation[c] # "identity"
       /\ Cardinality(answeredBy[c]) = 1
       => \E known \in meanwhile[c] :
            /\ known[1] \in answeredBy[c]
            /\ saysTrue(operation[c], outcome[c], known[1], known[2])

\* The cross-check of readChainInstanceIdentity: whichever nodes answered, the
\* chain id and the genesis hash of an identity are those of one network.  "Read
\* once per instance and memoized": two callers never act on different ones, or
\* one on an identity and one on a failure.
IdentityIsOneNetwork ==
  \A c \in Caller :
    operation[c] = "identity" =>
      /\ outcome[c].end = "resolved" =>
           \E n \in Node :
             /\ outcome[c].with.chainId = chainIdOf[n]
             /\ outcome[c].with.genesisHash = genesisOf[n]
      /\ \A d \in Caller :
           operation[d] = "identity" /\ Pending \notin {outcome[c], outcome[d]}
             => outcome[c] = outcome[d]

\* endpoint.ts: no fallback between the sources of an endpoint, and the
\* handle's client, which may carry credentials, only for its own origin.
OnlyTheChosenEndpoint ==
  [][access = "none" /\ access' = "resolved"
       => /\ config.argument # "refused"
          /\ config.argument = "absent" => config.variable # "refused"
          /\ post' = "handle" =>
               \/ config.argument = "own"
               \/ config.argument = "absent" /\ config.variable \in {"absent", "own"}]_vars

\* Every reader's promise settles, that of a joined identity() call too.
EveryReadSettles ==
  \A c \in Caller : operation[c] # "none" ~> outcome[c] # Pending
=============================================================================
