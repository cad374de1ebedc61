------------------------- MODULE ChainAccessProofs -------------------------
(***************************************************************************)
(* Proofs about the chain layer: a reader of several requests answers what *)
(* was so on the node that answered it, at one moment of the call, although *)
(* the contract may change between two of them; and the identity of a      *)
(* chain is that of one network, the same for all who ask.                 *)
(*                                                                         *)
(* What a reader relies on is that a contract does not change its kind: an *)
(* upgrade replaces the implementation, and what was not there yet may be  *)
(* deployed.  So two slots read at two moments never both hold something.  *)
(***************************************************************************)
EXTENDS ChainAccess, FiniteSetTheorems, TLAPS

\* The requests a reader may make, and all there are.
Asked(o) == {Program[o][i] : i \in DOMAIN Program[o]}

Request ==
  {ChainIdRequest, "code"} \cup BlockRequest \cup MetadataRequest \cup Getter \cup Slot

\* What a call may be rejected with by the layers below the readers.
Errors ==
  {"method-refused", "transport", "no-contract-at-address", "reverted", "method-unsupported",
   "argument-rejected", "unclassified", "result-shape"}

noAnswer(b) == [is |-> "no-answer", because |-> b]

\* What a reader is given for a getter of contract k.
saysOf(k, getter) ==
  IF k.kind = "none" THEN noAnswer("no-contract-at-address")
  ELSE IF k.kind = "fallback" THEN otherHex
  ELSE IF getter = "owner()" /\ k.kind \in {"proxyAdmin", "beacon"} THEN word("owner")
  ELSE IF getter = "implementation()" /\ k.kind = "beacon" THEN word(k.implementation)
  ELSE IF getter = "UPGRADE_INTERFACE_VERSION()" /\ k.kind \in {"proxyAdmin", "uups"} THEN string
  ELSE noAnswer("reverted")

\* What a reader is given for a request, when node n answers it while k stands there.
Told(n, k, request) ==
  IF request = ChainIdRequest THEN {quantity(chainIdOf[n])}
  ELSE IF request = "block0" THEN {block(genesisOf[n])}
  ELSE IF request = "block1" THEN {block(firstOf[n]), noBlock}
  ELSE IF request \in MetadataRequest THEN {noAnswer("failed")}
  ELSE IF request = "code" THEN {IF k.kind = "none" THEN noCode ELSE someCode}
  ELSE IF request \in Slot THEN {holds(k, request)}
  ELSE {saysOf(k, request)}

\* The address that a label's slots of contract k lead to.
slotValue(k, label) ==
  IF label = "implementation"
  THEN IF k.kind \in {"uups", "transparent", "legacy"} THEN word(k.implementation)
       ELSE IF k.kind = "odd" THEN otherHex ELSE word(Zero)
  ELSE IF label = "admin"
  THEN IF k.kind \in {"transparent", "legacy"} THEN word("admin") ELSE word(Zero)
  ELSE IF k.kind = "beaconProxy" THEN word("beacon") ELSE word(Zero)

Label == {"implementation", "admin", "beacon"}

\* Every answer a reader holds is a node's, and it has not given up on one.
FromNodes(h) ==
  /\ \A r \in DOMAIN h : \E n \in Node : \E k \in Contract : h[r] \in Told(n, k, r)
  /\ ~inconsistent(h)

\* A reader asks for the code first.
InOrder(o, h) ==
  /\ DOMAIN h \subseteq Asked(o)
  /\ "code" \in Asked(o) /\ "code" \notin DOMAIN h => DOMAIN h = {}

\* Node n alone has answered, each time what was so then; and where it had code, it was
\* asked of a contract.
Witnessed(h, n, during) ==
  \A r \in DOMAIN h : \E k \in Contract :
    /\ <<n, k>> \in during
    /\ h[r] \in Told(n, k, r)
    /\ "code" \in DOMAIN h /\ h["code"] # noCode => k.kind # "none"

\* What stands at the address on one chain is of one kind, once it is there.
OneKind(n, during) ==
  \A k \in Contract : \A j \in Contract :
    <<n, k>> \in during /\ <<n, j>> \in during /\ k.kind # "none" /\ j.kind # "none"
      => k.kind = j.kind

\* The types, with the shapes that EXCEPT needs.
ChainTypes ==
  /\ config \in Config
  /\ access \in {"none", "resolved", "ready", "refused"}
  /\ post \in {"none", "injected", "handle", "fetch"}
  /\ operation \in [Caller -> Operation \cup {"none"}]
  /\ heard = [c \in Caller |-> heard[c]]
  /\ outcome = [c \in Caller |-> outcome[c]]
  /\ \A c \in Caller : outcome[c].end \in {"pending", "resolved", "rejected"}
  /\ \A c \in Caller : outcome[c].end = "pending" => outcome[c] = Pending
  /\ memo \in Caller \cup {NoOne}
  /\ contract \in [Node -> Contract]
  /\ mined \in [Node -> BOOLEAN]
  /\ changes \in 0..MaxChanges
  /\ answeredBy \in [Caller -> SUBSET Node]
  /\ \A c \in Caller : IsFiniteSet(answeredBy[c])
  /\ meanwhile \in [Caller -> SUBSET (Node \X Contract)]

Underway(c) == operation[c] # "none" /\ outcome[c] = Pending /\ ~awaitsMemo(c)

\* A reader holds answers while its call is under way, and has one more to ask for.
Holding(c) ==
  /\ ~Underway(c) => heard[c] = << >>
  /\ operation[c] = "none" => outcome[c] = Pending
  /\ operation[c] = "none" \/ awaitsMemo(c) => answeredBy[c] = {}
  /\ Underway(c) =>
       /\ ahead(operation[c], heard[c]) # {}
       /\ InOrder(operation[c], heard[c])
       /\ FromNodes(heard[c])
       /\ \A n \in Node : answeredBy[c] \subseteq {n} => Witnessed(heard[c], n, meanwhile[c])

\* What stood at the address during a call is known, and of the kind there is now.
Watching(c) ==
  /\ operation[c] # "none" /\ outcome[c] = Pending
       => \A n \in Node : <<n, contract[n]>> \in meanwhile[c]
  /\ \A n \in Node : \A k \in Contract :
       <<n, k>> \in meanwhile[c] => k.kind \in {"none", contract[n].kind}

\* What a settled call says was so, and an identity is that of one network.
Truthful(c) ==
  outcome[c] # Pending =>
    /\ operation[c] # "identity" =>
         \A n \in Node : answeredBy[c] = {n} =>
           \E k \in Contract : <<n, k>> \in meanwhile[c] /\ saysTrue(operation[c], outcome[c], n, k)
    /\ operation[c] = "identity" /\ outcome[c].end = "resolved" =>
         \E n \in Node : /\ outcome[c].with.chainId = chainIdOf[n]
                         /\ outcome[c].with.genesisHash = genesisOf[n]

CallerInv(c) == Holding(c) /\ Watching(c) /\ Truthful(c)

\* One of the calls of identity() reads for all of them.
Memoized ==
  /\ memo = NoOne <=> \A c \in Caller : operation[c] # "identity"
  /\ memo # NoOne => memo \in Caller /\ operation[memo] = "identity"
  /\ \A c \in Caller : awaitsMemo(c) /\ outcome[c] # Pending => outcome[c] = outcome[memo]

ChainInv == ChainTypes /\ Memoized /\ \A c \in Caller : CallerInv(c)

-----------------------------------------------------------------------------
(* Lemmas about the readers *)

\* The requests of each reader, in their order.
LEMMA Programs ==
  /\ Operation = {"hasCode", "readImplementationAddress", "readAdminAddress", "readBeaconAddress",
                  "readProxySlots", "readUpgradeInterfaceVersion", "looksLikeProxyAdmin",
                  "readBeaconImplementation", "identity", "forNetwork"}
  /\ Program["hasCode"] = <<"code">>
  /\ Program["readImplementationAddress"] = <<"implementation", "legacyImplementation">>
  /\ Program["readAdminAddress"] = <<"admin", "legacyAdmin">>
  /\ Program["readBeaconAddress"] = <<"beacon">>
  /\ Program["readProxySlots"]
       = <<"code", "implementation", "legacyImplementation", "admin", "legacyAdmin", "beacon">>
  /\ Program["readUpgradeInterfaceVersion"] = <<"UPGRADE_INTERFACE_VERSION()">>
  /\ Program["looksLikeProxyAdmin"] = <<"owner()">>
  /\ Program["readBeaconImplementation"] = <<"code", "implementation()">>
  /\ Program["identity"] = <<ChainIdRequest, "block0", "block1">>
  /\ Program["forNetwork"] = <<ChainIdRequest, "hardhat_metadata", "anvil_metadata">>
BY DEF Operation, Program, slotsFor

\* A reader makes at most six requests, and asks for the code first or not at all.
LEMMA ProgramShape ==
  ASSUME NEW o \in Operation
  PROVE  /\ DOMAIN Program[o] \subseteq 1..6 /\ 1 \in DOMAIN Program[o]
         /\ Asked(o) \subseteq Request
         /\ "code" \in Asked(o) => Program[o][1] = "code"
<1> DEFINE Fine(s) == /\ DOMAIN s \subseteq 1..6 /\ 1 \in DOMAIN s
                      /\ {s[i] : i \in DOMAIN s} \subseteq Request
                      /\ "code" \in {s[i] : i \in DOMAIN s} => s[1] = "code"
<1>1. /\ "code" \in Request /\ "implementation" \in Request /\ "legacyImplementation" \in Request
      /\ "admin" \in Request /\ "legacyAdmin" \in Request /\ "beacon" \in Request
      /\ "UPGRADE_INTERFACE_VERSION()" \in Request /\ "owner()" \in Request
      /\ "implementation()" \in Request /\ ChainIdRequest \in Request /\ "block0" \in Request
      /\ "block1" \in Request /\ "hardhat_metadata" \in Request /\ "anvil_metadata" \in Request
  BY DEF Request, BlockRequest, MetadataRequest, Getter, Slot
<1>2. \A a \in Request : Fine(<<a>>)
  BY DEF Request
<1>3. \A a \in Request, b \in Request \ {"code"} : Fine(<<a, b>>)
  BY DEF Request
<1>4. \A a \in Request, b \in Request \ {"code"}, c \in Request \ {"code"} : Fine(<<a, b, c>>)
  BY DEF Request
<1>5. Fine(<<"code", "implementation", "legacyImplementation", "admin", "legacyAdmin", "beacon">>)
  BY <1>1
<1>6. Fine(Program[o])
  <2>1. ChainIdRequest # "code"
    BY DEF ChainIdRequest
  <2> HIDE DEF Fine
  <2> QED
    BY <1>1, <1>2, <1>3, <1>4, <1>5, <2>1, Programs
<1> QED
  BY <1>6 DEF Asked

\* The first of some places in a program.
LEMMA FirstPlace ==
  ASSUME NEW S \in SUBSET (1..6), S # {}
  PROVE  \E i \in S : \A j \in S : i <= j
<1>1. \A j \in S : j \in {1, 2, 3, 4, 5, 6}
  OBVIOUS
<1>2. CASE 1 \in S
  BY <1>1, <1>2
<1>3. CASE 1 \notin S /\ 2 \in S
  BY <1>1, <1>3
<1>4. CASE 1 \notin S /\ 2 \notin S /\ 3 \in S
  BY <1>1, <1>4
<1>5. CASE 1 \notin S /\ 2 \notin S /\ 3 \notin S /\ 4 \in S
  BY <1>1, <1>5
<1>6. CASE 1 \notin S /\ 2 \notin S /\ 3 \notin S /\ 4 \notin S /\ 5 \in S
  BY <1>1, <1>6
<1>7. CASE S \subseteq {6}
  <2>1. 6 \in S /\ \A j \in S : j = 6
    BY <1>7
  <2> QED
    BY <2>1
<1>8. 1 \in S \/ 2 \in S \/ 3 \in S \/ 4 \in S \/ 5 \in S \/ S \subseteq {6}
  BY <1>1
<1> QED
  BY <1>2, <1>3, <1>4, <1>5, <1>6, <1>7, <1>8

\* A reader asks for what it has not heard and has no reason to skip; the code is not
\* outstanding when it asks for something else.
LEMMA Asking ==
  ASSUME NEW o \in Operation, NEW h, ahead(o, h) # {}
  PROVE  /\ nextRequest(o, h) \in Asked(o)
         /\ nextRequest(o, h) \notin DOMAIN h /\ ~skips(h, nextRequest(o, h))
         /\ "code" \in Asked(o) /\ "code" \notin DOMAIN h => nextRequest(o, h) = "code"
<1> DEFINE first == CHOOSE i \in ahead(o, h) : \A j \in ahead(o, h) : i <= j
<1>1. ahead(o, h) \subseteq DOMAIN Program[o] /\ ahead(o, h) \in SUBSET (1..6)
  BY ProgramShape DEF ahead
<1>2. first \in ahead(o, h) /\ \A j \in ahead(o, h) : first <= j
  <2>1. \E i \in ahead(o, h) : \A j \in ahead(o, h) : i <= j
    BY <1>1, FirstPlace
  <2> QED
    BY <2>1
<1> HIDE DEF first
<1>3. nextRequest(o, h) = Program[o][first]
  BY DEF nextRequest, first
<1>4. ASSUME "code" \in Asked(o), "code" \notin DOMAIN h PROVE nextRequest(o, h) = "code"
  <2>1. 1 \in DOMAIN Program[o] /\ Program[o][1] = "code"
    BY <1>4, ProgramShape
  <2>2. ~skips(h, "code")
    BY <1>4 DEF skips, slotsFor
  <2>3. 1 \in ahead(o, h)
    BY <1>4, <2>1, <2>2 DEF ahead
  <2>4. first = 1
    BY <1>1, <1>2, <2>3
  <2> QED
    BY <1>3, <2>1, <2>4
<1> QED
  BY <1>2, <1>3, <1>4 DEF ahead, Asked

\* A reader that asks no more has heard or skipped all it asks for.
LEMMA Finished ==
  ASSUME NEW o \in Operation, NEW h, ahead(o, h) = {}, NEW r \in Asked(o)
  PROVE  r \in DOMAIN h \/ skips(h, r)
BY DEF ahead, Asked

\* A reader that has heard nothing has something to ask for.
LEMMA AllAhead ==
  ASSUME NEW o \in Operation
  PROVE  /\ ahead(o, << >>) # {} /\ InOrder(o, << >>) /\ FromNodes(<< >>)
         /\ \A n, during : Witnessed(<< >>, n, during)
<1>1. DOMAIN << >> = {}
  OBVIOUS
<1>2. 1 \in DOMAIN Program[o]
  BY ProgramShape
<1>3. \A r : ~skips(<< >>, r)
  BY <1>1 DEF skips
<1>4. ahead(o, << >>) # {}
  BY <1>1, <1>2, <1>3 DEF ahead
<1>5. InOrder(o, << >>) /\ FromNodes(<< >>)
  BY <1>1 DEF InOrder, FromNodes, inconsistent
<1>6. \A n, during : Witnessed(<< >>, n, during)
  BY <1>1 DEF Witnessed
<1> QED
  BY <1>4, <1>5, <1>6

-----------------------------------------------------------------------------
(* Lemmas about the answers *)

\* What a contract may be.
LEMMA ContractFacts ==
  ASSUME NEW k \in Contract
  PROVE  /\ k.kind \in Kind \cup {"none"}
         /\ k.kind = "none" => k = nothing
         /\ k.kind \in Behind => k.implementation \in Implementation /\ k.implementation # Zero
<1>1. k = nothing \/ k \in [kind : Kind \ Behind, implementation : {Zero}]
        \/ k \in [kind : Behind, implementation : Implementation]
  BY DEF Contract
<1>2. Behind \subseteq Kind /\ "none" \notin Kind /\ nothing.kind = "none"
  BY DEF Behind, Kind, nothing
<1>3. CASE k = nothing
  BY <1>2, <1>3
<1>4. CASE k \in [kind : Kind \ Behind, implementation : {Zero}]
  BY <1>2, <1>4
<1>5. CASE k \in [kind : Behind, implementation : Implementation]
  BY <1>2, <1>5, AddressAssumption
<1> QED
  BY <1>1, <1>3, <1>4, <1>5

\* An answer that is not empty names somebody.
LEMMA Words ==
  ASSUME NEW a
  PROVE  /\ word(a).is = "word" /\ word(a).address = a
         /\ word(a) = word(Zero) <=> a = Zero
         /\ word(a) # otherHex /\ word(a) # noCode /\ word(a) # someCode
BY DEF word, otherHex, noCode, someCode

\* What a contract holds in its slots.
LEMMA Holds ==
  ASSUME NEW k \in Contract
  PROVE  /\ holds(k, "implementation")
              = IF k.kind \in {"uups", "transparent"} THEN word(k.implementation)
                ELSE IF k.kind = "odd" THEN otherHex ELSE word(Zero)
         /\ holds(k, "legacyImplementation")
              = IF k.kind = "legacy" THEN word(k.implementation) ELSE word(Zero)
         /\ holds(k, "admin") = IF k.kind = "transparent" THEN word("admin") ELSE word(Zero)
         /\ holds(k, "legacyAdmin") = IF k.kind = "legacy" THEN word("admin") ELSE word(Zero)
         /\ holds(k, "beacon") = IF k.kind = "beaconProxy" THEN word("beacon") ELSE word(Zero)
<1>1. CASE k.kind \in {"uups", "transparent"}
  BY <1>1 DEF holds
<1>2. CASE k.kind = "legacy"
  BY <1>2 DEF holds
<1>3. CASE k.kind = "odd"
  BY <1>3 DEF holds
<1>4. CASE k.kind \notin {"uups", "transparent", "legacy", "odd"}
  BY <1>4 DEF holds
<1> QED
  BY <1>1, <1>2, <1>3, <1>4

\* Every value a node may tell a reader is of a declared shape.
LEMMA ToldIsDeclared ==
  ASSUME NEW n \in Node, NEW k \in Contract, NEW r \in Request, NEW v \in Told(n, k, r)
  PROVE  v \in Value
<1>1. /\ quantity(chainIdOf[n]) \in Value /\ block(genesisOf[n]) \in Value
      /\ block(firstOf[n]) \in Value /\ noBlock \in Value
      /\ noAnswer("failed") \in Value /\ noAnswer("reverted") \in Value
      /\ noAnswer("no-contract-at-address") \in Value
      /\ noCode \in Value /\ someCode \in Value /\ otherHex \in Value /\ string \in Value
  BY DEF Value, noAnswer
<1>2. /\ word(Zero) \in Value /\ word("admin") \in Value /\ word("beacon") \in Value
      /\ word("owner") \in Value
      /\ k.kind \in Behind => word(k.implementation) \in Value
  <2>1. k.kind \in Behind => k.implementation \in Implementation
    BY ContractFacts
  <2> QED
    BY <2>1 DEF Value
<1>3. \A s \in Slot : holds(k, s) \in Value
  BY <1>1, <1>2, Holds DEF Slot, Behind
<1>4. \A g : saysOf(k, g) \in Value
  BY <1>1, <1>2 DEF saysOf, Behind
<1> QED
  BY <1>1, <1>3, <1>4 DEF Told

-----------------------------------------------------------------------------
(* What a reader hears *)

\* The node errors, and what the classifier makes of those no contract gives.
LEMMA Classes ==
  /\ classifyNodeError(nodeError(32000, "out-of-energy")) = "unclassified"
  /\ classifyNodeError(nodeError(32000, "revert")) = "reverted"
  /\ classifyNodeError(nodeError(32600, "other")) = "unclassified"
  /\ classifyNodeError(nodeError(32600, "not-exist")) = "no-contract-at-address"
  /\ classifyNodeError(nodeError(32601, "no-such-method")) = "method-unsupported"
  /\ classifyNodeError(nodeError(32602, "bad-argument")) = "argument-rejected"
BY DEF classifyNodeError, nodeError

\* What is sent and answered with an error is rejected with its class.
LEMMA ErrorSent ==
  ASSUME NEW r, r \notin MetadataRequest, NEW code, NEW says
  PROVE  send(r, nodeError(code, says)) = raised(classifyNodeError(nodeError(code, says)))
<1>1. policyFor(r) = "forward" /\ validateEnvelope(nodeError(code, says)) = "error"
  BY DEF policyFor, validateEnvelope, nodeError
<1> QED
  BY <1>1 DEF send

\* What is answered with a result is resolved where the shape is declared.
LEMMA ResultSent ==
  ASSUME NEW r, r \notin MetadataRequest, NEW v
  PROVE  send(r, result(v)) = IF accepts(r, v) THEN resolved(v) ELSE raised("result-shape")
<1>1. /\ policyFor(r) = "forward" /\ validateEnvelope(result(v)) = "result"
      /\ result(v).value = v
  BY DEF policyFor, validateEnvelope, result
<1> QED
  BY <1>1 DEF send

\* A failed round-trip, or a body that is no envelope, is a transport failure.
LEMMA TransportSent ==
  ASSUME NEW r, r \notin MetadataRequest, NEW kind \in {"rejected", "text", "neither", "badError"}
  PROVE  send(r, [kind |-> kind]) = raised("transport")
<1>1. policyFor(r) = "forward" /\ validateEnvelope([kind |-> kind]) = "transport-failure"
  BY DEF policyFor, validateEnvelope
<1> QED
  BY <1>1 DEF send

\* No reader takes a failure for an answer: each is rejected, but a metadata probe,
\* which is never sent.
LEMMA FailuresRaise ==
  ASSUME NEW r \in Request \ MetadataRequest, NEW reply \in Failures
  PROVE  \E e \in Errors : hears(r, reply) = raised(e)
<1>1. \E e \in Errors \ {"reverted", "no-contract-at-address"} : send(r, reply) = raised(e)
  <2>1. CASE reply \in {[kind |-> "rejected"], [kind |-> "text"], [kind |-> "neither"],
                        [kind |-> "badError"]}
    <3>1. send(r, reply) = raised("transport")
      BY <2>1, TransportSent
    <3> QED
      BY <3>1 DEF Errors
  <2>2. CASE reply \in {nodeError(32000, "out-of-energy"), nodeError(32600, "other"),
                        nodeError(32601, "no-such-method"), nodeError(32602, "bad-argument")}
    <3>1. send(r, reply) \in {raised("unclassified"), raised("method-unsupported"),
                              raised("argument-rejected")}
      BY <2>2, ErrorSent, Classes
    <3> QED
      BY <3>1 DEF Errors
  <2>3. CASE reply = result(garbage)
    <3>1. garbage.is = "garbage"
      BY DEF garbage
    <3>2. ~accepts(r, garbage)
      BY <3>1 DEF accepts, MetadataRequest, BlockRequest, ChainIdRequest
    <3>3. send(r, reply) = raised("result-shape")
      BY <2>3, <3>2, ResultSent
    <3> QED
      BY <3>3 DEF Errors
  <2> QED
    BY <2>1, <2>2, <2>3 DEF Failures
<1>2. PICK e \in Errors \ {"reverted", "no-contract-at-address"} : send(r, reply) = raised(e)
  BY <1>1
<1>3. raised(e).ok = FALSE /\ raised(e).error = e
  BY DEF raised
<1>4. tvmCallOptional(raised(e)) = raised(e)
  BY <1>2, <1>3 DEF tvmCallOptional, isProbeOutcome
<1> QED
  BY <1>2, <1>4 DEF hears

\* An answer that is neither a node's nor an error is none.
LEMMA OfGetter ==
  ASSUME NEW k \in Contract, NEW g \in Getter
  PROVE  hears(g, calls(k, g)) = resolved(saysOf(k, g))
<1>1. g \notin MetadataRequest /\ g # ChainIdRequest /\ g \notin BlockRequest
  BY DEF Getter, MetadataRequest, ChainIdRequest, BlockRequest
<1>2. \A reply : hears(g, reply) = tvmCallOptional(send(g, reply))
  BY <1>1 DEF hears
<1>3. \A v : accepts(g, v) <=> v.is \notin {"garbage", "null", "block", "metadata"}
  BY <1>1 DEF accepts
<1>4. ASSUME NEW v, v.is \notin {"garbage", "null", "block", "metadata"}
      PROVE  hears(g, result(v)) = resolved(v)
  <2>1. send(g, result(v)) = resolved(v) /\ resolved(v).ok = TRUE
    BY <1>1, <1>3, <1>4, ResultSent DEF resolved
  <2> QED
    BY <1>2, <2>1 DEF tvmCallOptional
<1>5. hears(g, nodeError(32600, "not-exist")) = resolved(noAnswer("no-contract-at-address"))
  <2>1. send(g, nodeError(32600, "not-exist")) = raised("no-contract-at-address")
    BY <1>1, ErrorSent, Classes
  <2> QED
    BY <1>2, <2>1 DEF tvmCallOptional, raised, isProbeOutcome, noAnswer
<1>6. hears(g, nodeError(32000, "revert")) = resolved(noAnswer("reverted"))
  <2>1. send(g, nodeError(32000, "revert")) = raised("reverted")
    BY <1>1, ErrorSent, Classes
  <2> QED
    BY <1>2, <2>1 DEF tvmCallOptional, raised, isProbeOutcome, noAnswer
<1>7. /\ hears(g, result(otherHex)) = resolved(otherHex)
      /\ hears(g, result(string)) = resolved(string)
      /\ \A a : hears(g, result(word(a))) = resolved(word(a))
  <2>1. otherHex.is = "hex" /\ string.is = "string" /\ \A a : word(a).is = "word"
    BY DEF otherHex, string, word
  <2> QED
    BY <1>4, <2>1
<1>8. calls(k, g) = IF k.kind = "none" THEN nodeError(32600, "not-exist")
                    ELSE IF k.kind = "fallback" THEN result(otherHex)
                    ELSE IF g = "owner()" /\ k.kind \in {"proxyAdmin", "beacon"} THEN result(word("owner"))
                    ELSE IF g = "implementation()" /\ k.kind = "beacon" THEN result(word(k.implementation))
                    ELSE IF g = "UPGRADE_INTERFACE_VERSION()" /\ k.kind \in {"proxyAdmin", "uups"}
                    THEN result(string) ELSE nodeError(32000, "revert")
  <2>1. CASE k.kind = "none"
    BY <2>1 DEF calls
  <2>2. CASE k.kind = "fallback"
    BY <2>2 DEF calls
  <2>3. CASE g = "owner()" /\ k.kind \in {"proxyAdmin", "beacon"}
    BY <2>3 DEF calls
  <2>4. CASE g = "implementation()" /\ k.kind = "beacon"
    BY <2>4 DEF calls
  <2>5. CASE g = "UPGRADE_INTERFACE_VERSION()" /\ k.kind \in {"proxyAdmin", "uups"}
    BY <2>5 DEF calls
  <2>6. CASE /\ k.kind # "none" /\ k.kind # "fallback"
             /\ ~(g = "owner()" /\ k.kind \in {"proxyAdmin", "beacon"})
             /\ ~(g = "implementation()" /\ k.kind = "beacon")
             /\ ~(g = "UPGRADE_INTERFACE_VERSION()" /\ k.kind \in {"proxyAdmin", "uups"})
    BY <2>6 DEF calls
  <2> QED
    BY <2>1, <2>2, <2>3, <2>4, <2>5, <2>6
<1> QED
  BY <1>5, <1>6, <1>7, <1>8 DEF saysOf

\* A declared result is heard as it is.
LEMMA ResultHeard ==
  ASSUME NEW r, r \notin MetadataRequest, r \notin Getter, NEW v, accepts(r, v)
  PROVE  hears(r, result(v)) = resolved(v)
<1>1. send(r, result(v)) = resolved(v)
  BY ResultSent
<1> QED
  BY <1>1 DEF hears

\* A metadata probe is never sent, and its refusal taken for an absence.
LEMMA OfMetadata ==
  ASSUME NEW r \in MetadataRequest, NEW reply
  PROVE  hears(r, reply) = resolved(noAnswer("failed"))
<1>1. r \notin Getter
  BY DEF MetadataRequest, Getter
<1>2. send(r, reply) = raised("method-refused") /\ raised("method-refused").ok = FALSE
  BY DEF send, policyFor, raised
<1>3. hears(r, reply) = absorbed(send(r, reply))
  BY <1>1 DEF hears
<1> QED
  BY <1>2, <1>3 DEF absorbed, noAnswer

\* What a reader hears of a request is what a node tells it of its own chain, or an
\* error of the layers below.
LEMMA Hears ==
  ASSUME NEW n \in Node, contract[n] \in Contract, NEW r \in Request, NEW reply \in Reply(n, r)
  PROVE  \/ \E v \in Told(n, contract[n], r) : hears(r, reply) = resolved(v)
         \/ \E e \in Errors : hears(r, reply) = raised(e)
<1> DEFINE k == contract[n]
<1>1. CASE r \in MetadataRequest
  <2>1. Told(n, k, r) = {noAnswer("failed")}
    BY <1>1 DEF Told, MetadataRequest, ChainIdRequest
  <2> QED
    BY <1>1, <2>1, OfMetadata
<1>2. CASE r \notin MetadataRequest /\ reply \in Failures
  BY <1>2, FailuresRaise
<1>3. CASE r = ChainIdRequest /\ reply \in served(n, r)
  <2>1. r \notin MetadataRequest /\ r \notin Getter
    BY <1>3 DEF MetadataRequest, Getter, ChainIdRequest
  <2>2. reply = result(quantity(chainIdOf[n])) /\ Told(n, k, r) = {quantity(chainIdOf[n])}
    BY <1>3 DEF served, Told, MetadataRequest, ChainIdRequest, Slot
  <2>3. accepts(r, quantity(chainIdOf[n]))
    BY <1>3 DEF accepts, quantity, ChainIdRequest, BlockRequest, MetadataRequest
  <2> QED
    BY <2>1, <2>2, <2>3, ResultHeard
<1>4. CASE r \in BlockRequest /\ reply \in served(n, r)
  <2>1. r \notin MetadataRequest /\ r \notin Getter /\ r # ChainIdRequest
    BY <1>4 DEF MetadataRequest, Getter, ChainIdRequest, BlockRequest
  <2>2. \A v : accepts(r, v) <=> v.is \in {"block", "null"}
    BY <1>4, <2>1 DEF accepts
  <2>3. accepts(r, block(genesisOf[n])) /\ accepts(r, block(firstOf[n])) /\ accepts(r, noBlock)
    BY <2>2 DEF block, noBlock
  <2>4. PICK v \in Told(n, k, r) : reply = result(v) /\ accepts(r, v)
    <3>1. CASE r = "block0"
      <4>1. reply = result(block(genesisOf[n])) /\ Told(n, k, r) = {block(genesisOf[n])}
        BY <1>4, <3>1 DEF served, Told, MetadataRequest, ChainIdRequest, Slot
      <4> QED
        BY <2>3, <4>1
    <3>2. CASE r = "block1"
      <4>1. /\ reply \in {result(block(firstOf[n])), result(noBlock)}
            /\ Told(n, k, r) = {block(firstOf[n]), noBlock}
        BY <1>4, <3>2 DEF served, Told, MetadataRequest, ChainIdRequest, Slot
      <4> QED
        BY <2>3, <4>1
    <3> QED
      BY <1>4, <3>1, <3>2 DEF BlockRequest
  <2> QED
    BY <2>1, <2>4, ResultHeard
<1>5. CASE r \in {"code"} \cup Slot /\ reply \in served(n, r)
  <2>1. r \notin MetadataRequest /\ r \notin Getter /\ r # ChainIdRequest /\ r \notin BlockRequest
    BY <1>5 DEF MetadataRequest, Getter, ChainIdRequest, BlockRequest, Slot
  <2>2. \A v : accepts(r, v) <=> v.is \notin {"garbage", "null", "block", "metadata"}
    BY <2>1 DEF accepts
  <2>3. PICK v \in Told(n, k, r) : reply = result(v) /\ accepts(r, v)
    <3>1. CASE r = "code"
      <4>1. /\ reply = result(IF k.kind = "none" THEN noCode ELSE someCode)
            /\ Told(n, k, r) = {IF k.kind = "none" THEN noCode ELSE someCode}
        BY <1>5, <2>1, <3>1 DEF served, Told, Slot, MetadataRequest, ChainIdRequest, BlockRequest
      <4>2. accepts(r, noCode) /\ accepts(r, someCode)
        BY <2>2 DEF noCode, someCode
      <4> QED
        BY <4>1, <4>2
    <3>2. CASE r \in Slot
      <4>1. reply = result(holds(k, r)) /\ Told(n, k, r) = {holds(k, r)}
        BY <1>5, <2>1, <3>2 DEF served, Told, Slot, MetadataRequest, ChainIdRequest, BlockRequest
      <4>2. otherHex.is = "hex" /\ \A a : word(a).is = "word"
        BY DEF otherHex, word
      <4>3. \/ holds(k, r) = otherHex
            \/ \E a : holds(k, r) = word(a)
        BY <3>2, Holds DEF Slot
      <4>4. accepts(r, holds(k, r))
        BY <2>2, <4>2, <4>3
      <4> QED
        BY <4>1, <4>4
    <3> QED
      BY <1>5, <3>1, <3>2
  <2> QED
    BY <2>1, <2>3, ResultHeard
<1>6. CASE r \in Getter /\ reply \in served(n, r)
  <2>1. reply = calls(k, r) /\ Told(n, k, r) = {saysOf(k, r)}
    BY <1>6 DEF served, Told, Getter, Slot, MetadataRequest, ChainIdRequest
  <2> QED
    BY <1>6, <2>1, OfGetter
<1> QED
  BY <1>1, <1>2, <1>3, <1>4, <1>5, <1>6 DEF Reply, Request

-----------------------------------------------------------------------------
(* What a reader makes of the slots *)

\* What the reader of a label returns of two slots, or of one.
LEMMA SlotRead ==
  ASSUME NEW h, NEW label \in Label
  PROVE  /\ label # "beacon" =>
              LET m == slotsFor(label)[1]
                  l == slotsFor(label)[2]
              IN  /\ m \in DOMAIN h /\ h[m] # word(Zero) /\ (l \in DOMAIN h => h[l] = word(Zero))
                       => slotRead(h, label) = h[m]
                  /\ (m \in DOMAIN h => h[m] = word(Zero)) /\ l \in DOMAIN h /\ h[l] # word(Zero)
                       => slotRead(h, label) = h[l]
                  /\ (m \in DOMAIN h => h[m] = word(Zero)) /\ (l \in DOMAIN h => h[l] = word(Zero))
                       => slotRead(h, label) = word(Zero)
         /\ label = "beacon" /\ "beacon" \in DOMAIN h => slotRead(h, label) = h["beacon"]
<1> DEFINE slots == {slotsFor(label)[i] : i \in DOMAIN slotsFor(label)}
           full == {s \in slots \cap DOMAIN h : ~isEmptySlotWord(h[s])}
<1>1. slotRead(h, label) = IF full = {} THEN word(Zero) ELSE h[CHOOSE s \in full : TRUE]
  BY DEF slotRead
<1>2. \A s : full = {s} => slotRead(h, label) = h[s]
  <2> HIDE DEF full
  <2> QED
    BY <1>1
<1>3. full = {} => slotRead(h, label) = word(Zero)
  BY <1>1
<1>4. CASE label # "beacon"
  <2> DEFINE m == slotsFor(label)[1]
             l == slotsFor(label)[2]
  <2>1. slots = {m, l} /\ m # l
    BY <1>4 DEF slotsFor, Label
  <2> HIDE DEF slots, m, l
  <2>2. full = {s \in {m, l} \cap DOMAIN h : h[s] # word(Zero)}
    BY <2>1 DEF isEmptySlotWord
  <2>3. /\ m \in DOMAIN h /\ h[m] # word(Zero) /\ (l \in DOMAIN h => h[l] = word(Zero)) => full = {m}
        /\ (m \in DOMAIN h => h[m] = word(Zero)) /\ l \in DOMAIN h /\ h[l] # word(Zero) => full = {l}
        /\ (m \in DOMAIN h => h[m] = word(Zero)) /\ (l \in DOMAIN h => h[l] = word(Zero)) => full = {}
    BY <2>1, <2>2
  <2> HIDE DEF full
  <2>4. /\ m \in DOMAIN h /\ h[m] # word(Zero) /\ (l \in DOMAIN h => h[l] = word(Zero))
             => slotRead(h, label) = h[m]
        /\ (m \in DOMAIN h => h[m] = word(Zero)) /\ l \in DOMAIN h /\ h[l] # word(Zero)
             => slotRead(h, label) = h[l]
        /\ (m \in DOMAIN h => h[m] = word(Zero)) /\ (l \in DOMAIN h => h[l] = word(Zero))
             => slotRead(h, label) = word(Zero)
    BY <1>2, <1>3, <2>3
  <2> QED
    BY <1>4, <2>4 DEF m, l
<1>5. CASE label = "beacon" /\ "beacon" \in DOMAIN h
  <2>1. slots = {"beacon"}
    BY <1>5 DEF slotsFor
  <2>2. full = IF h["beacon"] = word(Zero) THEN {} ELSE {"beacon"}
    BY <1>5, <2>1 DEF isEmptySlotWord
  <2> HIDE DEF full
  <2> QED
    BY <1>2, <1>3, <1>5, <2>2
<1> QED
  BY <1>4, <1>5

\* The modern slot of a label and the legacy one.
LEMMA SlotNames ==
  /\ slotsFor("implementation")[1] = "implementation"
  /\ slotsFor("implementation")[2] = "legacyImplementation"
  /\ slotsFor("admin")[1] = "admin" /\ slotsFor("admin")[2] = "legacyAdmin"
  /\ slotsFor("beacon")[1] = "beacon"
  /\ "implementation" \in Label /\ "admin" \in Label /\ "beacon" \in Label
BY DEF slotsFor, Label

\* The three labels, spelt out.
LEMMA LabelReads ==
  ASSUME NEW h
  PROVE  /\ /\ "implementation" \in DOMAIN h /\ h["implementation"] # word(Zero)
            /\ "legacyImplementation" \in DOMAIN h => h["legacyImplementation"] = word(Zero)
            => slotRead(h, "implementation") = h["implementation"]
         /\ /\ "implementation" \in DOMAIN h => h["implementation"] = word(Zero)
            /\ "legacyImplementation" \in DOMAIN h /\ h["legacyImplementation"] # word(Zero)
            => slotRead(h, "implementation") = h["legacyImplementation"]
         /\ /\ "implementation" \in DOMAIN h => h["implementation"] = word(Zero)
            /\ "legacyImplementation" \in DOMAIN h => h["legacyImplementation"] = word(Zero)
            => slotRead(h, "implementation") = word(Zero)
         /\ /\ "admin" \in DOMAIN h /\ h["admin"] # word(Zero)
            /\ "legacyAdmin" \in DOMAIN h => h["legacyAdmin"] = word(Zero)
            => slotRead(h, "admin") = h["admin"]
         /\ /\ "admin" \in DOMAIN h => h["admin"] = word(Zero)
            /\ "legacyAdmin" \in DOMAIN h /\ h["legacyAdmin"] # word(Zero)
            => slotRead(h, "admin") = h["legacyAdmin"]
         /\ /\ "admin" \in DOMAIN h => h["admin"] = word(Zero)
            /\ "legacyAdmin" \in DOMAIN h => h["legacyAdmin"] = word(Zero)
            => slotRead(h, "admin") = word(Zero)
         /\ "beacon" \in DOMAIN h => slotRead(h, "beacon") = h["beacon"]
<1>1. "implementation" # "beacon" /\ "admin" # "beacon"
  OBVIOUS
<1>2. "beacon" \in DOMAIN h => slotRead(h, "beacon") = h["beacon"]
  BY SlotNames, SlotRead
<1>3. /\ /\ "implementation" \in DOMAIN h /\ h["implementation"] # word(Zero)
         /\ "legacyImplementation" \in DOMAIN h => h["legacyImplementation"] = word(Zero)
         => slotRead(h, "implementation") = h["implementation"]
      /\ /\ "implementation" \in DOMAIN h => h["implementation"] = word(Zero)
         /\ "legacyImplementation" \in DOMAIN h /\ h["legacyImplementation"] # word(Zero)
         => slotRead(h, "implementation") = h["legacyImplementation"]
      /\ /\ "implementation" \in DOMAIN h => h["implementation"] = word(Zero)
         /\ "legacyImplementation" \in DOMAIN h => h["legacyImplementation"] = word(Zero)
         => slotRead(h, "implementation") = word(Zero)
  BY <1>1, SlotNames, SlotRead
<1>4. /\ /\ "admin" \in DOMAIN h /\ h["admin"] # word(Zero)
         /\ "legacyAdmin" \in DOMAIN h => h["legacyAdmin"] = word(Zero)
         => slotRead(h, "admin") = h["admin"]
      /\ /\ "admin" \in DOMAIN h => h["admin"] = word(Zero)
         /\ "legacyAdmin" \in DOMAIN h /\ h["legacyAdmin"] # word(Zero)
         => slotRead(h, "admin") = h["legacyAdmin"]
      /\ /\ "admin" \in DOMAIN h => h["admin"] = word(Zero)
         /\ "legacyAdmin" \in DOMAIN h => h["legacyAdmin"] = word(Zero)
         => slotRead(h, "admin") = word(Zero)
  BY <1>1, SlotNames, SlotRead
<1> QED
  BY <1>2, <1>3, <1>4

\* What is in the slots of one contract, all read at one moment.
LEMMA SlotsOf ==
  ASSUME NEW k \in Contract, NEW label \in Label
  PROVE  slotRead([s \in Slot |-> holds(k, s)], label) = slotValue(k, label)
<1> DEFINE h == [s \in Slot |-> holds(k, s)]
<1>1. /\ DOMAIN h = Slot /\ \A s \in Slot : h[s] = holds(k, s)
      /\ "implementation" \in Slot /\ "legacyImplementation" \in Slot /\ "admin" \in Slot
      /\ "legacyAdmin" \in Slot /\ "beacon" \in Slot
  BY DEF Slot
<1> HIDE DEF h
<1>2. k.kind \in {"uups", "transparent", "legacy"} => word(k.implementation) # word(Zero)
  BY ContractFacts, Words DEF Behind
<1>3. word("admin") # word(Zero) /\ word("beacon") # word(Zero) /\ otherHex # word(Zero)
  BY DEF word, Zero, otherHex
<1>4. CASE label = "implementation"
  <2>1. CASE k.kind \in {"uups", "transparent", "odd"}
    BY <1>1, <1>2, <1>3, <1>4, <2>1, Holds, LabelReads DEF slotValue
  <2>2. CASE k.kind = "legacy"
    BY <1>1, <1>2, <1>4, <2>2, Holds, LabelReads DEF slotValue
  <2>3. CASE k.kind \notin {"uups", "transparent", "odd", "legacy"}
    BY <1>1, <1>4, <2>3, Holds, LabelReads DEF slotValue
  <2> QED
    BY <2>1, <2>2, <2>3
<1>5. CASE label = "admin"
  <2>1. CASE k.kind = "transparent"
    BY <1>1, <1>3, <1>5, <2>1, Holds, LabelReads DEF slotValue
  <2>2. CASE k.kind = "legacy"
    BY <1>1, <1>3, <1>5, <2>2, Holds, LabelReads DEF slotValue
  <2>3. CASE k.kind \notin {"transparent", "legacy"}
    BY <1>1, <1>5, <2>3, Holds, LabelReads DEF slotValue
  <2> QED
    BY <2>1, <2>2, <2>3
<1>6. CASE label = "beacon"
  BY <1>1, <1>6, Holds, LabelReads DEF slotValue
<1> QED
  BY <1>4, <1>5, <1>6 DEF Label, h

\* A label read of one node, in one request or two, leads where one of the contracts that
\* stood there during the call led: its slots do not both hold something, and only a
\* contract of a kind with a legacy slot ever fills one.
LEMMA LabelRead ==
  ASSUME NEW n, NEW during, OneKind(n, during), NEW h, NEW label \in Label,
         \A s \in Slot \cap DOMAIN h : /\ h[s].is = "word"
                                       /\ \E k \in Contract : <<n, k>> \in during /\ h[s] = holds(k, s),
         slotsFor(label)[1] \in DOMAIN h,
         label # "beacon" => \/ slotsFor(label)[2] \in DOMAIN h
                             \/ h[slotsFor(label)[1]] # word(Zero)
  PROVE  \E k \in Contract :
           <<n, k>> \in during /\ slotRead(h, label) = slotValue(k, label) /\ slotRead(h, label).is = "word"
<1>1. /\ "implementation" \in Slot /\ "legacyImplementation" \in Slot /\ "admin" \in Slot
      /\ "legacyAdmin" \in Slot /\ "beacon" \in Slot
  BY DEF Slot
<1>2. /\ otherHex.is = "hex" /\ \A a : word(a).is = "word"
      /\ word("admin") # word(Zero) /\ word("beacon") # word(Zero)
  BY DEF otherHex, word, Zero
<1>3. \A k \in Contract : k.kind \in Behind => word(k.implementation) # word(Zero)
  BY ContractFacts, Words
<1>4. \A k \in Contract, j \in Contract :
        <<n, k>> \in during /\ <<n, j>> \in during /\ k.kind # "none" /\ j.kind # "none"
          => k.kind = j.kind
  BY DEF OneKind
<1>5. CASE label = "implementation"
  <2>1. PICK k \in Contract : <<n, k>> \in during /\ h["implementation"] = holds(k, "implementation")
    BY <1>1, <1>5, SlotNames
  <2>2. "implementation" \in DOMAIN h /\ k.kind # "odd"
    BY <1>1, <1>2, <1>5, <2>1, Holds, SlotNames
  <2>3. CASE "legacyImplementation" \in DOMAIN h
    <3>1. PICK j \in Contract :
            <<n, j>> \in during /\ h["legacyImplementation"] = holds(j, "legacyImplementation")
      BY <1>1, <2>3
    <3>2. CASE k.kind \in {"uups", "transparent"}
      <4>1. h["implementation"] = word(k.implementation) /\ h["implementation"] # word(Zero)
        BY <1>3, <2>1, <3>2, Holds DEF Behind
      <4>2. h["legacyImplementation"] = word(Zero)
        BY <1>4, <2>1, <3>1, <3>2, Holds
      <4>3. slotRead(h, "implementation") = h["implementation"]
        BY <2>2, <2>3, <4>1, <4>2, LabelReads
      <4> QED
        BY <1>2, <1>5, <2>1, <3>2, <4>1, <4>3 DEF slotValue
    <3>3. CASE k.kind \notin {"uups", "transparent"} /\ j.kind = "legacy"
      <4>1. h["implementation"] = word(Zero)
        BY <2>1, <2>2, <3>3, Holds
      <4>2. /\ h["legacyImplementation"] = word(j.implementation)
            /\ h["legacyImplementation"] # word(Zero)
        BY <1>3, <3>1, <3>3, Holds DEF Behind
      <4>3. slotRead(h, "implementation") = h["legacyImplementation"]
        BY <2>2, <2>3, <4>1, <4>2, LabelReads
      <4> QED
        BY <1>2, <1>5, <3>1, <3>3, <4>2, <4>3 DEF slotValue
    <3>4. CASE k.kind \notin {"uups", "transparent"} /\ j.kind # "legacy"
      <4>1. h["implementation"] = word(Zero) /\ h["legacyImplementation"] = word(Zero)
        BY <2>1, <2>2, <3>1, <3>4, Holds
      <4>2. slotRead(h, "implementation") = word(Zero)
        BY <2>2, <2>3, <4>1, LabelReads
      <4>3. CASE k.kind # "legacy"
        BY <1>2, <1>5, <2>1, <2>2, <3>4, <4>2, <4>3 DEF slotValue
      <4>4. CASE k.kind = "legacy"
        <5>1. j.kind = "none"
          BY <1>4, <2>1, <3>1, <3>4, <4>4
        <5> QED
          BY <1>2, <1>5, <3>1, <4>2, <5>1 DEF slotValue
      <4> QED
        BY <4>3, <4>4
    <3> QED
      BY <3>2, <3>3, <3>4
  <2>4. CASE "legacyImplementation" \notin DOMAIN h
    <3>1. h["implementation"] # word(Zero)
      BY <1>5, <2>4, SlotNames
    <3>2. k.kind \in {"uups", "transparent"} /\ h["implementation"] = word(k.implementation)
      BY <2>1, <2>2, <3>1, Holds
    <3>3. slotRead(h, "implementation") = h["implementation"]
      BY <2>2, <2>4, <3>1, LabelReads
    <3> QED
      BY <1>2, <1>5, <2>1, <3>2, <3>3 DEF slotValue
  <2> QED
    BY <2>3, <2>4
<1>6. CASE label = "admin"
  <2>1. PICK k \in Contract : <<n, k>> \in during /\ h["admin"] = holds(k, "admin")
    BY <1>1, <1>6, SlotNames
  <2>2. "admin" \in DOMAIN h
    BY <1>6, SlotNames
  <2>3. CASE "legacyAdmin" \in DOMAIN h
    <3>1. PICK j \in Contract : <<n, j>> \in during /\ h["legacyAdmin"] = holds(j, "legacyAdmin")
      BY <1>1, <2>3
    <3>2. CASE k.kind = "transparent"
      <4>1. h["admin"] = word("admin") /\ h["admin"] # word(Zero)
        BY <1>2, <2>1, <3>2, Holds
      <4>2. h["legacyAdmin"] = word(Zero)
        BY <1>4, <2>1, <3>1, <3>2, Holds
      <4>3. slotRead(h, "admin") = h["admin"]
        BY <2>2, <2>3, <4>1, <4>2, LabelReads
      <4> QED
        BY <1>2, <1>6, <2>1, <3>2, <4>1, <4>3 DEF slotValue
    <3>3. CASE k.kind # "transparent" /\ j.kind = "legacy"
      <4>1. h["admin"] = word(Zero)
        BY <2>1, <3>3, Holds
      <4>2. h["legacyAdmin"] = word("admin") /\ h["legacyAdmin"] # word(Zero)
        BY <1>2, <3>1, <3>3, Holds
      <4>3. slotRead(h, "admin") = h["legacyAdmin"]
        BY <2>2, <2>3, <4>1, <4>2, LabelReads
      <4> QED
        BY <1>2, <1>6, <3>1, <3>3, <4>2, <4>3 DEF slotValue
    <3>4. CASE k.kind # "transparent" /\ j.kind # "legacy"
      <4>1. h["admin"] = word(Zero) /\ h["legacyAdmin"] = word(Zero)
        BY <2>1, <3>1, <3>4, Holds
      <4>2. slotRead(h, "admin") = word(Zero)
        BY <2>2, <2>3, <4>1, LabelReads
      <4>3. CASE k.kind # "legacy"
        BY <1>2, <1>6, <2>1, <3>4, <4>2, <4>3 DEF slotValue
      <4>4. CASE k.kind = "legacy"
        <5>1. j.kind = "none"
          BY <1>4, <2>1, <3>1, <3>4, <4>4
        <5> QED
          BY <1>2, <1>6, <3>1, <4>2, <5>1 DEF slotValue
      <4> QED
        BY <4>3, <4>4
    <3> QED
      BY <3>2, <3>3, <3>4
  <2>4. CASE "legacyAdmin" \notin DOMAIN h
    <3>1. h["admin"] # word(Zero)
      BY <1>6, <2>4, SlotNames
    <3>2. k.kind = "transparent" /\ h["admin"] = word("admin")
      BY <2>1, <3>1, Holds
    <3>3. slotRead(h, "admin") = h["admin"]
      BY <2>2, <2>4, <3>1, LabelReads
    <3> QED
      BY <1>2, <1>6, <2>1, <3>2, <3>3 DEF slotValue
  <2> QED
    BY <2>3, <2>4
<1>7. CASE label = "beacon"
  <2>1. PICK k \in Contract : <<n, k>> \in during /\ h["beacon"] = holds(k, "beacon")
    BY <1>1, <1>7, SlotNames
  <2>2. slotRead(h, "beacon") = h["beacon"]
    BY <1>7, SlotNames, LabelReads
  <2>3. holds(k, "beacon") = slotValue(k, "beacon") /\ holds(k, "beacon").is = "word"
    BY <1>2, Holds DEF slotValue
  <2> QED
    BY <1>7, <2>1, <2>2, <2>3
<1> QED
  BY <1>5, <1>6, <1>7 DEF Label

-----------------------------------------------------------------------------
(* What a settled call says *)

\* What a reader skips, and why.
LEMMA Skipped ==
  ASSUME NEW h, NEW r, skips(h, r)
  PROVE  \/ r # "code" /\ "code" \in DOMAIN h /\ h["code"] = noCode
         \/ r = "legacyImplementation" /\ "implementation" \in DOMAIN h
              /\ h["implementation"] # word(Zero)
         \/ r = "legacyAdmin" /\ "admin" \in DOMAIN h /\ h["admin"] # word(Zero)
         \/ r = "anvil_metadata" /\ "hardhat_metadata" \in DOMAIN h
              /\ h["hardhat_metadata"].is # "no-answer"
BY SlotNames DEF skips, isEmptySlotWord

\* A failure says nothing of the contract, but that an empty slot was found.
LEMMA FailureSaysNothing ==
  ASSUME NEW o, NEW b, b # "broken-invariant", b # "not-found", NEW n, NEW k
  PROVE  saysTrue(o, rejects(b), n, k)
<1>1. rejects(b).end = "rejected" /\ rejects(b).because = b
  BY DEF rejects
<1> QED
  BY <1>1 DEF saysTrue

\* The answer of a reader of one label is true where it is what is in its slots.
LEMMA SlotAnswer ==
  ASSUME NEW o \in {"readImplementationAddress", "readAdminAddress", "readBeaconAddress"},
         NEW n, NEW k \in Contract, NEW v,
         v = slotValue(k, IF o = "readImplementationAddress" THEN "implementation"
                          ELSE IF o = "readAdminAddress" THEN "admin" ELSE "beacon")
  PROVE  /\ saysTrue(o, answers(v), n, k)
         /\ v = word(Zero) => saysTrue(o, rejects("not-found"), n, k)
<1> DEFINE label == IF o = "readImplementationAddress" THEN "implementation"
                    ELSE IF o = "readAdminAddress" THEN "admin" ELSE "beacon"
           slots == [l \in {"implementation", "admin", "beacon"} |->
                       slotRead([s \in Slot |-> holds(k, s)], l)]
<1>1. /\ answers(v).end = "resolved" /\ answers(v).with = v
      /\ rejects("not-found").end = "rejected" /\ rejects("not-found").because = "not-found"
  BY DEF answers, rejects
<1>2. label \in Label /\ slots[label] = slotRead([s \in Slot |-> holds(k, s)], label)
  BY DEF Label
<1>3. slots[label] = v
  BY <1>2, SlotsOf
<1>4. CASE o = "readImplementationAddress"
  <2>1. label = "implementation"
    BY <1>4
  <2>2. slots["implementation"] = v
    BY <1>3, <2>1
  <2> QED
    BY <1>1, <1>4, <2>2 DEF saysTrue
<1>5. CASE o = "readAdminAddress"
  <2>1. label = "admin"
    BY <1>5
  <2>2. slots["admin"] = v
    BY <1>3, <2>1
  <2> QED
    BY <1>1, <1>5, <2>2 DEF saysTrue
<1>6. CASE o = "readBeaconAddress"
  <2>1. label = "beacon"
    BY <1>6
  <2>2. slots["beacon"] = v
    BY <1>3, <2>1
  <2> QED
    BY <1>1, <1>6, <2>2 DEF saysTrue
<1> QED
  BY <1>4, <1>5, <1>6

\* What one node has told a reader of its slots.
LEMMA SlotsHeard ==
  ASSUME NEW n, NEW during, NEW h, Witnessed(h, n, during), ~inconsistent(h)
  PROVE  \A s \in Slot \cap DOMAIN h :
           /\ h[s].is = "word"
           /\ \E k \in Contract : <<n, k>> \in during /\ h[s] = holds(k, s)
<1> SUFFICES ASSUME NEW s \in Slot, s \in DOMAIN h
             PROVE  /\ h[s].is = "word"
                    /\ \E k \in Contract : <<n, k>> \in during /\ h[s] = holds(k, s)
  OBVIOUS
<1>1. h[s].is = "word"
  BY DEF inconsistent, looksLikeSlotAddressWord
<1>2. PICK k \in Contract : <<n, k>> \in during /\ h[s] \in Told(n, k, s)
  BY DEF Witnessed
<1>3. Told(n, k, s) = {holds(k, s)}
  BY DEF Told, Slot, MetadataRequest, ChainIdRequest
<1> QED
  BY <1>1, <1>2, <1>3

\* The readers of one label.
LEMMA LabelTrue ==
  ASSUME NEW o \in {"readImplementationAddress", "readAdminAddress", "readBeaconAddress"},
         NEW n, NEW during, OneKind(n, during), NEW h, Witnessed(h, n, during), ~inconsistent(h),
         ahead(o, h) = {}, DOMAIN h \subseteq Asked(o)
  PROVE  \E k \in Contract : <<n, k>> \in during /\ saysTrue(o, settles(o, h), n, k)
<1> DEFINE label == IF o = "readImplementationAddress" THEN "implementation"
                    ELSE IF o = "readAdminAddress" THEN "admin" ELSE "beacon"
<1>1. o \in Operation /\ Program[o] = slotsFor(label) /\ label \in Label
  BY Programs DEF slotsFor, Label
<1>2. /\ DOMAIN slotsFor(label) = IF label = "beacon" THEN {1} ELSE {1, 2}
      /\ "code" \notin Asked(o)
  <2>1. slotsFor(label) \in {<<"implementation", "legacyImplementation">>, <<"admin", "legacyAdmin">>,
                             <<"beacon">>}
    BY DEF slotsFor
  <2>2. DOMAIN slotsFor(label) = IF label = "beacon" THEN {1} ELSE {1, 2}
    BY DEF slotsFor
  <2>3. \A i \in DOMAIN slotsFor(label) : slotsFor(label)[i] # "code"
    BY <2>1
  <2> QED
    BY <1>1, <2>2, <2>3 DEF Asked
<1>3. "code" \notin DOMAIN h
  BY <1>2
<1>4. slotsFor(label)[1] \in DOMAIN h
  <2>1. slotsFor(label)[1] \in Asked(o)
    BY <1>1, <1>2 DEF Asked
  <2>2. ~skips(h, slotsFor(label)[1])
    BY <1>3, Skipped, SlotNames
  <2> QED
    BY <1>1, <2>1, <2>2, Finished
<1>5. label # "beacon" => \/ slotsFor(label)[2] \in DOMAIN h
                          \/ h[slotsFor(label)[1]] # word(Zero)
  <2> SUFFICES ASSUME label # "beacon", slotsFor(label)[2] \notin DOMAIN h
               PROVE  h[slotsFor(label)[1]] # word(Zero)
    OBVIOUS
  <2>1. slotsFor(label)[2] \in Asked(o)
    BY <1>1, <1>2 DEF Asked
  <2>2. skips(h, slotsFor(label)[2])
    BY <1>1, <2>1, Finished
  <2> QED
    BY <1>3, <2>2, Skipped, SlotNames
<1>6. \A s \in Slot \cap DOMAIN h :
        /\ h[s].is = "word"
        /\ \E k \in Contract : <<n, k>> \in during /\ h[s] = holds(k, s)
  BY SlotsHeard
<1> HIDE DEF label
<1>7. PICK k \in Contract : <<n, k>> \in during /\ slotRead(h, label) = slotValue(k, label)
  BY <1>1, <1>4, <1>5, <1>6, LabelRead
<1>8. settles(o, h) = IF o = "readAdminAddress" THEN answers(slotRead(h, label))
                      ELSE slotOrRefusal(h, label)
  BY DEF settles, label
<1>9. \/ settles(o, h) = answers(slotRead(h, label))
      \/ settles(o, h) = rejects("not-found") /\ slotRead(h, label) = word(Zero)
  BY <1>8 DEF slotOrRefusal, isEmptySlotWord
<1>10. /\ saysTrue(o, answers(slotRead(h, label)), n, k)
       /\ slotRead(h, label) = word(Zero) => saysTrue(o, rejects("not-found"), n, k)
  BY <1>7, SlotAnswer DEF label
<1> QED
  BY <1>7, <1>9, <1>10

\* A first request that is not the code's is made.
LEMMA FirstHeard ==
  ASSUME NEW o \in Operation, NEW h, ahead(o, h) = {}, NEW r \in Asked(o),
         r \notin {"legacyImplementation", "legacyAdmin", "anvil_metadata"},
         r = "code" \/ "code" \notin DOMAIN h \/ h["code"] # noCode
  PROVE  r \in DOMAIN h
<1>1. ~skips(h, r)
  BY Skipped
<1> QED
  BY <1>1, Finished

\* The readers of one request, and the network's id.
LEMMA OneRequestTrue ==
  ASSUME NEW o \in {"hasCode", "readUpgradeInterfaceVersion", "looksLikeProxyAdmin", "forNetwork"},
         NEW n, NEW during, NEW h, Witnessed(h, n, during),
         ahead(o, h) = {}, DOMAIN h \subseteq Asked(o)
  PROVE  \E k \in Contract : <<n, k>> \in during /\ saysTrue(o, settles(o, h), n, k)
<1> DEFINE boolean(b) == answers([is |-> "boolean", value |-> b])
           isTrue == [is |-> "boolean", value |-> TRUE]
<1>1. /\ boolean(TRUE).end # "rejected" /\ boolean(TRUE).with = isTrue
      /\ boolean(FALSE).end # "rejected" /\ boolean(FALSE).with # isTrue
  BY DEF answers
<1>2. o \in Operation
  BY Programs
<1>3. CASE o = "hasCode"
  <2>1. Program["hasCode"] = <<"code">>
    BY Programs
  <2>2. "code" \in Asked(o)
    BY <1>3, <2>1 DEF Asked
  <2>3. "code" \in DOMAIN h
    BY <1>2, <2>2, FirstHeard
  <2>4. PICK k \in Contract : <<n, k>> \in during /\ h["code"] \in Told(n, k, "code")
    BY <2>3 DEF Witnessed
  <2>5. h["code"] = IF k.kind = "none" THEN noCode ELSE someCode
    BY <2>4 DEF Told, ChainIdRequest, MetadataRequest
  <2>6. h["code"] # noCode <=> k.kind # "none"
    BY <2>5 DEF noCode, someCode
  <2>7. \A a : saysTrue(o, a, n, k)
          <=> IF a.end = "rejected" THEN saysTrue(o, a, n, k) ELSE a.with = isTrue <=> k.kind # "none"
    BY <1>3 DEF saysTrue
  <2>8. settles(o, h) = IF h["code"] # noCode THEN boolean(TRUE) ELSE boolean(FALSE)
    BY <1>3 DEF settles
  <2> HIDE DEF boolean, isTrue
  <2>9. saysTrue(o, settles(o, h), n, k)
    BY <1>1, <2>6, <2>7, <2>8
  <2> QED
    BY <2>4, <2>9
<1>4. CASE o = "readUpgradeInterfaceVersion"
  <2> DEFINE g == "UPGRADE_INTERFACE_VERSION()"
  <2>1. Program["readUpgradeInterfaceVersion"] = <<"UPGRADE_INTERFACE_VERSION()">>
    BY Programs
  <2>2. g \in Asked(o) /\ "code" \notin Asked(o)
    BY <1>4, <2>1 DEF Asked
  <2>3. g \in DOMAIN h
    BY <1>2, <2>2, FirstHeard
  <2>4. PICK k \in Contract : <<n, k>> \in during /\ h[g] \in Told(n, k, g)
    BY <2>3 DEF Witnessed
  <2>5. h[g] = saysOf(k, g)
    BY <2>4 DEF Told, ChainIdRequest, MetadataRequest, Slot
  <2>6. h[g] = string <=> k.kind \in {"proxyAdmin", "uups"}
    BY <2>5 DEF saysOf, string, noAnswer, otherHex, word
  <2>7. \A a : saysTrue(o, a, n, k)
          <=> IF a.end = "rejected" THEN saysTrue(o, a, n, k)
              ELSE a.with = isTrue <=> k.kind \in {"proxyAdmin", "uups"}
    BY <1>4 DEF saysTrue
  <2>8. settles(o, h) = IF h[g] = string THEN boolean(TRUE) ELSE boolean(FALSE)
    BY <1>4 DEF settles
  <2> HIDE DEF boolean, isTrue, g
  <2>9. saysTrue(o, settles(o, h), n, k)
    BY <1>1, <2>6, <2>7, <2>8
  <2> QED
    BY <2>4, <2>9
<1>5. CASE o = "looksLikeProxyAdmin"
  <2> DEFINE g == "owner()"
  <2>1. Program["looksLikeProxyAdmin"] = <<"owner()">>
    BY Programs
  <2>2. g \in Asked(o) /\ "code" \notin Asked(o)
    BY <1>5, <2>1 DEF Asked
  <2>3. g \in DOMAIN h
    BY <1>2, <2>2, FirstHeard
  <2>4. PICK k \in Contract : <<n, k>> \in during /\ h[g] \in Told(n, k, g)
    BY <2>3 DEF Witnessed
  <2>5. h[g] = saysOf(k, g)
    BY <2>4 DEF Told, ChainIdRequest, MetadataRequest, Slot
  <2>6. h[g].is = "word" <=> k.kind \in {"proxyAdmin", "beacon"}
    BY <2>5 DEF saysOf, string, noAnswer, otherHex, word
  <2>7. \A a : saysTrue(o, a, n, k)
          <=> IF a.end = "rejected" THEN saysTrue(o, a, n, k)
              ELSE a.with = isTrue <=> k.kind \in {"proxyAdmin", "beacon"}
    BY <1>5 DEF saysTrue
  <2>8. settles(o, h) = IF h[g].is = "word" THEN boolean(TRUE) ELSE boolean(FALSE)
    BY <1>5 DEF settles, looksLikeSlotAddressWord
  <2> HIDE DEF boolean, isTrue, g
  <2>9. saysTrue(o, settles(o, h), n, k)
    BY <1>1, <2>6, <2>7, <2>8
  <2> QED
    BY <2>4, <2>9
<1>6. CASE o = "forNetwork"
  <2>1. Program["forNetwork"] = <<ChainIdRequest, "hardhat_metadata", "anvil_metadata">>
    BY Programs
  <2>2. Asked(o) = {ChainIdRequest, "hardhat_metadata", "anvil_metadata"}
    BY <1>6, <2>1 DEF Asked
  <2>3. ChainIdRequest \in DOMAIN h
    BY <1>2, <2>2, FirstHeard DEF ChainIdRequest
  <2>4. PICK k \in Contract : <<n, k>> \in during /\ h[ChainIdRequest] \in Told(n, k, ChainIdRequest)
    BY <2>3 DEF Witnessed
  <2>5. h[ChainIdRequest] = quantity(chainIdOf[n])
    BY <2>4 DEF Told
  <2>6. ASSUME NEW r \in MetadataRequest \cap DOMAIN h PROVE h[r].is = "no-answer"
    <3>1. PICK j \in Contract : h[r] \in Told(n, j, r)
      BY DEF Witnessed
    <3>2. h[r] = noAnswer("failed")
      BY <3>1 DEF Told, MetadataRequest, ChainIdRequest
    <3> QED
      BY <3>2 DEF noAnswer
  <2>7. settles(o, h) = answers(quantity(chainIdOf[n]))
    BY <1>6, <2>5, <2>6 DEF settles, networkRead
  <2>8. saysTrue(o, settles(o, h), n, k)
    BY <1>6, <2>7 DEF saysTrue, answers
  <2> QED
    BY <2>4, <2>8
<1> QED
  BY <1>3, <1>4, <1>5, <1>6

\* An address without code is one where nothing stood when its code was asked for.
LEMMA NoCodeTrue ==
  ASSUME NEW o \in {"readProxySlots", "readBeaconImplementation"},
         NEW n, NEW during, NEW h, Witnessed(h, n, during), "code" \in DOMAIN h, h["code"] = noCode
  PROVE  \E k \in Contract : <<n, k>> \in during /\ saysTrue(o, settles(o, h), n, k)
<1>1. PICK k \in Contract : <<n, k>> \in during /\ h["code"] \in Told(n, k, "code")
  BY DEF Witnessed
<1>2. k.kind = "none"
  BY <1>1 DEF Told, ChainIdRequest, MetadataRequest, noCode, someCode
<1>3. settles(o, h) = answers(noCode)
  BY DEF settles, proxySlots, beaconRead
<1>4. saysTrue(o, answers(noCode), n, k)
  BY <1>2 DEF saysTrue, answers
<1> QED
  BY <1>1, <1>3, <1>4

\* The reader of a beacon: what has no implementation() is no beacon.
LEMMA BeaconTrue ==
  ASSUME NEW n, NEW during, NEW h, Witnessed(h, n, during),
         ahead("readBeaconImplementation", h) = {}
  PROVE  \E k \in Contract :
           <<n, k>> \in during
           /\ saysTrue("readBeaconImplementation", settles("readBeaconImplementation", h), n, k)
<1> DEFINE o == "readBeaconImplementation"
           g == "implementation()"
<1>1. o \in Operation /\ Program[o] = <<"code", g>>
  BY Programs
<1>2. "code" \in Asked(o) /\ g \in Asked(o)
  BY <1>1 DEF Asked
<1>3. "code" \in DOMAIN h
  BY <1>1, <1>2, FirstHeard
<1>4. CASE h["code"] = noCode
  BY <1>3, <1>4, NoCodeTrue
<1>5. CASE h["code"] # noCode
  <2>1. g \in DOMAIN h
    BY <1>1, <1>2, <1>5, FirstHeard
  <2>2. PICK k \in Contract : /\ <<n, k>> \in during /\ h[g] \in Told(n, k, g)
                              /\ k.kind # "none"
    BY <1>3, <1>5, <2>1 DEF Witnessed
  <2>3. h[g] = saysOf(k, g)
    BY <2>2 DEF Told, ChainIdRequest, MetadataRequest, Slot
  <2>4. CASE k.kind = "beacon"
    <3>1. h[g] = word(k.implementation) /\ h[g].is = "word" /\ h[g] # noCode
      BY <2>3, <2>4, Words DEF saysOf
    <3>2. settles(o, h) = answers(h[g])
      BY <1>5, <3>1 DEF settles, beaconRead, looksLikeSlotAddressWord
    <3>3. saysTrue(o, answers(h[g]), n, k)
      BY <2>4, <3>1 DEF saysTrue, answers
    <3> QED
      BY <2>2, <3>2, <3>3
  <2>5. CASE k.kind # "beacon"
    <3>1. h[g].is # "word"
      BY <2>3, <2>5 DEF saysOf, string, noAnswer, otherHex
    <3>2. settles(o, h) = answers([is |-> "not-a-beacon"])
      BY <1>5, <3>1 DEF settles, beaconRead, looksLikeSlotAddressWord
    <3>3. [is |-> "not-a-beacon"].is = "not-a-beacon" /\ noCode.is = "0x"
      BY DEF noCode
    <3>4. answers([is |-> "not-a-beacon"]).end = "resolved"
          /\ answers([is |-> "not-a-beacon"]).with = [is |-> "not-a-beacon"]
      BY DEF answers
    <3>5. saysTrue(o, answers([is |-> "not-a-beacon"]), n, k)
      BY <2>2, <2>5, <3>3, <3>4 DEF saysTrue
    <3> QED
      BY <2>2, <3>2, <3>5
  <2> QED
    BY <2>4, <2>5
<1> QED
  BY <1>4, <1>5

\* The reader of all slots, in up to six requests: what it returns was in the slots of
\* one contract that stood there, the one its implementation was read of.
LEMMA ProxySlotsTrue ==
  ASSUME NEW n, NEW during, OneKind(n, during), NEW h, Witnessed(h, n, during), ~inconsistent(h),
         ahead("readProxySlots", h) = {}
  PROVE  \E k \in Contract :
           <<n, k>> \in during /\ saysTrue("readProxySlots", settles("readProxySlots", h), n, k)
<1> DEFINE o == "readProxySlots"
           there == {x \in during : x[2].kind # "none"}
<1>1. /\ o \in Operation
      /\ Program[o] = <<"code", "implementation", "legacyImplementation", "admin", "legacyAdmin", "beacon">>
  BY Programs
<1>2. /\ "code" \in Asked(o) /\ "implementation" \in Asked(o) /\ "legacyImplementation" \in Asked(o)
      /\ "admin" \in Asked(o) /\ "legacyAdmin" \in Asked(o) /\ "beacon" \in Asked(o)
  <2>1. DOMAIN Program[o] = 1..6
    BY <1>1
  <2>2. \A i \in 1..6 : Program[o][i] \in Asked(o)
    BY <2>1 DEF Asked
  <2>3. /\ Program[o][1] = "code" /\ Program[o][2] = "implementation"
        /\ Program[o][3] = "legacyImplementation" /\ Program[o][4] = "admin"
        /\ Program[o][5] = "legacyAdmin" /\ Program[o][6] = "beacon"
    BY <1>1
  <2> HIDE DEF o
  <2>4. 1 \in 1..6 /\ 2 \in 1..6 /\ 3 \in 1..6 /\ 4 \in 1..6 /\ 5 \in 1..6 /\ 6 \in 1..6
    OBVIOUS
  <2> QED
    BY <2>2, <2>3, <2>4
<1>3. "code" \in DOMAIN h
  BY <1>1, <1>2, FirstHeard
<1>4. CASE h["code"] = noCode
  BY <1>3, <1>4, NoCodeTrue
<1>5. CASE h["code"] # noCode
  <2>1. "implementation" \in DOMAIN h /\ "admin" \in DOMAIN h /\ "beacon" \in DOMAIN h
    BY <1>1, <1>2, <1>5, FirstHeard
  <2>2. /\ "legacyImplementation" \in DOMAIN h \/ h["implementation"] # word(Zero)
        /\ "legacyAdmin" \in DOMAIN h \/ h["admin"] # word(Zero)
    <3>1. ASSUME "legacyImplementation" \notin DOMAIN h PROVE h["implementation"] # word(Zero)
      <4>1. skips(h, "legacyImplementation")
        BY <1>1, <1>2, <3>1, Finished
      <4> QED
        BY <1>5, <4>1, Skipped
    <3>2. ASSUME "legacyAdmin" \notin DOMAIN h PROVE h["admin"] # word(Zero)
      <4>1. skips(h, "legacyAdmin")
        BY <1>1, <1>2, <3>2, Finished
      <4> QED
        BY <1>5, <4>1, Skipped
    <3> QED
      BY <3>1, <3>2
  <2>3. Witnessed(h, n, there) /\ OneKind(n, there)
    <3>1. \A k \in Contract : <<n, k>> \in there <=> <<n, k>> \in during /\ k.kind # "none"
      OBVIOUS
    <3> HIDE DEF there
    <3>2. Witnessed(h, n, there)
      BY <1>3, <1>5, <3>1 DEF Witnessed
    <3>3. OneKind(n, there)
      BY <3>1 DEF OneKind
    <3> QED
      BY <3>2, <3>3
  <2>4. \A k \in Contract : <<n, k>> \in there => <<n, k>> \in during /\ k.kind # "none"
    OBVIOUS
  <2> HIDE DEF there
  <2>5. \A s \in Slot \cap DOMAIN h :
          /\ h[s].is = "word"
          /\ \E k \in Contract : <<n, k>> \in there /\ h[s] = holds(k, s)
    <3>1. Witnessed(h, n, there)
      BY <2>3
    <3>2. ~inconsistent(h)
      OBVIOUS
    <3> QED
      BY ONLY <3>1, <3>2, SlotsHeard
  <2>6. PICK k \in Contract : /\ <<n, k>> \in there
                              /\ slotRead(h, "implementation") = slotValue(k, "implementation")
    BY <2>1, <2>2, <2>3, <2>5, LabelRead, SlotNames
  <2>7. PICK i \in Contract : <<n, i>> \in there /\ slotRead(h, "admin") = slotValue(i, "admin")
    BY <2>1, <2>2, <2>3, <2>5, LabelRead, SlotNames
  <2>8. PICK j \in Contract : <<n, j>> \in there /\ slotRead(h, "beacon") = slotValue(j, "beacon")
    BY <2>1, <2>3, <2>5, LabelRead, SlotNames
  <2>9. k.kind = i.kind /\ k.kind = j.kind /\ k.kind # "none"
    BY <2>3, <2>4, <2>6, <2>7, <2>8 DEF OneKind
  <2>10. slotRead(h, "admin") = slotValue(k, "admin") /\ slotRead(h, "beacon") = slotValue(k, "beacon")
    BY <2>7, <2>8, <2>9 DEF slotValue
  <2> DEFINE a == [is |-> "slots", implementation |-> slotRead(h, "implementation"),
                   admin |-> slotRead(h, "admin"), beacon |-> slotRead(h, "beacon")]
             slots == [l \in {"implementation", "admin", "beacon"} |->
                         slotRead([s \in Slot |-> holds(k, s)], l)]
  <2>11. settles(o, h) = answers(a)
    BY <1>5 DEF settles, proxySlots
  <2>12. a # noCode /\ answers(a).end = "resolved" /\ answers(a).with = a
    <3>1. a.is = "slots" /\ noCode.is = "0x"
      BY DEF noCode
    <3> HIDE DEF a
    <3> QED
      BY <3>1 DEF answers
  <2>13. DOMAIN slots = Label /\ \A l \in Label : a[l] = slots[l]
    <3>1. \A l \in Label : slots[l] = slotValue(k, l)
      BY SlotsOf DEF Label
    <3>2. DOMAIN slots = Label
      BY DEF Label
    <3>3. /\ a["implementation"] = slotValue(k, "implementation")
          /\ a["admin"] = slotValue(k, "admin") /\ a["beacon"] = slotValue(k, "beacon")
      BY <2>6, <2>10
    <3> HIDE DEF a, slots
    <3> QED
      BY <3>1, <3>2, <3>3 DEF Label
  <2>14. saysTrue(o, answers(a), n, k)
    <3>1. k.kind # "none" /\ \A l \in DOMAIN slots : answers(a).with[l] = slots[l]
      BY <2>9, <2>12, <2>13
    <3> HIDE DEF a
    <3> QED
      BY <2>12, <3>1 DEF saysTrue
  <2> QED
    BY <2>4, <2>6, <2>11, <2>14
<1> QED
  BY <1>4, <1>5

\* Whatever a reader returns of the answers of one node was so of a contract that stood
\* there during the call.
LEMMA SettlesTrue ==
  ASSUME NEW o \in Operation, o # "identity",
         NEW n, NEW during, OneKind(n, during), NEW h, Witnessed(h, n, during), ~inconsistent(h),
         ahead(o, h) = {}, DOMAIN h \subseteq Asked(o)
  PROVE  \E k \in Contract : <<n, k>> \in during /\ saysTrue(o, settles(o, h), n, k)
<1>1. CASE o \in {"readImplementationAddress", "readAdminAddress", "readBeaconAddress"}
  BY <1>1, LabelTrue
<1>2. CASE o \in {"hasCode", "readUpgradeInterfaceVersion", "looksLikeProxyAdmin", "forNetwork"}
  BY <1>2, OneRequestTrue
<1>3. CASE o = "readBeaconImplementation"
  BY <1>3, BeaconTrue
<1>4. CASE o = "readProxySlots"
  BY <1>4, ProxySlotsTrue
<1> QED
  BY <1>1, <1>2, <1>3, <1>4, Programs

\* An identity is that of the network of the node that gave its genesis block: the chain
\* id of another network does not pass the cross-check.
LEMMA IdentityOfOne ==
  ASSUME NEW h, FromNodes(h), ahead("identity", h) = {}, DOMAIN h \subseteq Asked("identity")
  PROVE  /\ settles("identity", h).end = "resolved"
         /\ \E n \in Node : /\ settles("identity", h).with.chainId = chainIdOf[n]
                            /\ settles("identity", h).with.genesisHash = genesisOf[n]
<1>1. "identity" \in Operation /\ Program["identity"] = <<ChainIdRequest, "block0", "block1">>
  BY Programs
<1>2. Asked("identity") = {ChainIdRequest, "block0", "block1"}
  BY <1>1 DEF Asked
<1>3. ChainIdRequest \in DOMAIN h /\ "block0" \in DOMAIN h
  BY <1>1, <1>2, FirstHeard DEF ChainIdRequest
<1>4. PICK n \in Node : h["block0"] = block(genesisOf[n])
  BY <1>3 DEF FromNodes, Told, ChainIdRequest
<1>5. PICK m \in Node : h[ChainIdRequest] = quantity(chainIdOf[m])
  BY <1>3 DEF FromNodes, Told
<1>6. h["block0"].hash = genesisOf[n] /\ h[ChainIdRequest].id = chainIdOf[m]
  BY <1>4, <1>5 DEF block, quantity
<1>7. tailOf[genesisOf[n]] = chainIdOf[m]
  BY <1>3, <1>6 DEF FromNodes, inconsistent
<1>8. chainIdOf[m] = chainIdOf[n]
  BY <1>7, ChainAssumption
<1>9. settles("identity", h) = answers([is |-> "identity", chainId |-> h[ChainIdRequest].id,
                                        genesisHash |-> h["block0"].hash, firstBlock |-> h["block1"]])
  BY DEF settles, identityRead
<1> QED
  BY <1>6, <1>8, <1>9 DEF answers

-----------------------------------------------------------------------------
(* One answer more *)

\* What a reader holds then.
LEMMA OneMore ==
  ASSUME NEW o \in Operation, NEW h, ahead(o, h) # {}, InOrder(o, h), FromNodes(h),
         NEW n \in Node, NEW k \in Contract, NEW v \in Told(n, k, nextRequest(o, h))
  PROVE  LET g == withAnswer(h, nextRequest(o, h), v)
         IN  /\ InOrder(o, g)
             /\ \A r \in DOMAIN g : g[r] \in Value /\ \E m \in Node : \E j \in Contract : g[r] \in Told(m, j, r)
             /\ \A during :
                  /\ <<n, k>> \in during
                  /\ \A j \in Contract : <<n, j>> \in during => j.kind \in {"none", k.kind}
                  /\ Witnessed(h, n, during)
                  => Witnessed(g, n, during)
<1> DEFINE r == nextRequest(o, h)
           g == withAnswer(h, r, v)
<1>1. /\ r \in Asked(o) /\ r \notin DOMAIN h
      /\ "code" \in Asked(o) /\ "code" \notin DOMAIN h => r = "code"
  BY Asking
<1> HIDE DEF r
<1>2. DOMAIN g = DOMAIN h \cup {r} /\ g[r] = v /\ \A q \in DOMAIN h : g[q] = h[q]
  BY <1>1 DEF withAnswer
<1>3. v \in Told(n, k, r)
  BY DEF r
<1> HIDE DEF g
<1>4. InOrder(o, g)
  BY <1>1, <1>2 DEF InOrder
<1>5. \A q \in DOMAIN g : \E m \in Node : \E j \in Contract : g[q] \in Told(m, j, q)
  <2> SUFFICES ASSUME NEW q \in DOMAIN g
               PROVE  \E m \in Node : \E j \in Contract : g[q] \in Told(m, j, q)
    OBVIOUS
  <2>1. CASE q = r
    BY <1>2, <1>3, <2>1
  <2>2. CASE q # r
    BY <1>2, <2>2 DEF FromNodes
  <2> QED
    BY <2>1, <2>2
<1>6. \A q \in DOMAIN g : g[q] \in Value
  <2> SUFFICES ASSUME NEW q \in DOMAIN g PROVE g[q] \in Value
    OBVIOUS
  <2>1. q \in Request
    BY <1>4, ProgramShape DEF InOrder
  <2>2. PICK m \in Node : \E j \in Contract : g[q] \in Told(m, j, q)
    BY <1>5
  <2>3. PICK j \in Contract : g[q] \in Told(m, j, q)
    BY <2>2
  <2> QED
    BY <2>1, <2>3, ToldIsDeclared
<1>7. ASSUME NEW during, <<n, k>> \in during, Witnessed(h, n, during),
             \A j \in Contract : <<n, j>> \in during => j.kind \in {"none", k.kind}
      PROVE  Witnessed(g, n, during)
  <2>1. ASSUME "code" \in DOMAIN h, h["code"] # noCode PROVE k.kind # "none"
    <3>1. PICK j \in Contract : <<n, j>> \in during /\ j.kind # "none"
      BY <1>7, <2>1 DEF Witnessed
    <3> QED
      BY <1>7, <3>1
  <2> SUFFICES ASSUME NEW q \in DOMAIN g
               PROVE  \E j \in Contract : /\ <<n, j>> \in during /\ g[q] \in Told(n, j, q)
                                          /\ "code" \in DOMAIN g /\ g["code"] # noCode => j.kind # "none"
    BY DEF Witnessed
  <2>2. CASE q = r
    <3>1. "code" \in DOMAIN g /\ g["code"] # noCode => k.kind # "none"
      <4>1. CASE r = "code"
        <5>1. v = IF k.kind = "none" THEN noCode ELSE someCode
          BY <1>3, <4>1 DEF Told, ChainIdRequest, MetadataRequest
        <5> QED
          BY <1>2, <4>1, <5>1
      <4>2. CASE r # "code"
        BY <1>2, <2>1, <4>2
      <4> QED
        BY <4>1, <4>2
    <3> QED
      BY <1>2, <1>3, <1>7, <2>2, <3>1
  <2>3. CASE q # r
    <3>1. q \in DOMAIN h /\ g[q] = h[q]
      BY <1>2, <2>3
    <3>2. PICK j \in Contract : /\ <<n, j>> \in during /\ h[q] \in Told(n, j, q)
                                /\ "code" \in DOMAIN h /\ h["code"] # noCode => j.kind # "none"
      BY <1>7, <3>1 DEF Witnessed
    <3>3. r # "code"
      BY <1>1, <3>1 DEF InOrder
    <3> QED
      BY <1>2, <3>1, <3>2, <3>3
  <2> QED
    BY <2>2, <2>3
<1> QED
  BY <1>4, <1>5, <1>6, <1>7 DEF g, r

\* Errors of the layers below are none of the readers'.
LEMMA NodeErrors ==
  ASSUME NEW e \in Errors \cup {"inconsistent"}
  PROVE  /\ e # "broken-invariant" /\ e # "not-found"
         /\ rejects(e).end = "rejected" /\ rejects(e) # Pending
BY DEF Errors, rejects, Pending

\* A reader that has all its answers settles.
LEMMA Settlement ==
  ASSUME NEW o \in Operation, NEW h
  PROVE  settles(o, h).end \in {"resolved", "rejected"} /\ settles(o, h) # Pending
<1>1. /\ \A a : answers(a).end = "resolved"
      /\ \A b : rejects(b).end = "rejected"
      /\ Pending.end = "pending"
  BY DEF answers, rejects, Pending
<1>2. \/ \E a : settles(o, h) = answers(a)
      \/ \E b : settles(o, h) = rejects(b)
  <2>1. CASE o \in {"hasCode", "readUpgradeInterfaceVersion", "looksLikeProxyAdmin", "readAdminAddress"}
    BY <2>1 DEF settles
  <2>2. CASE o \in {"readImplementationAddress", "readBeaconAddress"}
    BY <2>2 DEF settles, slotOrRefusal
  <2>3. CASE o = "readProxySlots"
    BY <2>3 DEF settles, proxySlots
  <2>4. CASE o = "readBeaconImplementation"
    BY <2>4 DEF settles, beaconRead
  <2>5. CASE o \in {"identity", "forNetwork"}
    BY <2>5 DEF settles, identityRead, networkRead
  <2> QED
    BY <2>1, <2>2, <2>3, <2>4, <2>5, Programs
<1>3. settles(o, h).end \in {"resolved", "rejected"}
  BY <1>1, <1>2
<1> QED
  BY <1>1, <1>3

-----------------------------------------------------------------------------
(* The invariant holds at first, and after each step *)

\* No ChainAccess yet, and no call.
LEMMA InitChain == ASSUME Init PROVE ChainInv
<1>1. /\ operation \in [Caller -> Operation \cup {"none"}]
      /\ \A c \in Caller : /\ operation[c] = "none" /\ heard[c] = << >> /\ outcome[c] = Pending
                           /\ answeredBy[c] = {} /\ meanwhile[c] = {}
      /\ heard = [c \in Caller |-> heard[c]] /\ outcome = [c \in Caller |-> outcome[c]]
      /\ answeredBy \in [Caller -> SUBSET Node]
      /\ meanwhile \in [Caller -> SUBSET (Node \X Contract)]
      /\ contract \in [Node -> Contract] /\ mined \in [Node -> BOOLEAN] /\ memo = NoOne
  BY DEF Init, Contract
<1>2. \A c \in Caller : IsFiniteSet(answeredBy[c])
  BY <1>1, FS_EmptySet
<1>3. /\ config \in Config /\ access = "none" /\ post = "none" /\ changes \in 0..MaxChanges
      /\ Pending.end = "pending"
  BY ChainAssumption DEF Init, Pending
<1>4. ChainTypes
  <2>1. post \in {"none", "injected", "handle", "fetch"}
    BY <1>3
  <2> QED
    BY <1>1, <1>2, <1>3, <2>1 DEF ChainTypes
<1>5. Memoized
  BY <1>1 DEF Memoized, awaitsMemo
<1>6. ASSUME NEW c \in Caller PROVE CallerInv(c)
  <2>1. Holding(c)
    BY <1>1 DEF Holding, Underway
  <2>2. Watching(c)
    BY <1>1 DEF Watching
  <2>3. Truthful(c)
    BY <1>1 DEF Truthful
  <2> QED
    BY <2>1, <2>2, <2>3 DEF CallerInv
<1> QED
  BY <1>4, <1>5, <1>6 DEF ChainInv

\* What a step leaves alone of a caller, it leaves true.
LEMMA Aside ==
  ASSUME NEW c \in Caller, CallerInv(c), operation'[c] = operation[c], heard'[c] = heard[c],
         outcome'[c] = outcome[c], answeredBy'[c] = answeredBy[c], meanwhile'[c] = meanwhile[c],
         awaitsMemo(c)' = awaitsMemo(c), contract' = contract
  PROVE  CallerInv(c)'
<1>1. Underway(c)' = Underway(c)
  BY DEF Underway
<1>2. Holding(c)'
  BY <1>1 DEF CallerInv, Holding
<1>3. Watching(c)'
  BY DEF CallerInv, Watching
<1>4. Truthful(c)'
  BY DEF CallerInv, Truthful
<1> QED
  BY <1>2, <1>3, <1>4 DEF CallerInv

\* A step that makes and answers no call, while no contract changes.
LEMMA NoCallStep ==
  ASSUME ChainInv, UNCHANGED callVars, UNCHANGED <<contract, changes, meanwhile>>,
         config' \in Config, access' \in {"none", "resolved", "ready", "refused"},
         post' \in {"none", "injected", "handle", "fetch"}, mined' \in [Node -> BOOLEAN]
  PROVE  ChainInv'
<1>1. UNCHANGED <<operation, heard, outcome, memo, answeredBy>>
  BY DEF callVars
<1>2. \A c \in Caller : awaitsMemo(c)' = awaitsMemo(c)
  BY <1>1 DEF awaitsMemo
<1>3. ChainTypes'
  BY <1>1 DEF ChainInv, ChainTypes
<1>4. Memoized'
  BY <1>1 DEF ChainInv, Memoized, awaitsMemo
<1>5. \A c \in Caller : CallerInv(c)'
  BY <1>1, <1>2, Aside DEF ChainInv
<1> QED
  BY <1>3, <1>4, <1>5 DEF ChainInv

\* The endpoint is chosen, and given its transport.
LEMMA ResolveEndpointStep == ASSUME ChainInv, ResolveEndpoint PROVE ChainInv'
<1>1. used \in Config
  BY DEF used, Config, Source
<1>2. selectPost(config) \in {"none", "injected", "handle", "fetch"}
  BY DEF selectPost
<1>3. /\ config' \in Config /\ access' \in {"none", "resolved", "ready", "refused"}
      /\ post' \in {"none", "injected", "handle", "fetch"} /\ mined' \in [Node -> BOOLEAN]
      /\ UNCHANGED callVars /\ UNCHANGED <<contract, changes, meanwhile>>
  BY <1>1, <1>2 DEF ResolveEndpoint, chainVars, ChainInv, ChainTypes
<1> QED
  BY <1>3, NoCallStep

\* The chain is probed once.
LEMMA ProbeStep == ASSUME ChainInv, ProbeJsonRpc PROVE ChainInv'
<1>1. /\ config' \in Config /\ access' \in {"none", "resolved", "ready", "refused"}
      /\ post' \in {"none", "injected", "handle", "fetch"} /\ mined' \in [Node -> BOOLEAN]
      /\ UNCHANGED callVars /\ UNCHANGED <<contract, changes, meanwhile>>
  BY DEF ProbeJsonRpc, chainVars, ChainInv, ChainTypes
<1> QED
  BY <1>1, NoCallStep

\* A first block is produced.
LEMMA MineStep == ASSUME ChainInv, NEW n \in Node, MineFirstBlock(n) PROVE ChainInv'
<1>1. /\ config' \in Config /\ access' \in {"none", "resolved", "ready", "refused"}
      /\ post' \in {"none", "injected", "handle", "fetch"} /\ mined' \in [Node -> BOOLEAN]
      /\ UNCHANGED callVars /\ UNCHANGED <<contract, changes, meanwhile>>
  BY DEF MineFirstBlock, factoryVars, ChainInv, ChainTypes
<1> QED
  BY <1>1, NoCallStep

\* A call starts: the contracts that stand there are noted.
LEMMA CallStep == ASSUME ChainInv, NEW c \in Caller, Call(c) PROVE ChainInv'
<1>1. PICK op \in Operation :
        /\ operation' = [operation EXCEPT ![c] = op]
        /\ memo' = IF op = "identity" /\ memo = NoOne THEN c ELSE memo
  BY DEF Call
<1>2. /\ operation[c] = "none" /\ "none" \notin Operation
      /\ meanwhile' = [meanwhile EXCEPT ![c] = {<<n, contract[n]>> : n \in Node}]
      /\ UNCHANGED <<config, access, post, heard, outcome, answeredBy, contract, mined, changes>>
  BY Programs DEF Call, factoryVars, chainVars
<1>3. /\ ChainTypes /\ Memoized /\ \A d \in Caller : CallerInv(d)
      /\ operation \in [Caller -> Operation \cup {"none"}]
      /\ meanwhile \in [Caller -> SUBSET (Node \X Contract)] /\ contract \in [Node -> Contract]
  BY DEF ChainInv, ChainTypes
<1>4. /\ operation' \in [Caller -> Operation \cup {"none"}] /\ operation'[c] = op
      /\ \A d \in Caller : d # c => operation'[d] = operation[d]
  BY <1>1, <1>3
<1>5. /\ meanwhile' \in [Caller -> SUBSET (Node \X Contract)]
      /\ meanwhile'[c] = {<<n, contract[n]>> : n \in Node}
      /\ \A d \in Caller : d # c => meanwhile'[d] = meanwhile[d]
  <2>1. {<<n, contract[n]>> : n \in Node} \in SUBSET (Node \X Contract)
    BY <1>3
  <2> QED
    BY <1>2, <1>3, <2>1
<1>6. ChainTypes'
  <2>1. memo' \in Caller \cup {NoOne}
    BY <1>1, <1>3 DEF ChainTypes
  <2> QED
    BY <1>2, <1>3, <1>4, <1>5, <2>1 DEF ChainTypes
<1>7. /\ heard[c] = << >> /\ outcome[c] = Pending /\ answeredBy[c] = {}
  BY <1>2, <1>3 DEF CallerInv, Holding, Underway
<1>8. NoOne \notin Caller
  BY ChainAssumption
<1>9. memo' # memo => memo = NoOne /\ memo' = c /\ op = "identity"
  BY <1>1
<1>10. \A d \in Caller : d # c => awaitsMemo(d)' = awaitsMemo(d)
  <2> SUFFICES ASSUME NEW d \in Caller, d # c PROVE awaitsMemo(d)' = awaitsMemo(d)
    OBVIOUS
  <2>1. CASE memo' = memo
    BY <1>4, <2>1 DEF awaitsMemo
  <2>2. CASE memo' # memo
    <3>1. operation[d] # "identity" /\ operation'[d] # "identity"
      BY <1>3, <1>4, <1>9, <2>2 DEF Memoized
    <3> QED
      BY <3>1 DEF awaitsMemo
  <2> QED
    BY <2>1, <2>2
<1>11. Memoized'
  <2>1. memo' = NoOne <=> \A d \in Caller : operation'[d] # "identity"
    <3>1. CASE op = "identity"
      BY <1>1, <1>3, <1>4, <1>8, <3>1 DEF Memoized
    <3>2. CASE op # "identity"
      <4>1. memo' = memo /\ operation[c] # "identity"
        BY <1>1, <1>2, <3>2
      <4>2. \A d \in Caller : operation'[d] = "identity" <=> operation[d] = "identity"
        BY <1>4, <3>2, <4>1
      <4> QED
        BY <1>3, <4>1, <4>2 DEF Memoized
    <3> QED
      BY <3>1, <3>2
  <2>2. memo' # NoOne => memo' \in Caller /\ operation'[memo'] = "identity"
    <3>1. CASE memo' = memo
      BY <1>2, <1>3, <1>4, <3>1 DEF Memoized
    <3>2. CASE memo' # memo
      BY <1>4, <1>9, <3>2
    <3> QED
      BY <3>1, <3>2
  <2>3. ASSUME NEW d \in Caller, awaitsMemo(d)', outcome[d] # Pending
        PROVE  outcome[d] = outcome[memo']
    <3>1. d # c
      BY <1>7, <2>3
    <3>2. awaitsMemo(d)
      BY <1>10, <2>3, <3>1
    <3>3. memo' = memo
      BY <1>3, <1>9, <3>2 DEF awaitsMemo, Memoized
    <3> QED
      BY <1>3, <2>3, <3>2, <3>3 DEF Memoized
  <2> QED
    BY <1>2, <2>1, <2>2, <2>3 DEF Memoized
<1>12. ASSUME NEW d \in Caller PROVE CallerInv(d)'
  <2>1. CASE d # c
    BY <1>2, <1>3, <1>4, <1>5, <1>10, <2>1, Aside
  <2>2. CASE d = c
    <3>1. /\ heard'[c] = << >> /\ outcome'[c] = Pending /\ answeredBy'[c] = {} /\ operation'[c] # "none"
      BY <1>2, <1>4, <1>7
    <3>2. /\ ahead(op, << >>) # {} /\ InOrder(op, << >>) /\ FromNodes(<< >>)
          /\ \A n, during : Witnessed(<< >>, n, during)
      BY AllAhead
    <3>3. Holding(c)'
      <4>1. \A n \in Node : Witnessed(heard'[c], n, meanwhile'[c])
        BY <3>1, <3>2
      <4>2. /\ ahead(operation'[c], heard'[c]) # {} /\ InOrder(operation'[c], heard'[c])
            /\ FromNodes(heard'[c])
        BY <1>4, <3>1, <3>2
      <4> QED
        BY <3>1, <4>1, <4>2 DEF Holding
    <3>4. Watching(c)'
      <4>1. contract' = contract
        BY <1>2
      <4>2. \A n \in Node : <<n, contract[n]>> \in meanwhile'[c]
        BY <1>5
      <4>3. \A n \in Node : \A k \in Contract :
              <<n, k>> \in meanwhile'[c] => k.kind \in {"none", contract[n].kind}
        BY <1>5
      <4> QED
        BY <4>1, <4>2, <4>3 DEF Watching
    <3>5. Truthful(c)'
      BY <3>1 DEF Truthful
    <3> QED
      BY <2>2, <3>3, <3>4, <3>5 DEF CallerInv
  <2> QED
    BY <2>1, <2>2
<1> QED
  BY <1>6, <1>11, <1>12 DEF ChainInv

\* A call of identity() settles as the one that read for it.
LEMMA JoinStep == ASSUME ChainInv, NEW c \in Caller, Join(c) PROVE ChainInv'
<1>1. /\ awaitsMemo(c) /\ outcome[c] = Pending /\ outcome[memo] # Pending
      /\ outcome' = [outcome EXCEPT ![c] = outcome[memo]]
      /\ UNCHANGED <<config, access, post, operation, heard, memo, answeredBy, contract, mined,
                     changes, meanwhile>>
  BY DEF Join, factoryVars, chainVars
<1>2. ChainTypes /\ Memoized /\ \A d \in Caller : CallerInv(d)
  BY DEF ChainInv
<1>3. /\ operation[c] = "identity" /\ memo # c /\ memo \in Caller /\ operation[memo] = "identity"
  BY <1>1, <1>2 DEF awaitsMemo, Memoized
<1>4. /\ outcome' = [d \in Caller |-> outcome'[d]] /\ outcome'[c] = outcome[memo]
      /\ \A d \in Caller : d # c => outcome'[d] = outcome[d]
  BY <1>1, <1>2 DEF ChainTypes
<1>5. \A d \in Caller : awaitsMemo(d)' = awaitsMemo(d)
  BY <1>1 DEF awaitsMemo
<1>6. ChainTypes'
  BY <1>1, <1>2, <1>3, <1>4 DEF ChainTypes
<1>7. Memoized'
  <2>1. ASSUME NEW d \in Caller, awaitsMemo(d), outcome'[d] # Pending
        PROVE  outcome'[d] = outcome'[memo]
    <3>1. CASE d = c
      BY <1>3, <1>4, <3>1
    <3>2. CASE d # c
      BY <1>2, <1>3, <1>4, <2>1, <3>2 DEF Memoized
    <3> QED
      BY <3>1, <3>2
  <2> QED
    BY <1>1, <1>2, <1>5, <2>1 DEF Memoized
<1>8. ASSUME NEW d \in Caller PROVE CallerInv(d)'
  <2>1. CASE d # c
    BY <1>1, <1>2, <1>4, <1>5, <2>1, Aside
  <2>2. CASE d = c
    <3>1. ~Underway(c) /\ ~Underway(c)'
      BY <1>1, <1>5 DEF Underway
    <3>2. Holding(c)'
      BY <1>1, <1>2, <1>3, <1>5, <3>1 DEF CallerInv, Holding
    <3>3. Watching(c)'
      BY <1>1, <1>2, <1>4 DEF CallerInv, Watching
    <3>4. Truthful(c)'
      <4>1. Truthful(memo)
        BY <1>2, <1>3 DEF CallerInv
      <4>2. outcome[memo].end = "resolved" =>
              \E n \in Node : /\ outcome[memo].with.chainId = chainIdOf[n]
                              /\ outcome[memo].with.genesisHash = genesisOf[n]
        BY <1>1, <1>3, <4>1 DEF Truthful
      <4> QED
        BY <1>1, <1>3, <1>4, <4>2 DEF Truthful
    <3> QED
      BY <2>2, <3>2, <3>3, <3>4 DEF CallerInv
  <2> QED
    BY <2>1, <2>2
<1> QED
  BY <1>6, <1>7, <1>8 DEF ChainInv

\* Something is deployed or upgraded: what is of its kind now was so before, and every
\* call under way notes it.
LEMMA ChangeStep == ASSUME ChainInv, NEW n \in Node, ChangeContract(n) PROVE ChainInv'
<1>1. PICK k \in Contract :
        /\ k \notin {nothing, contract[n]}
        /\ contract[n].kind \in {"none", k.kind}
        /\ contract' = [contract EXCEPT ![n] = k]
        /\ meanwhile' = [c \in Caller |->
             IF operation[c] # "none" /\ outcome[c] = Pending
             THEN meanwhile[c] \cup {<<n, k>>} ELSE meanwhile[c]]
  BY DEF ChangeContract
<1>2. /\ changes < MaxChanges /\ changes' = changes + 1
      /\ UNCHANGED <<config, access, post, operation, heard, outcome, memo, answeredBy, mined>>
  BY DEF ChangeContract, factoryVars, callVars
<1>3. /\ ChainTypes /\ Memoized /\ \A d \in Caller : CallerInv(d)
      /\ meanwhile \in [Caller -> SUBSET (Node \X Contract)] /\ contract \in [Node -> Contract]
  BY DEF ChainInv, ChainTypes
<1>4. /\ contract' \in [Node -> Contract] /\ contract'[n] = k
      /\ \A m \in Node : m # n => contract'[m] = contract[m]
  BY <1>1, <1>3
<1>5. /\ meanwhile' \in [Caller -> SUBSET (Node \X Contract)]
      /\ \A c \in Caller : meanwhile'[c] = IF operation[c] # "none" /\ outcome[c] = Pending
                                           THEN meanwhile[c] \cup {<<n, k>>} ELSE meanwhile[c]
  <2>1. <<n, k>> \in Node \X Contract
    OBVIOUS
  <2> QED
    BY <1>1, <1>3, <2>1
<1>6. ChainTypes'
  <2>1. changes' \in 0..MaxChanges
    BY <1>2, <1>3, ChainAssumption DEF ChainTypes
  <2> QED
    BY <1>2, <1>3, <1>4, <1>5, <2>1 DEF ChainTypes
<1>7. \A d \in Caller : awaitsMemo(d)' = awaitsMemo(d) /\ Underway(d)' = Underway(d)
  BY <1>2 DEF awaitsMemo, Underway
<1>8. Memoized'
  BY <1>2, <1>3, <1>7 DEF Memoized
<1>9. ASSUME NEW c \in Caller PROVE CallerInv(c)'
  <2>1. meanwhile[c] \subseteq meanwhile'[c]
    BY <1>5
  <2>2. Holding(c)'
    <3>1. \A m, h : Witnessed(h, m, meanwhile[c]) => Witnessed(h, m, meanwhile'[c])
      BY <2>1 DEF Witnessed
    <3>2. Holding(c)
      BY <1>3 DEF CallerInv
    <3> QED
      BY <1>2, <1>7, <3>1, <3>2 DEF Holding
  <2>3. Watching(c)'
    <3>1. Watching(c)
      BY <1>3 DEF CallerInv
    <3>2. ASSUME operation[c] # "none", outcome[c] = Pending, NEW m \in Node
          PROVE  <<m, contract'[m]>> \in meanwhile'[c]
      BY <1>4, <1>5, <3>1, <3>2 DEF Watching
    <3>3. ASSUME NEW m \in Node, NEW j \in Contract, <<m, j>> \in meanwhile'[c]
          PROVE  j.kind \in {"none", contract'[m].kind}
      <4>1. CASE <<m, j>> \in meanwhile[c]
        <5>1. j.kind \in {"none", contract[m].kind}
          BY <3>1, <4>1 DEF Watching
        <5>2. contract[m].kind \in {"none", contract'[m].kind}
          BY <1>1, <1>4
        <5> QED
          BY <5>1, <5>2
      <4>2. CASE m = n /\ j = k
        BY <1>4, <4>2
      <4> QED
        BY <1>5, <3>3, <4>1, <4>2
    <3> QED
      BY <1>2, <3>2, <3>3 DEF Watching
  <2>4. Truthful(c)'
    <3>1. outcome[c] # Pending => meanwhile'[c] = meanwhile[c]
      BY <1>5
    <3> QED
      BY <1>2, <1>3, <3>1 DEF CallerInv, Truthful
  <2> QED
    BY <2>2, <2>3, <2>4 DEF CallerInv
<1> QED
  BY <1>6, <1>8, <1>9 DEF ChainInv

\* One round-trip of a reader ends in an error, in an answer it cannot accept, in what it
\* makes of all its answers, or with one answer more.
LEMMA AskEnds ==
  ASSUME ChainInv, NEW c \in Caller, Ask(c)
  PROVE  \E n \in Node : \E g : \E end :
           /\ heard' = [heard EXCEPT ![c] = IF end = Pending THEN g ELSE << >>]
           /\ outcome' = [outcome EXCEPT ![c] = end]
           /\ answeredBy' = [answeredBy EXCEPT ![c] = answeredBy[c] \cup {n}]
           /\ \/ \E e \in Errors \cup {"inconsistent"} : end = rejects(e)
              \/ /\ InOrder(operation[c], g) /\ FromNodes(g)
                 /\ answeredBy[c] \subseteq {n} => Witnessed(g, n, meanwhile[c])
                 /\ \/ ahead(operation[c], g) = {} /\ end = settles(operation[c], g)
                    \/ ahead(operation[c], g) # {} /\ end = Pending
<1> DEFINE o == operation[c]
           h == heard[c]
           r == nextRequest(o, h)
<1>1. PICK n \in Node : \E reply \in Reply(n, r) :
        LET got == hears(r, reply)
            g == IF got.ok THEN withAnswer(h, r, got.value) ELSE h
            end == IF ~got.ok THEN rejects(got.error)
                   ELSE IF inconsistent(g) THEN rejects("inconsistent")
                   ELSE IF ahead(o, g) = {} THEN settles(o, g)
                   ELSE Pending
        IN  /\ outcome' = [outcome EXCEPT ![c] = end]
            /\ heard' = [heard EXCEPT ![c] = IF end = Pending THEN g ELSE << >>]
            /\ answeredBy' = [answeredBy EXCEPT ![c] = answeredBy[c] \cup {n}]
  BY DEF Ask
<1> DEFINE k == contract[n]
<1>2. /\ o \in Operation /\ ahead(o, h) # {} /\ InOrder(o, h) /\ FromNodes(h) /\ k \in Contract
      /\ answeredBy[c] \subseteq {n} => Witnessed(h, n, meanwhile[c])
      /\ <<n, k>> \in meanwhile[c]
      /\ \A j \in Contract : <<n, j>> \in meanwhile[c] => j.kind \in {"none", k.kind}
  <2>1. ChainTypes /\ CallerInv(c) /\ Underway(c)
    BY DEF ChainInv, Ask, Underway
  <2>2. o \in Operation /\ k \in Contract /\ o # "none" /\ outcome[c] = Pending
    BY <2>1 DEF ChainTypes, Underway
  <2>3. /\ ahead(o, h) # {} /\ InOrder(o, h) /\ FromNodes(h)
        /\ answeredBy[c] \subseteq {n} => Witnessed(h, n, meanwhile[c])
    BY <2>1 DEF CallerInv, Holding
  <2>4. /\ <<n, k>> \in meanwhile[c]
        /\ \A j \in Contract : <<n, j>> \in meanwhile[c] => j.kind \in {"none", k.kind}
    BY <2>1, <2>2 DEF CallerInv, Watching
  <2> QED
    BY <2>2, <2>3, <2>4
<1>3. r \in Request
  BY <1>2, Asking, ProgramShape
<1> HIDE DEF o, h, r, k
<1>4. PICK reply \in Reply(n, r) :
        LET got == hears(r, reply)
            g == IF got.ok THEN withAnswer(h, r, got.value) ELSE h
            end == IF ~got.ok THEN rejects(got.error)
                   ELSE IF inconsistent(g) THEN rejects("inconsistent")
                   ELSE IF ahead(o, g) = {} THEN settles(o, g)
                   ELSE Pending
        IN  /\ outcome' = [outcome EXCEPT ![c] = end]
            /\ heard' = [heard EXCEPT ![c] = IF end = Pending THEN g ELSE << >>]
            /\ answeredBy' = [answeredBy EXCEPT ![c] = answeredBy[c] \cup {n}]
  BY <1>1
<1>5. \/ \E v \in Told(n, k, r) : hears(r, reply) = resolved(v)
      \/ \E e \in Errors : hears(r, reply) = raised(e)
  BY <1>2, <1>3, Hears DEF k
<1>6. ASSUME NEW e \in Errors, hears(r, reply) = raised(e)
      PROVE  /\ outcome' = [outcome EXCEPT ![c] = rejects(e)]
             /\ heard' = [heard EXCEPT ![c] = IF rejects(e) = Pending THEN h ELSE << >>]
             /\ answeredBy' = [answeredBy EXCEPT ![c] = answeredBy[c] \cup {n}]
  <2>1. raised(e).ok = FALSE /\ raised(e).error = e
    BY DEF raised
  <2> QED
    BY <1>4, <1>6, <2>1
<1>7. ASSUME NEW v \in Told(n, k, r), hears(r, reply) = resolved(v)
      PROVE  \E g : \E end :
           /\ heard' = [heard EXCEPT ![c] = IF end = Pending THEN g ELSE << >>]
           /\ outcome' = [outcome EXCEPT ![c] = end]
           /\ answeredBy' = [answeredBy EXCEPT ![c] = answeredBy[c] \cup {n}]
           /\ \/ end = rejects("inconsistent")
              \/ /\ InOrder(o, g) /\ FromNodes(g)
                 /\ answeredBy[c] \subseteq {n} => Witnessed(g, n, meanwhile[c])
                 /\ \/ ahead(o, g) = {} /\ end = settles(o, g)
                    \/ ahead(o, g) # {} /\ end = Pending
  <2> DEFINE g == withAnswer(h, r, v)
             end == IF inconsistent(g) THEN rejects("inconsistent")
                    ELSE IF ahead(o, g) = {} THEN settles(o, g)
                    ELSE Pending
  <2>1. /\ InOrder(o, g)
        /\ \A q \in DOMAIN g : \E m \in Node : \E j \in Contract : g[q] \in Told(m, j, q)
        /\ answeredBy[c] \subseteq {n} => Witnessed(g, n, meanwhile[c])
    BY <1>2, OneMore DEF r
  <2>2. resolved(v).ok = TRUE /\ resolved(v).value = v
    BY DEF resolved
  <2>3. /\ heard' = [heard EXCEPT ![c] = IF end = Pending THEN g ELSE << >>]
        /\ outcome' = [outcome EXCEPT ![c] = end]
        /\ answeredBy' = [answeredBy EXCEPT ![c] = answeredBy[c] \cup {n}]
    BY <1>4, <1>7, <2>2
  <2> HIDE DEF g
  <2>4. \/ end = rejects("inconsistent")
        \/ /\ InOrder(o, g) /\ FromNodes(g)
           /\ answeredBy[c] \subseteq {n} => Witnessed(g, n, meanwhile[c])
           /\ \/ ahead(o, g) = {} /\ end = settles(o, g)
              \/ ahead(o, g) # {} /\ end = Pending
    <3>1. CASE inconsistent(g)
      BY <3>1
    <3>2. CASE ~inconsistent(g)
      <4>1. FromNodes(g)
        BY <2>1, <3>2 DEF FromNodes
      <4> QED
        BY <2>1, <3>2, <4>1
    <3> QED
      BY <3>1, <3>2
  <2> HIDE DEF end
  <2> QED
    BY <2>3, <2>4
<1>8. CASE \E e \in Errors : hears(r, reply) = raised(e)
  <2>1. PICK e \in Errors : hears(r, reply) = raised(e)
    BY <1>8
  <2>2. /\ outcome' = [outcome EXCEPT ![c] = rejects(e)]
        /\ heard' = [heard EXCEPT ![c] = IF rejects(e) = Pending THEN h ELSE << >>]
        /\ answeredBy' = [answeredBy EXCEPT ![c] = answeredBy[c] \cup {n}]
    BY <1>6, <2>1
  <2> QED
    BY <2>2
<1>9. CASE \E v \in Told(n, k, r) : hears(r, reply) = resolved(v)
  <2>1. \E g : \E end :
           /\ heard' = [heard EXCEPT ![c] = IF end = Pending THEN g ELSE << >>]
           /\ outcome' = [outcome EXCEPT ![c] = end]
           /\ answeredBy' = [answeredBy EXCEPT ![c] = answeredBy[c] \cup {n}]
           /\ \/ end = rejects("inconsistent")
              \/ /\ InOrder(o, g) /\ FromNodes(g)
                 /\ answeredBy[c] \subseteq {n} => Witnessed(g, n, meanwhile[c])
                 /\ \/ ahead(o, g) = {} /\ end = settles(o, g)
                    \/ ahead(o, g) # {} /\ end = Pending
    BY <1>7, <1>9
  <2> QED
    BY <2>1 DEF o
<1> QED
  BY <1>5, <1>8, <1>9

\* One round-trip of a reader.
LEMMA AskStep == ASSUME ChainInv, NEW c \in Caller, Ask(c) PROVE ChainInv'
<1> DEFINE o == operation[c]
<1>1. /\ o \in Operation /\ o # "none" /\ outcome[c] = Pending /\ ~awaitsMemo(c)
      /\ UNCHANGED <<config, access, post, operation, memo, contract, mined, changes, meanwhile>>
  BY DEF Ask, factoryVars, chainVars, ChainInv, ChainTypes
<1>2. ChainTypes /\ Memoized /\ \A d \in Caller : CallerInv(d)
  BY DEF ChainInv
<1>3. PICK n \in Node : \E g : \E end :
           /\ heard' = [heard EXCEPT ![c] = IF end = Pending THEN g ELSE << >>]
           /\ outcome' = [outcome EXCEPT ![c] = end]
           /\ answeredBy' = [answeredBy EXCEPT ![c] = answeredBy[c] \cup {n}]
           /\ \/ \E e \in Errors \cup {"inconsistent"} : end = rejects(e)
              \/ /\ InOrder(o, g) /\ FromNodes(g)
                 /\ answeredBy[c] \subseteq {n} => Witnessed(g, n, meanwhile[c])
                 /\ \/ ahead(o, g) = {} /\ end = settles(o, g)
                    \/ ahead(o, g) # {} /\ end = Pending
  BY AskEnds
<1>4. PICK g, end :
           /\ heard' = [heard EXCEPT ![c] = IF end = Pending THEN g ELSE << >>]
           /\ outcome' = [outcome EXCEPT ![c] = end]
           /\ answeredBy' = [answeredBy EXCEPT ![c] = answeredBy[c] \cup {n}]
           /\ \/ \E e \in Errors \cup {"inconsistent"} : end = rejects(e)
              \/ /\ InOrder(o, g) /\ FromNodes(g)
                 /\ answeredBy[c] \subseteq {n} => Witnessed(g, n, meanwhile[c])
                 /\ \/ ahead(o, g) = {} /\ end = settles(o, g)
                    \/ ahead(o, g) # {} /\ end = Pending
  BY <1>3
<1>5. /\ heard' = [d \in Caller |-> heard'[d]] /\ outcome' = [d \in Caller |-> outcome'[d]]
      /\ heard'[c] = IF end = Pending THEN g ELSE << >>
      /\ outcome'[c] = end
      /\ \A d \in Caller : d # c => heard'[d] = heard[d] /\ outcome'[d] = outcome[d]
  BY <1>2, <1>4 DEF ChainTypes
<1>6. /\ answeredBy' \in [Caller -> SUBSET Node] /\ answeredBy'[c] = answeredBy[c] \cup {n}
      /\ \A d \in Caller : d # c => answeredBy'[d] = answeredBy[d]
  BY <1>2, <1>4 DEF ChainTypes
<1>7. \A d \in Caller : IsFiniteSet(answeredBy'[d])
  <2>1. IsFiniteSet(answeredBy[c] \cup {n})
    BY <1>2, FS_AddElement DEF ChainTypes
  <2> QED
    BY <1>2, <1>6, <2>1 DEF ChainTypes
<1>8. \/ end = Pending
      \/ end.end \in {"resolved", "rejected"} /\ end # Pending
  BY <1>1, <1>4, NodeErrors, Settlement
<1>9. Pending.end = "pending"
  BY DEF Pending
<1>10. ChainTypes'
  <2>1. \A d \in Caller : /\ outcome'[d].end \in {"pending", "resolved", "rejected"}
                          /\ outcome'[d].end = "pending" => outcome'[d] = Pending
    BY <1>2, <1>5, <1>8, <1>9 DEF ChainTypes
  <2> QED
    BY <1>1, <1>2, <1>5, <1>6, <1>7, <2>1 DEF ChainTypes
<1>11. \A d \in Caller : awaitsMemo(d)' = awaitsMemo(d)
  BY <1>1 DEF awaitsMemo
<1>12. Memoized'
  <2>1. ASSUME NEW d \in Caller, awaitsMemo(d), outcome'[d] # Pending
        PROVE  outcome'[d] = outcome'[memo]
    <3>1. d # c /\ outcome'[d] = outcome[d]
      BY <1>1, <1>5, <2>1
    <3>2. outcome[d] = outcome[memo] /\ memo \in Caller
      BY <1>2, <2>1, <3>1 DEF Memoized, awaitsMemo
    <3>3. memo # c
      BY <1>1, <2>1, <3>1, <3>2
    <3> QED
      BY <1>5, <3>1, <3>2, <3>3
  <2> QED
    BY <1>1, <1>2, <1>11, <2>1 DEF Memoized
<1>13. ASSUME NEW d \in Caller PROVE CallerInv(d)'
  <2>1. CASE d # c
    BY <1>1, <1>2, <1>5, <1>6, <1>11, <2>1, Aside
  <2>2. CASE d = c
    <3>1. CallerInv(c)
      BY <1>2
    <3>2. Watching(c)'
      BY <1>1, <1>5, <3>1 DEF CallerInv, Watching
    <3>3. Underway(c)' <=> end = Pending
      BY <1>1, <1>5, <1>11 DEF Underway
    <3>4. Holding(c)'
      <4>1. CASE end # Pending
        BY <1>1, <1>5, <1>11, <3>3, <4>1 DEF Holding
      <4>2. CASE end = Pending
        <5>1. /\ InOrder(o, g) /\ FromNodes(g) /\ ahead(o, g) # {}
              /\ answeredBy[c] \subseteq {n} => Witnessed(g, n, meanwhile[c])
          BY <1>1, <1>4, <4>2, NodeErrors, Settlement
        <5>2. \A m \in Node : answeredBy'[c] \subseteq {m} => Witnessed(g, m, meanwhile[c])
          BY <1>6, <5>1
        <5> QED
          BY <1>1, <1>5, <1>11, <3>3, <4>2, <5>1, <5>2 DEF Holding
      <4> QED
        BY <4>1, <4>2
    <3>5. Truthful(c)'
      <4>1. CASE end = Pending
        BY <1>5, <4>1 DEF Truthful
      <4>2. ASSUME NEW e \in Errors \cup {"inconsistent"}, end = rejects(e) PROVE Truthful(c)'
        <5>1. /\ e # "broken-invariant" /\ e # "not-found" /\ end.end = "rejected"
          BY <4>2, NodeErrors
        <5>2. \A m, k : saysTrue(o, end, m, k)
          BY <4>2, <5>1, FailureSaysNothing
        <5>3. \A m \in Node : contract[m] \in Contract /\ <<m, contract[m]>> \in meanwhile[c]
          BY <1>1, <1>2, <3>1 DEF CallerInv, Watching, ChainTypes
        <5> QED
          BY <1>1, <1>5, <5>1, <5>2, <5>3 DEF Truthful
      <4>3. CASE /\ InOrder(o, g) /\ FromNodes(g) /\ ahead(o, g) = {} /\ end = settles(o, g)
                 /\ answeredBy[c] \subseteq {n} => Witnessed(g, n, meanwhile[c])
        <5>1. DOMAIN g \subseteq Asked(o) /\ ~inconsistent(g)
          BY <4>3 DEF InOrder, FromNodes
        <5>2. ASSUME o # "identity", NEW m \in Node, answeredBy'[c] = {m}
              PROVE  \E k \in Contract : <<m, k>> \in meanwhile[c] /\ saysTrue(o, end, m, k)
          <6>1. m = n /\ answeredBy[c] \subseteq {n}
            BY <1>6, <5>2
          <6>2. OneKind(n, meanwhile[c])
            BY <3>1 DEF CallerInv, Watching, OneKind
          <6> HIDE DEF o
          <6> QED
            BY <1>1, <4>3, <5>1, <5>2, <6>1, <6>2, SettlesTrue
        <5>3. ASSUME o = "identity"
              PROVE  \E m \in Node : /\ end.with.chainId = chainIdOf[m]
                                     /\ end.with.genesisHash = genesisOf[m]
          <6>1. FromNodes(g) /\ ahead("identity", g) = {} /\ DOMAIN g \subseteq Asked("identity")
                /\ end = settles("identity", g)
            BY <4>3, <5>1, <5>3
          <6> QED
            BY <6>1, IdentityOfOne
        <5> QED
          BY <1>1, <1>5, <5>2, <5>3 DEF Truthful
      <4> QED
        BY <1>4, <4>1, <4>2, <4>3
    <3> QED
      BY <2>2, <3>2, <3>4, <3>5 DEF CallerInv
  <2> QED
    BY <2>1, <2>2
<1> QED
  BY <1>10, <1>12, <1>13 DEF ChainInv

-----------------------------------------------------------------------------
(* The theorems *)

\* The invariant of the chain layer (read.ts:171, instance.ts:154, index.ts:225).
THEOREM ChainInvariant == Spec => []ChainInv
<1>1. Init => ChainInv
  BY InitChain
<1>2. ChainInv /\ [Next]_vars => ChainInv'
  <2> SUFFICES ASSUME ChainInv, [Next]_vars PROVE ChainInv'
    OBVIOUS
  <2>1. CASE ResolveEndpoint
    BY <2>1, ResolveEndpointStep
  <2>2. CASE ProbeJsonRpc
    BY <2>2, ProbeStep
  <2>3. ASSUME NEW c \in Caller, Call(c) \/ Ask(c) \/ Join(c) PROVE ChainInv'
    BY <2>3, CallStep, AskStep, JoinStep
  <2>4. ASSUME NEW n \in Deployed, ChangeContract(n) PROVE ChainInv'
    BY <2>4, ChainAssumption, ChangeStep
  <2>5. ASSUME NEW n \in Node, MineFirstBlock(n) PROVE ChainInv'
    BY <2>5, MineStep
  <2>6. CASE UNCHANGED vars
    <3>1. /\ config' \in Config /\ access' \in {"none", "resolved", "ready", "refused"}
          /\ post' \in {"none", "injected", "handle", "fetch"} /\ mined' \in [Node -> BOOLEAN]
          /\ UNCHANGED callVars /\ UNCHANGED <<contract, changes, meanwhile>>
      BY <2>6 DEF vars, factoryVars, chainVars, ChainInv, ChainTypes
    <3> QED
      BY <3>1, NoCallStep
  <2> QED
    BY <2>1, <2>2, <2>3, <2>4, <2>5, <2>6 DEF Next
<1> QED
  BY <1>1, <1>2, PTL DEF Spec

\* The types: no reader is ever given a value of an undeclared shape.
LEMMA ChainInvTypes == ASSUME ChainInv PROVE TypeOK
<1>1. ASSUME NEW c \in Caller, NEW r \in DOMAIN heard[c] PROVE heard[c][r] \in Value
  <2>1. Underway(c)
    BY <1>1 DEF ChainInv, CallerInv, Holding
  <2>2. InOrder(operation[c], heard[c]) /\ FromNodes(heard[c]) /\ operation[c] \in Operation
    BY <2>1 DEF ChainInv, ChainTypes, CallerInv, Holding, Underway
  <2>3. r \in Request
    BY <1>1, <2>2, ProgramShape DEF InOrder
  <2>4. PICK n \in Node : \E k \in Contract : heard[c][r] \in Told(n, k, r)
    BY <1>1, <2>2 DEF FromNodes
  <2>5. PICK k \in Contract : heard[c][r] \in Told(n, k, r)
    BY <2>4
  <2> QED
    BY <2>3, <2>5, ToldIsDeclared
<1> QED
  BY <1>1 DEF ChainInv, ChainTypes, TypeOK

\* Whatever a reader answers was so on the node that answered it, at some moment of the
\* call, and no failure is converted into an answer (read.ts:111).
THEOREM ChainAnswersAreTrue == Spec => []AnswersAreTrue
<1>1. ChainInv => AnswersAreTrue
  <2> SUFFICES ASSUME ChainInv PROVE AnswersAreTrue
    OBVIOUS
  <2>1. TypeOK
    BY ChainInvTypes
  <2>2. ASSUME NEW c \in Caller, outcome[c] # Pending, operation[c] # "identity",
               Cardinality(answeredBy[c]) = 1
        PROVE  \E known \in meanwhile[c] :
                 /\ known[1] \in answeredBy[c]
                 /\ saysTrue(operation[c], outcome[c], known[1], known[2])
    <3>1. IsFiniteSet(answeredBy[c]) /\ answeredBy[c] \in SUBSET Node
      BY DEF ChainInv, ChainTypes
    <3>2. PICK n : answeredBy[c] = {n}
      BY <2>2, <3>1, FS_Singleton
    <3>3. n \in Node
      BY <3>1, <3>2
    <3>4. PICK k \in Contract : /\ <<n, k>> \in meanwhile[c]
                                /\ saysTrue(operation[c], outcome[c], n, k)
      BY <2>2, <3>2, <3>3 DEF ChainInv, CallerInv, Truthful
    <3>5. <<n, k>>[1] = n /\ <<n, k>>[2] = k
      OBVIOUS
    <3> QED
      BY <3>2, <3>4, <3>5
  <2> QED
    BY <2>1, <2>2 DEF AnswersAreTrue
<1> QED
  BY <1>1, ChainInvariant, PTL

\* Whichever nodes answered, an identity is that of one network, and all who ask for it
\* are told the same (instance.ts:154, index.ts:225).
THEOREM ChainIdentityIsOneNetwork == Spec => []IdentityIsOneNetwork
<1>1. ChainInv => IdentityIsOneNetwork
  <2> SUFFICES ASSUME ChainInv, NEW c \in Caller, operation[c] = "identity"
               PROVE  /\ outcome[c].end = "resolved" =>
                           \E n \in Node : /\ outcome[c].with.chainId = chainIdOf[n]
                                           /\ outcome[c].with.genesisHash = genesisOf[n]
                      /\ \A d \in Caller :
                           operation[d] = "identity" /\ Pending \notin {outcome[c], outcome[d]}
                             => outcome[c] = outcome[d]
    BY DEF IdentityIsOneNetwork
  <2>1. outcome[c].end = "resolved" =>
          \E n \in Node : /\ outcome[c].with.chainId = chainIdOf[n]
                          /\ outcome[c].with.genesisHash = genesisOf[n]
    BY DEF ChainInv, CallerInv, Truthful, Pending
  <2>2. ASSUME NEW d \in Caller, operation[d] = "identity", outcome[c] # Pending, outcome[d] # Pending
        PROVE  outcome[c] = outcome[d]
    <3>1. \A e \in Caller : operation[e] = "identity" /\ outcome[e] # Pending
            => outcome[e] = outcome[memo]
      BY DEF ChainInv, Memoized, awaitsMemo
    <3> QED
      BY <2>2, <3>1
  <2> QED
    BY <2>1, <2>2
<1> QED
  BY <1>1, ChainInvariant, PTL

\* No endpoint is used but the first that was configured, and the handle's client only
\* for its own origin (endpoint.ts:305, endpoint.ts:436).
THEOREM ChainOnlyTheChosenEndpoint == Spec => OnlyTheChosenEndpoint
<1> DEFINE Chosen ==
      access = "none" /\ access' = "resolved"
       => /\ config.argument # "refused"
          /\ config.argument = "absent" => config.variable # "refused"
          /\ post' = "handle" =>
               \/ config.argument = "own"
               \/ config.argument = "absent" /\ config.variable \in {"absent", "own"}
<1>1. [Next]_vars => Chosen
  <2> SUFFICES ASSUME [Next]_vars, access = "none", access' = "resolved"
               PROVE  /\ config.argument # "refused"
                      /\ config.argument = "absent" => config.variable # "refused"
                      /\ post' = "handle" =>
                           \/ config.argument = "own"
                           \/ config.argument = "absent" /\ config.variable \in {"absent", "own"}
    OBVIOUS
  <2>1. ResolveEndpoint
    BY DEF Next, vars, factoryVars, ProbeJsonRpc, Call, Ask, Join, ChangeContract, MineFirstBlock
  <2>2. chooseEndpoint(config) # "refused" /\ post' = selectPost(config)
    BY <2>1 DEF ResolveEndpoint
  <2>3. post' = "handle" => chooseEndpoint(config) = "own"
    BY <2>2 DEF selectPost
  <2> QED
    BY <2>2, <2>3 DEF chooseEndpoint
<1>2. [Next]_vars => [Chosen]_vars
  BY <1>1
<1> QED
  BY <1>2, PTL DEF Spec, OnlyTheChosenEndpoint
==============================================================================
