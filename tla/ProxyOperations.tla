--------------------------- MODULE ProxyOperations ---------------------------
(***************************************************************************)
(* The operations of one migration: proxy/, beacon/, standalone/, adopt/   *)
(* and admin/ over the toolkit of proxy/toolkit.ts.  A call takes its turn on *)
(* the deployer, checks, then runs one queued step: it fetches or deploys  *)
(* the implementation, sends a transaction, waits for its verdict, reads   *)
(* the chain again and writes the record.  Every leg of that can fail, a   *)
(* transaction nobody waits for any longer still lands later, and the run  *)
(* can die between two legs.  What outlives a call is the chain, the       *)
(* record, and the addresses the host's artifacts name.                    *)
(*                                                                         *)
(* A transaction's number doubles as the address it creates; 0 is none.    *)
(***************************************************************************)
EXTENDS Naturals, Sequences

CONSTANTS
  Contracts,    \* the user's contract abstractions, one version each
  Migrations    \* the migrations of an instance

VARIABLES
  txs,        \* the chain: every transaction, with what it created
  impls,      \* record: the addresses remembered per version, the primary first
  proxies,    \* record: the proxies, each with its kind
  back,       \* the address each abstraction's artifact names on this network
  saved,      \* the artifacts on disk
  calls,      \* the operations called so far, in call order
  told,       \* transactions a result or a refusal named to the user
  dropped,    \* history: addresses that left the record beside a judged one
  crashes,
  migration   \* the migration that is run

vars == <<txs, impls, proxies, back, saved, calls, told, dropped, crashes, migration>>

Address == Nat
Elements(s) == {s[k] : k \in DOMAIN s}

\* The plugin's own abstractions, deployed beside the user's.
Facades == {"Proxy", "UpgradeableBeacon", "BeaconProxy"}
What == {"implementation", "transparent", "uups", "beacon-proxy", "beacon", "upgrade", "transfer"}

\* The account operations send from owns the admins they create.
Owner == {"sender", "heir", "stranger"}
Tx == [what : What, of : Contracts \cup {"-"}, status : {"pending", "landed", "reverted"},
       points : Address,      \* implementation slot, or beacon slot
       at : Address,          \* where an upgrade is sent
       checked : Address,     \* the implementation its layout was compared with
       replaced : Address,    \* the one it displaced when it landed
       owner : Owner,         \* of the proxy's admin; what a transfer makes it
       by : Nat]

\* The legs of each operation, in the order of the code.
deployProxyLegs == <<"check", "fetch", "create", "confirm", "record", "writeBack", "report">>
upgradeProxyLegs == <<"check", "fetch", "send", "confirm", "verify", "record", "report">>
deployBeaconLegs == <<"check", "fetch", "create", "confirm", "report">>
deployBeaconProxyLegs == <<"check", "create", "confirm", "record", "report">>
upgradeBeaconLegs == <<"check", "fetch", "send", "confirm", "verify", "report">>
standaloneLegs == <<"check", "fetch", "confirm", "report">>
forceImportLegs == <<"check", "fetch", "record", "report">>
transferLegs == <<"check", "send", "confirm", "verify", "report">>

Pipeline ==
  [deployProxy          |-> deployProxyLegs,
   upgradeProxy         |-> upgradeProxyLegs,
   deployBeacon         |-> deployBeaconLegs,
   deployBeaconProxy    |-> deployBeaconProxyLegs,
   upgradeBeacon        |-> upgradeBeaconLegs,
   deployImplementation |-> standaloneLegs,
   prepareUpgrade       |-> standaloneLegs,
   forceImport          |-> forceImportLegs,
   transferProxyAdminOwnership |-> transferLegs]

Operation == DOMAIN Pipeline

\* What a migration calls, with which settings, beside what, and the bounds of an instance:
\* how often it calls, how many transactions the host accepts, how often a run dies.
Migration == [operations : SUBSET Operation, contracts : SUBSET Contracts,
              kinds : SUBSET {"transparent", "uups"}, redeploys : SUBSET {"onchange", "always", "never"},
              foreign : SUBSET Contracts, \* versions behind a proxy nobody recorded
              calls : Nat, txs : Nat, crashes : Nat]

ASSUME OperationsAssumption ==
  /\ Migrations \subseteq Migration
  /\ \A m \in Migrations : m.foreign # {} => m.txs >= 2
  /\ Contracts \cap {"Proxy", "UpgradeableBeacon", "BeaconProxy"} = {}

\* Operations whose queued step runs under restoringWriteBackOnFailure.
Restoring == {"deployProxy", "upgradeProxy", "deployBeacon", "upgradeBeacon"}
Targeted == {"upgradeProxy", "deployBeaconProxy", "upgradeBeacon", "prepareUpgrade", "forceImport",
             "transferProxyAdminOwnership"}
QueuedLegs == {"fetch", "store", "mine", "create", "send", "confirm", "verify", "record"}

Call == [name : Operation, contract : Contracts, kind : {"transparent", "uups"},
         redeploy : {"onchange", "always", "never"}, target : Address, newOwner : Owner,
         todo : Seq(QueuedLegs \cup {"open", "check", "writeBack", "report"}),
         outcome : {"", "ok", "refused", "stale", "crashed"},
         named : Address,       \* the address the record session was asked about
         verdict : {"none", "authoritative", "no-code-at-address", "unrecorded"},
         prior : Address,       \* the user's write-back captured at the step's entry
         priorFacade : Address, \* the facade's, before its own deploy
         impl : Address, tx : Address, checked : Address,
         retried : BOOLEAN, confirmed : BOOLEAN,
         before : Address]      \* history: the user's write-back when the call began

TypeOK ==
  /\ txs \in Seq(Tx) /\ Len(txs) <= migration.txs
  /\ impls \in [Contracts -> Seq(DOMAIN txs)]
  /\ DOMAIN proxies \subseteq DOMAIN txs
  /\ \A p \in DOMAIN proxies : proxies[p] \in {"transparent", "uups", "beacon"}
  /\ back \in [Contracts \cup Facades -> Address]
  /\ saved \in [Contracts \cup Facades -> Address]
  /\ calls \in Seq(Call) /\ Len(calls) <= migration.calls
  /\ told \subseteq 0..Len(txs)
  /\ dropped \subseteq DOMAIN txs
  /\ crashes \in 0..migration.crashes
  /\ migration \in Migrations

NewTx(what, of, points, at, checked, i) ==
  [what |-> what, of |-> of, status |-> "pending", points |-> points, at |-> at,
   checked |-> checked, replaced |-> 0, owner |-> "sender", by |-> i]

\* What somebody else deployed before: an implementation and its uups proxy.
foreign(c) ==
  <<[NewTx("implementation", c, 0, 0, 0, 0) EXCEPT !.status = "landed"],
    [NewTx("uups", "-", 1, 0, 0, 0) EXCEPT !.status = "landed"]>>

Init ==
  /\ migration \in Migrations
  /\ txs \in IF migration.foreign = {} THEN {<< >>} ELSE {foreign(c) : c \in migration.foreign}
  /\ impls = [c \in Contracts |-> << >>]
  /\ proxies = [p \in {} |-> "uups"]
  /\ back = [a \in Contracts \cup Facades |-> 0]
  /\ saved = back
  /\ calls = << >>
  /\ told = {}
  /\ dropped = {}
  /\ crashes = 0

-----------------------------------------------------------------------------
(* What the chain and the record answer *)

Created(a) == a \in DOMAIN txs /\ txs[a].what \notin {"upgrade", "transfer"} /\ txs[a].status = "landed"
Is(a, whats) == Created(a) /\ txs[a].what \in whats
ProxyWhats == {"transparent", "uups"}

\* The implementation that runs behind an address: its slot, through the beacon
\* for a beacon proxy, itself otherwise.
Behind(a) ==
  CASE txs[a].what \in ProxyWhats \cup {"beacon"} -> txs[a].points
    [] txs[a].what = "beacon-proxy" -> txs[txs[a].points].points
    [] OTHER -> a

\* getImplRecord: some version remembers the address, as primary or not.
Remembered(a) == \E c \in Contracts : a \in Elements(impls[c])
Recorded(a) == a \in DOMAIN proxies

RecordedKind(what) == IF what = "beacon-proxy" THEN "beacon" ELSE what

\* reconcileProxies, for the one address the operation named.
VerdictFor(a) ==
  CASE a # 0 /\ Recorded(a) -> IF Created(a) THEN "authoritative" ELSE "no-code-at-address"
    [] a # 0 /\ ~Recorded(a) /\ Created(a) -> "unrecorded"
    [] OTHER -> "none"

-----------------------------------------------------------------------------
(* Calls and their turns *)

Settled(i) == calls[i].outcome # ""

\* Mutant: the deployer admits a call while an earlier one is under way.
anyTurn(i) == TRUE

\* serializeOperation: one call at a time, in call order.
turn(i) == \A j \in 1..i-1 : Settled(j)

At(i, leg) == i \in DOMAIN calls /\ ~Settled(i) /\ turn(i) /\ Head(calls[i].todo) = leg

\* Call i goes on to its next leg as the record c, by way of `more` if given.
Goes(i, c, more) == calls' = [calls EXCEPT ![i] = [c EXCEPT !.todo = more \o Tail(c.todo)]]

\* Mutant: a failing step leaves the user's write-back where it stands.
keptBack(c, artifacts) == artifacts

\* restoringWriteBackOnFailure, on an exit of the queued step.
restored(c, artifacts) ==
  IF c.name \in Restoring /\ Head(c.todo) \in QueuedLegs
  THEN [artifacts EXCEPT ![c.contract] = c.prior]
  ELSE artifacts

\* The call rejects: the artifacts go back as the step's wrapper puts them, and
\* the refusal names the transactions in `names`.
RefuseAs(outcome, i, names, artifacts) ==
  /\ calls' = [calls EXCEPT ![i].todo = << >>, ![i].outcome = outcome]
  /\ back' = restored(calls[i], artifacts)
  /\ told' = told \cup names
Refuse(i, names) == RefuseAs("refused", i, names, back)

CallOperation(name, c, kind, redeploy, target, newOwner) ==
  /\ Len(calls) < migration.calls
  /\ calls' = Append(calls,
       [name |-> name, contract |-> c, kind |-> kind, redeploy |-> redeploy, target |-> target,
        newOwner |-> newOwner,
        todo |-> <<"open">> \o Pipeline[name], outcome |-> "", named |-> 0,
        verdict |-> "none", prior |-> 0, priorFacade |-> 0, impl |-> 0, tx |-> 0,
        checked |-> 0, retried |-> FALSE, confirmed |-> FALSE, before |-> 0])
  /\ UNCHANGED <<txs, impls, proxies, back, saved, told, dropped, crashes, migration>>

\* createOperationToolkit: the record opens, or refuses; deployProxy names the
\* address its artifact holds, read inside its turn.
Open(i) ==
  /\ At(i, "open")
  /\ LET a == IF calls[i].name = "deployProxy" THEN back[calls[i].contract] ELSE 0
     IN \/ Goes(i, [calls[i] EXCEPT !.named = a, !.verdict = VerdictFor(a),
                                   !.before = back[calls[i].contract]], << >>)
           /\ UNCHANGED <<back, told>>
        \/ Refuse(i, {})
  /\ UNCHANGED <<txs, impls, proxies, saved, dropped, crashes, migration>>

-----------------------------------------------------------------------------
(* Before the queue: what each operation checks, and refuses *)

\* decideDeployReplay and deployProxy's one exception: an address the artifact
\* names must be a proxy the record vouches for, or an implementation it knows.
Vouched(c) ==
  LET a == back[c.contract]
  IN \/ a = 0
     \/ c.named = a /\ c.verdict = "authoritative"
     \/ c.named = a /\ c.verdict = "unrecorded" /\ Remembered(a)

\* The slots, the beacon, the record and the stored layout, as each asks.
Accepts(c) ==
  LET a == c.target
      upgradeable == Is(a, ProxyWhats) /\ Remembered(Behind(a))
  IN CASE c.name = "upgradeProxy" -> upgradeable
       [] c.name = "prepareUpgrade" -> upgradeable /\ Recorded(a)
       [] c.name = "upgradeBeacon" -> Is(a, {"beacon"}) /\ Remembered(Behind(a))
       [] c.name = "deployBeaconProxy" -> Is(a, {"beacon"})
       [] c.name = "transferProxyAdminOwnership" -> Is(a, {"transparent"})
       [] c.name = "forceImport" -> Created(a) /\ txs[Behind(a)].of = c.contract
       [] OTHER -> TRUE

\* Mutant: whoever else owns the admin, there is nothing left to transfer.
heldByAnother(c) ==
  c.name = "transferProxyAdminOwnership" /\ txs[c.target].owner # "sender"

\* The pre-read of a transfer: the new owner is the owner.  A third one refuses, if the
\* sender can be told; if not the transaction is sent.
alreadyHeld(c) ==
  c.name = "transferProxyAdminOwnership" /\ txs[c.target].owner = c.newOwner

\* Mutant: an upgrade is compared with what the user's artifact names.
comparedToArtifact(c) ==
  CASE c.name \in {"upgradeProxy", "upgradeBeacon"} -> back[c.contract]
    [] c.name \in Targeted -> Behind(c.target)
    [] OTHER -> 0

\* The implementation whose stored layout the new one is compared with.
compared(c) == IF c.name \in Targeted THEN Behind(c.target) ELSE 0

\* Everything ahead of the queued step; the validation, the options and the
\* arguments refuse here as well, for reasons the rest does not depend on.
Check(i) ==
  /\ At(i, "check")
  /\ LET c == calls[i]
         stale == c.name = "deployProxy" /\ ~Vouched(c)
     IN \/ /\ Accepts(c) /\ alreadyHeld(c)
           /\ calls' = [calls EXCEPT ![i].todo = <<"report">>]
           /\ UNCHANGED <<back, told>>
        \/ /\ ~stale /\ Accepts(c) /\ ~alreadyHeld(c)
           /\ Goes(i, [c EXCEPT !.prior = back[c.contract],
                                !.checked = compared(c)], << >>)
           /\ UNCHANGED <<back, told>>
        \/ stale /\ RefuseAs("stale", i, {}, back)
        \/ Refuse(i, {})
  /\ UNCHANGED <<txs, impls, proxies, saved, dropped, crashes, migration>>

-----------------------------------------------------------------------------
(* The implementation: the engine's fetchOrDeploy, under the record's lock *)

\* Mutant: the default setting deploys anew.
redeploys(c) == IF c.name = "forceImport" \/ c.redeploy = "onchange" THEN "always" ELSE c.redeploy

mode(c) == IF c.name = "forceImport" THEN "always" ELSE c.redeploy

\* The host's .new() resolves: the transaction is out, and the abstraction it
\* went through names the new address.
hostDeploy(tx, abstraction) ==
  /\ Len(txs) < migration.txs
  /\ txs' = Append(txs, tx)
  /\ back' = [back EXCEPT ![abstraction] = Len(txs) + 1]

\* The record answers, or the deploy callback runs: it adopts what is there,
\* refuses under 'never', or deploys through the user's contract.  No lock, a
\* guard or the host can refuse it.
Fetch(i) ==
  /\ At(i, "fetch")
  /\ LET c == calls[i]
         hit == impls[c.contract] # << >> /\ mode(c) # "always"
         new == Len(txs) + 1
     IN \/ /\ hit
           /\ Goes(i, [c EXCEPT !.impl = Head(impls[c.contract])], <<"mine">>)
           /\ UNCHANGED <<txs, back, told>>
        \/ /\ ~hit /\ c.name = "forceImport"
           /\ Goes(i, [c EXCEPT !.impl = c.checked], <<"store", "mine">>)
           /\ UNCHANGED <<txs, back, told>>
        \/ /\ ~hit /\ c.name # "forceImport" /\ mode(c) # "never"
           /\ hostDeploy(NewTx("implementation", c.contract, 0, 0, 0, i), c.contract)
           /\ Goes(i, [c EXCEPT !.impl = new, !.tx = new], <<"store", "mine">>)
           /\ UNCHANGED told
        \/ Refuse(i, {}) /\ UNCHANGED txs
  /\ UNCHANGED <<impls, proxies, saved, dropped, crashes, migration>>

\* Mutant: the merge flag is not passed on.
StoreInstead(i) ==
  /\ At(i, "store")
  /\ impls' = [impls EXCEPT ![calls[i].contract] = <<calls[i].impl>>]
  /\ Goes(i, calls[i], << >>)
  /\ UNCHANGED <<txs, proxies, back, saved, told, dropped, crashes, migration>>

\* The engine stores what the callback returned; with merge it joins the
\* addresses the version already has.
Store(i) ==
  /\ At(i, "store")
  /\ LET c == calls[i]
     IN /\ impls' = [impls EXCEPT ![c.contract] =
              IF c.impl \in Elements(@) THEN @ ELSE Append(@, c.impl)]
        /\ Goes(i, c, << >>)
  /\ UNCHANGED <<txs, proxies, back, saved, told, dropped, crashes, migration>>

\* One retry after the engine removed an invalid entry, unless under 'never'.
retries(c) == ~c.retried /\ mode(c) # "never"

\* The engine's wait for the transaction, and its verdict.  An invalid
\* deployment leaves the record, unless another address is the primary.
Mine(i) ==
  /\ At(i, "mine")
  /\ LET c == calls[i]
         judged == impls[c.contract] # << >> /\ Head(impls[c.contract]) = c.impl
     IN \/ /\ txs[c.impl].status = "landed"
           /\ Goes(i, c, << >>)
           /\ UNCHANGED <<impls, back, told, dropped, migration>>
        \/ /\ txs[c.impl].status = "pending"
           /\ Refuse(i, {c.impl})
           /\ UNCHANGED <<impls, dropped>>
        \/ /\ txs[c.impl].status = "reverted"
           /\ impls' = IF judged THEN [impls EXCEPT ![c.contract] = << >>] ELSE impls
           /\ dropped' = dropped \cup
                (IF judged THEN Elements(impls[c.contract]) \ {c.impl} ELSE {})
           /\ IF retries(c)
              THEN Goes(i, [c EXCEPT !.retried = TRUE], <<"fetch">>) /\ UNCHANGED <<back, told>>
              ELSE Refuse(i, {})
  /\ UNCHANGED <<txs, proxies, saved, crashes, migration>>

-----------------------------------------------------------------------------
(* The transaction of the operation itself *)

Facade(c) ==
  CASE c.name = "deployBeacon" -> "UpgradeableBeacon"
    [] c.name = "deployBeaconProxy" -> "BeaconProxy"
    [] OTHER -> "Proxy"

\* hostDeploy of the proxy or the beacon, its write-back read first.
Create(i) ==
  /\ At(i, "create")
  /\ LET c == calls[i]
         new == IF c.name = "deployBeaconProxy"
                THEN NewTx("beacon-proxy", "-", c.target, 0, 0, i)
                ELSE NewTx(IF c.name = "deployBeacon" THEN "beacon" ELSE c.kind, "-", c.impl, 0, 0, i)
     IN \/ /\ hostDeploy(new, Facade(c))
           /\ Goes(i, [c EXCEPT !.tx = Len(txs) + 1, !.priorFacade = back[Facade(c)]], << >>)
           /\ UNCHANGED told
        \/ Refuse(i, {}) /\ UNCHANGED txs
  /\ UNCHANGED <<impls, proxies, saved, dropped, crashes, migration>>

\* sendUpgradeCall, the beacon's upgradeTo or the admin's transferOwnership: one call
\* through a facade.
Send(i) ==
  /\ At(i, "send")
  /\ LET c == calls[i]
         what == IF c.name = "transferProxyAdminOwnership" THEN "transfer" ELSE "upgrade"
     IN \/ /\ Len(txs) < migration.txs
           /\ txs' = Append(txs, [NewTx(what, "-", c.impl, c.target, c.checked, i)
                                     EXCEPT !.owner = c.newOwner])
           /\ Goes(i, [c EXCEPT !.tx = Len(txs) + 1], << >>)
           /\ UNCHANGED <<back, told>>
        \/ Refuse(i, {}) /\ UNCHANGED txs
  /\ UNCHANGED <<impls, proxies, saved, dropped, crashes, migration>>

\* What a mined revert undoes: the write-back of the abstraction it went through.
undone(c) ==
  CASE c.name \in {"deployProxy", "deployBeacon", "deployBeaconProxy"} ->
         [back EXCEPT ![Facade(c)] = c.priorFacade]
    [] c.name \in {"deployImplementation", "prepareUpgrade"} ->
         [back EXCEPT ![c.contract] = c.prior]
    [] OTHER -> back

\* Mutant: a transaction nobody has a receipt for counts as confirmed.
GoesOnUndecided(i) ==
  /\ At(i, "confirm")
  /\ LET c == calls[i]
     IN \/ /\ c.tx = 0
           /\ Goes(i, c, << >>) /\ UNCHANGED <<back, told>>
        \/ /\ c.tx # 0 /\ txs[c.tx].status # "reverted"
           /\ Goes(i, [c EXCEPT !.confirmed = TRUE], << >>) /\ UNCHANGED <<back, told>>
        \/ c.tx # 0 /\ txs[c.tx].status = "reverted" /\ RefuseAs("refused", i, {}, undone(c))
  /\ UNCHANGED <<txs, impls, proxies, saved, dropped, crashes, migration>>

\* confirmTransaction and the branches on its verdict: a receipt decides, and
\* without one the outcome stays open, named and never sent again.  After it
\* deployProxy compares the signer.  A reused implementation has nothing to
\* confirm.
Confirm(i) ==
  /\ At(i, "confirm")
  /\ LET c == calls[i]
     IN \/ /\ c.tx = 0
           /\ Goes(i, c, << >>) /\ UNCHANGED <<back, told>>
        \/ /\ c.tx # 0 /\ txs[c.tx].status = "landed"
           /\ Goes(i, [c EXCEPT !.confirmed = TRUE], << >>) /\ UNCHANGED <<back, told>>
        \/ /\ c.tx # 0 /\ txs[c.tx].status = "reverted"
           /\ RefuseAs("refused", i, {}, undone(c))
        \/ c.tx # 0 /\ Refuse(i, {c.tx})
  /\ UNCHANGED <<txs, impls, proxies, saved, dropped, crashes, migration>>

\* The slot or the beacon is read again and must hold the new implementation, the
\* admin and have the new owner; the read itself can fail.
Verify(i) ==
  /\ At(i, "verify")
  /\ LET c == calls[i]
         transfer == c.name = "transferProxyAdminOwnership"
         holds == IF transfer THEN txs[c.target].owner = c.newOwner
                  ELSE txs[c.target].points = c.impl
     IN \/ /\ holds
           /\ Goes(i, c, << >>) /\ UNCHANGED <<back, told>>
        \/ ~holds /\ ~transfer /\ Refuse(i, {c.tx})
        \/ Refuse(i, {})
  /\ UNCHANGED <<txs, impls, proxies, saved, dropped, crashes, migration>>

\* The proxy the record is about, and whether this operation records it: an
\* upgrade and an adoption only one it does not hold, an adoption never a
\* beacon proxy, a beacon or an implementation.
subject(c) == IF c.name \in {"deployProxy", "deployBeaconProxy"} THEN c.tx ELSE c.target
records(c) ==
  CASE c.name \in {"deployProxy", "deployBeaconProxy"} -> TRUE
    [] c.name = "upgradeProxy" -> ~Recorded(c.target)
    [] OTHER -> txs[c.target].what \in ProxyWhats /\ ~Recorded(c.target)

\* Mutant: the write's failure is passed on as it is.
RecordBare(i) ==
  /\ At(i, "record")
  /\ LET c == calls[i]
         p == subject(c)
     IN \/ /\ ~records(c)
           /\ Goes(i, c, << >>) /\ UNCHANGED <<proxies, back, told>>
        \/ /\ records(c)
           /\ proxies' = [q \in DOMAIN proxies \cup {p} |->
                            IF q = p THEN RecordedKind(txs[p].what) ELSE proxies[q]]
           /\ Goes(i, c, << >>) /\ UNCHANGED <<back, told>>
        \/ Refuse(i, {}) /\ UNCHANGED proxies
  /\ UNCHANGED <<txs, impls, saved, dropped, crashes, migration>>

\* recordingLiveProxy names the proxy when the write fails; the lookup ahead of
\* an upgrade's write, and an adoption's write, fail as themselves.
Record(i) ==
  /\ At(i, "record")
  /\ LET c == calls[i]
         p == subject(c)
     IN \/ /\ ~records(c)
           /\ Goes(i, c, << >>) /\ UNCHANGED <<proxies, back, told>>
        \/ /\ records(c)
           /\ proxies' = [q \in DOMAIN proxies \cup {p} |->
                            IF q = p THEN RecordedKind(txs[p].what) ELSE proxies[q]]
           /\ Goes(i, c, << >>) /\ UNCHANGED <<back, told>>
        \/ records(c) /\ c.name # "forceImport" /\ Refuse(i, {c.tx, p}) /\ UNCHANGED proxies
        \/ c.name \in {"upgradeProxy", "forceImport"} /\ Refuse(i, {}) /\ UNCHANGED proxies
  /\ UNCHANGED <<txs, impls, saved, dropped, crashes, migration>>

\* deployProxy's last assignment: the user's artifact names the proxy.
WriteBack(i) ==
  /\ At(i, "writeBack")
  /\ back' = [back EXCEPT ![calls[i].contract] = calls[i].tx]
  /\ Goes(i, calls[i], << >>)
  /\ UNCHANGED <<txs, impls, proxies, saved, told, dropped, crashes, migration>>

\* The result, with its address and its transaction; attaching the contract to
\* it is the last thing that can fail.
Report(i) ==
  /\ At(i, "report")
  /\ LET c == calls[i]
     IN \/ /\ calls' = [calls EXCEPT ![i].todo = << >>, ![i].outcome = "ok"]
           /\ told' = told \cup ({c.tx, c.impl} \ {0})
           /\ UNCHANGED back
        \/ c.name \notin {"deployImplementation", "prepareUpgrade", "transferProxyAdminOwnership"}
           /\ Refuse(i, {})
  /\ UNCHANGED <<txs, impls, proxies, saved, dropped, crashes, migration>>

-----------------------------------------------------------------------------
(* The chain, the host and the run *)

\* A transaction executes, whether or not anybody still waits for it; what only the
\* owner of the proxy's admin may do, while the sender is the owner.
Land(t) ==
  /\ txs[t].status = "pending"
  /\ txs[t].at # 0 => txs[txs[t].at].owner = "sender"
  /\ txs' = CASE txs[t].what = "upgrade" ->
                   [txs EXCEPT ![t].status = "landed", ![t].replaced = txs[txs[t].at].points,
                               ![txs[t].at].points = txs[t].points]
              [] txs[t].what = "transfer" ->
                   [txs EXCEPT ![t].status = "landed", ![txs[t].at].owner = txs[t].owner]
              [] OTHER -> [txs EXCEPT ![t].status = "landed"]
  /\ UNCHANGED <<impls, proxies, back, saved, calls, told, dropped, crashes, migration>>

\* It executes and fails, or is never included.
Fail(t) ==
  /\ txs[t].status = "pending"
  /\ txs' = [txs EXCEPT ![t].status = "reverted"]
  /\ UNCHANGED <<impls, proxies, back, saved, calls, told, dropped, crashes, migration>>

\* The host persists the artifacts once the migration's calls are over.
Save ==
  /\ \A i \in DOMAIN calls : Settled(i)
  /\ saved' = back
  /\ UNCHANGED <<txs, impls, proxies, back, calls, told, dropped, crashes, migration>>

\* The run dies: its calls go with it, and the next run reads the artifacts
\* from disk.
Crash ==
  /\ crashes < migration.crashes
  /\ crashes' = crashes + 1
  /\ back' = saved
  /\ calls' = [i \in DOMAIN calls |->
       IF Settled(i) THEN calls[i] ELSE [calls[i] EXCEPT !.todo = << >>, !.outcome = "crashed"]]
  /\ UNCHANGED <<txs, impls, proxies, saved, told, dropped, migration>>

Step(i) ==
  \/ Open(i) \/ Check(i) \/ Fetch(i) \/ Store(i) \/ Mine(i) \/ Create(i) \/ Send(i)
  \/ Confirm(i) \/ Verify(i) \/ Record(i) \/ WriteBack(i) \/ Report(i)

Next ==
  \/ \E name \in migration.operations, c \in migration.contracts,
        kind \in migration.kinds, redeploy \in migration.redeploys,
        a \in {0} \cup DOMAIN txs,      \* an address the host gave out
        o \in Owner :
       /\ (name \in Targeted) = (a # 0)
       /\ (name = "transferProxyAdminOwnership") = (o # "sender")
       /\ CallOperation(name, c, kind, redeploy, a, o)
  \/ \E i \in DOMAIN calls : Step(i)
  \/ \E t \in DOMAIN txs : Land(t) \/ Fail(t)
  \/ Save
  \/ Crash

Spec == Init /\ [][Next]_vars

-----------------------------------------------------------------------------
(* Properties *)

\* A proxy that landed for a call which settled is in the record, or a refusal
\* named it: after the spend, deployProxy and deployBeaconProxy never end
\* without one or the other (toolkit.recordProxy, recordingLiveProxy, and the
\* `live` that every refusal below the deploy carries).
LiveProxiesAreAccountedFor ==
  \A t \in DOMAIN txs :
    /\ Is(t, ProxyWhats \cup {"beacon-proxy"}) /\ txs[t].by # 0
    /\ Settled(txs[t].by) /\ calls[txs[t].by].outcome # "crashed"
    => Recorded(t) \/ t \in told

\* Everything has its type, and what the record holds exists, under the kind the
\* chain shows: an undecided or reverted creation is never recorded by any path,
\* adoption included.
RecordedProxiesAreReal ==
  /\ TypeOK
  /\ \A p \in DOMAIN proxies : Created(p) /\ proxies[p] = RecordedKind(txs[p].what)

\* Whatever a recorded proxy runs, now or after an upgrade that landed late, its
\* layout is stored: storedLayoutFor can compare the next upgrade.  (An entry
\* the engine drops takes the other addresses of its version along.)
RecordedProxiesHaveLayouts ==
  \A p \in DOMAIN proxies :
    proxies[p] # "beacon" => Remembered(Behind(p)) \/ Behind(p) \in dropped

\* An upgrade that lands displaces the implementation whose layout it was
\* compared with: between upgradeProxy's read of the slot and its transaction
\* nothing else upgrades the proxy, unless some upgrade of that proxy was left
\* without a verdict.
UpgradesReplaceWhatTheyChecked ==
  \A t \in DOMAIN txs :
    txs[t].what = "upgrade" /\ txs[t].status = "landed" /\ txs[t].replaced # txs[t].checked
    => \E u \in DOMAIN txs :
         /\ txs[u].what = "upgrade" /\ txs[u].at = txs[t].at /\ txs[u].status = "landed"
         /\ ~calls[txs[u].by].confirmed

\* deployProxy never refuses over an address this plugin's own operations left
\* in the artifact: what they leave there the record vouches for
\* (decideDeployReplay, the known-implementation exception, and the
\* restoration of a failed step's write-back), but for an implementation the engine
\* dropped along with a judged one, and what a standalone deployment that failed left.
OwnWritesAreVouchedFor ==
  \A i \in DOMAIN calls :
    calls[i].outcome = "stale" =>
      \/ calls[i].before \in dropped
      \/ \E j \in DOMAIN calls :
           /\ calls[j].name \in {"deployImplementation", "prepareUpgrade"}
           /\ calls[j].outcome = "refused" /\ calls[j].tx = calls[i].before

\* A compound step that fails leaves the user's artifact as the call found it,
\* on every failing exit (restoringWriteBackOnFailure).
FailureLeavesArtifact ==
  [][\A i \in DOMAIN calls :
       /\ calls[i].name \in Restoring /\ ~Settled(i)
       /\ calls'[i].outcome = "refused" /\ Head(calls[i].todo) \notin {"open", "report"}
       => back'[calls[i].contract] = calls[i].before]_vars

\* Without 'always', a version is live or under way at one address only,
\* whatever failed, timed out or landed late in between: a later call fetches
\* what an earlier one deployed.
ImplementationsAreReused ==
  \A t, u \in DOMAIN txs :
    /\ txs[t].what = "implementation" /\ txs[u].what = "implementation"
    /\ txs[t].of = txs[u].of /\ t # u /\ txs[t].by # 0 /\ txs[u].by # 0
    /\ txs[t].status # "reverted" /\ txs[u].status # "reverted"
    => \E v \in {t, u} : \/ calls[txs[v].by].redeploy = "always"
                         \/ calls[txs[v].by].outcome = "crashed"

\* "Success is the chain's answer, not the receipt's" (admin/index.ts:102): a transfer that
\* was reported, sent or found to be done, has happened to the owner it was asked for,
\* also when an earlier one that was given up lands in between.
TransfersHold ==
  \A i \in DOMAIN calls :
    calls[i].name = "transferProxyAdminOwnership" /\ calls[i].outcome = "ok"
    => txs[calls[i].target].owner = calls[i].newOwner

-----------------------------------------------------------------------------
(* What the documentation states and the code does otherwise *)

\* README.md, "A failed operation is safe to re-run": a deployProxy is refused
\* as stale only over a transaction some refusal named as undecided.
FailedOperationsCanBeRerun ==
  \A i \in DOMAIN calls :
    calls[i].outcome = "stale" => calls[i].before \in told

\* README.md, "No refusal after a confirmed on-chain write withholds the
\* address": it names the address and the transaction.
ConfirmedWritesAreNamed ==
  \A i \in DOMAIN calls :
    calls[i].outcome = "refused" /\ calls[i].confirmed => calls[i].tx \in told
=============================================================================
