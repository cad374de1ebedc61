-------------------------- MODULE HardhatOperations --------------------------
(***************************************************************************)
(* The operations of the Hardhat plugin.  Unlike the TronBox package it    *)
(* has no mutex and no queue: calls nobody awaits, and the calls of other  *)
(* processes, interleave at every leg.  What they share is the chain and   *)
(* the manifest, a file read with or without its lock and rewritten under  *)
(* it; the engine holds that lock across the deployment of an              *)
(* implementation.  Any leg can fail, a transaction can take effect though *)
(* its call rejects, and a process can die holding the lock.               *)
(*                                                                         *)
(* An address is the number of the contract on the chain; 0 is none.       *)
(***************************************************************************)
EXTENDS Naturals, Sequences

CONSTANTS
  Contracts,     \* the user's contracts, one version each
  Upgradeable,   \* those with an upgrade function of their own
  Projects       \* what an instance starts from and calls

VARIABLES
  chain,      \* the contracts deployed so far
  manifest,   \* the file
  lock,       \* the call that holds the manifest's lock
  calls,      \* in the order they were made; any of them may go on
  dropped,    \* history: addresses that left the manifest beside a judged one
  crashes,
  project

vars == <<chain, manifest, lock, calls, dropped, crashes, project>>

Address == Nat
Elements(s) == {s[k] : k \in DOMAIN s}

Kind == {"transparent", "uups"}
What == {"implementation", "transparent", "uups", "beacon", "beacon-proxy"}
Code == [what : What, of : Contracts \cup {"-"}, points : Address, live : BOOLEAN, by : Nat]

\* `lower` holds the addresses stored in another casing than EIP-55: the engine
\* finds nothing under those.
Manifest == [impls : [Contracts -> Seq(Address)],
             proxies : SUBSET [at : Address, kind : Kind \cup {"beacon"}],
             lower : SUBSET Address]
blank == [impls |-> [c \in Contracts |-> << >>], proxies |-> {}, lower |-> {}]

\* The legs of each operation, in the order of the code; a fetch and the two legs
\* before it are resolveImplementation, the manifest's preflight and the engine's section.
Pipeline ==
  [deployProxy          |-> <<"scan", "kind", "scan", "enter", "fetch", "create", "enter", "record">>,
   upgradeProxy         |-> <<"scan", "lookup", "check", "scan", "enter", "fetch", "send", "verify", "record?">>,
   deployBeacon         |-> <<"scan", "scan", "enter", "fetch", "create">>,
   deployBeaconProxy    |-> <<"scan", "create", "enter", "record">>,
   upgradeBeacon        |-> <<"scan", "check", "scan", "enter", "fetch", "send", "verify">>,
   deployImplementation |-> <<"scan", "enter", "fetch">>,
   prepareUpgrade       |-> <<"scan", "lookup", "check", "scan", "enter", "fetch">>,
   validateUpgrade      |-> <<"scan", "lookup", "check">>,
   forceImport          |-> <<"scan", "inspect", "enter", "recordImpl", "record?">>]
Operation == DOMAIN Pipeline
Leg == {"scan", "enter", "rewrite", "fetch", "deploy", "store", "mine", "remove", "kind", "lookup",
        "check", "create", "record", "send", "verify", "record?", "inspect", "recordImpl"}

Start == {"fresh", "legacy", "drifted", "stale", "foreign", "stale-and-foreign"}
Project == [start : Start, of : Contracts, operations : SUBSET Operation, contracts : SUBSET Contracts,
            asked : SUBSET (Kind \cup {"infer"}), redeploys : SUBSET {"onchange", "always", "never"},
            calls : Nat, codes : Nat, crashes : Nat]

Call == [name : Operation, contract : Contracts, asked : Kind \cup {"infer"},
         redeploy : {"onchange", "always", "never"}, target : Address,
         todo : Seq(Leg), outcome : {"", "ok", "refused", "crashed"},
         seen : Manifest,       \* what it last read of the manifest, while it needs it
         kind : Kind \cup {"beacon", "-"}, known : BOOLEAN,
         impl : Address, new : Address, retried : BOOLEAN]

TypeOK ==
  /\ project \in Projects
  /\ chain \in Seq(Code) /\ Len(chain) <= project.codes
  /\ manifest \in Manifest
  /\ calls \in Seq(Call) /\ Len(calls) <= project.calls
  /\ lock \in 0..Len(calls)
  /\ dropped \subseteq DOMAIN chain
  /\ crashes \in 0..project.crashes

\* A contract on the chain, and the proxy somebody put before implementation a.
Deployed(what, of, points, i) == [what |-> what, of |-> of, points |-> points, live |-> TRUE, by |-> i]
twin(p) == IF p.of \in Upgradeable THEN "uups" ELSE "transparent"
world(p) == <<Deployed("implementation", p.of, 0, 0), Deployed(twin(p), "-", 1, 0)>>

\* Deployed and recorded before addresses were canonicalized; upgraded since by
\* somebody else; an implementation the manifest remembers and the chain lost;
\* a proxy nobody recorded.
chainOf(p) ==
  CASE p.start = "fresh" -> << >>
    [] p.start \in {"legacy", "foreign"} -> world(p)
    [] p.start = "drifted" ->
         Append([world(p) EXCEPT ![2].points = 3], Deployed("implementation", p.of, 0, 0))
    [] p.start = "stale" -> <<[Deployed("implementation", p.of, 0, 0) EXCEPT !.live = FALSE]>>
    [] p.start = "stale-and-foreign" ->
         Append(world(p), [Deployed("implementation", p.of, 0, 0) EXCEPT !.live = FALSE])
manifestOf(p) ==
  CASE p.start \in {"legacy", "drifted"} ->
         [blank EXCEPT !.impls[p.of] = <<1>>, !.proxies = {[at |-> 2, kind |-> twin(p)]}, !.lower = {1, 2}]
    [] p.start = "stale" -> [blank EXCEPT !.impls[p.of] = <<1>>]
    [] p.start = "stale-and-foreign" -> [blank EXCEPT !.impls[p.of] = <<3>>]
    [] OTHER -> blank

\* An instance has room for what its project starts from.
ASSUME ProjectsAssumption ==
  /\ Projects \subseteq Project /\ Upgradeable \subseteq Contracts
  /\ \A p \in Projects : Len(chainOf(p)) <= p.codes

Init ==
  /\ project \in Projects
  /\ chain = chainOf(project)
  /\ manifest = manifestOf(project)
  /\ lock = 0
  /\ calls = << >>
  /\ dropped = {}
  /\ crashes = 0

-----------------------------------------------------------------------------
(* What the chain and the manifest answer *)

Is(a, whats) == a \in DOMAIN chain /\ chain[a].live /\ chain[a].what \in whats

\* The implementation that runs behind an address: its slot, through the beacon for
\* a beacon proxy, itself otherwise.
Behind(a) ==
  CASE chain[a].what \in Kind \cup {"beacon"} -> chain[a].points
    [] chain[a].what = "beacon-proxy" -> chain[chain[a].points].points
    [] OTHER -> a

\* Held in whatever casing, and as a strict comparison finds it.
Remembered(m) == UNION {Elements(m.impls[c]) : c \in Contracts}
Recorded(m, a) == \E p \in m.proxies : p.at = a
RecordedStrictly(m, a) == Recorded(m, a) /\ a \notin m.lower
kindsOf(m, a) == {p.kind : p \in {q \in m.proxies : q.at = a}}

inferred(c) == IF c \in Upgradeable THEN "uups" ELSE "transparent"

\* The kind an operation asks for, and whether validation accepts its contract
\* as that kind: a uups contract brings its upgrade function.
asks(c) == IF c.asked = "infer" THEN inferred(c.contract) ELSE c.asked
Fits(kind, contract) == kind = "uups" => contract \in Upgradeable

-----------------------------------------------------------------------------
(* Calls *)

Settled(i) == calls[i].outcome # ""
At(i, leg) == i \in DOMAIN calls /\ ~Settled(i) /\ Head(calls[i].todo) = leg

\* Call i goes on to its next leg as the record c, by way of `more` if given.
Goes(i, c, more) ==
  LET todo == more \o Tail(c.todo)
  IN calls' = [calls EXCEPT ![i] = [c EXCEPT !.todo = todo, !.outcome = IF todo = << >> THEN "ok" ELSE ""]]
Ends(i, outcome) ==
  calls' = [calls EXCEPT ![i].todo = << >>, ![i].outcome = outcome, ![i].seen = blank]
Refuse(i) == Ends(i, "refused")

CallOperation(name, contract, asked, redeploy, target) ==
  /\ Len(calls) < project.calls
  /\ calls' = Append(calls,
       [name |-> name, contract |-> contract, asked |-> asked, redeploy |-> redeploy, target |-> target,
        todo |-> Pipeline[name], outcome |-> "", seen |-> blank, kind |-> "-", known |-> FALSE,
        impl |-> 0, new |-> 0, retried |-> FALSE])
  /\ UNCHANGED <<chain, manifest, lock, dropped, crashes, project>>

-----------------------------------------------------------------------------
(* The manifest and its lock *)

\* Mutant: the rewrite leaves the proxies' addresses out.
withoutProxies(m) == [m EXCEPT !.lower = @ \ Remembered(m)]

\* canonicalizeStoredAddresses: every stored address in its EIP-55 form.
rewritten(m) == [m EXCEPT !.lower = {}]

\* getManifest, first read: without the lock, to see whether the file needs a rewrite.
Scan(i) ==
  /\ At(i, "scan")
  /\ LET c == calls[i]
     IN \/ /\ rewritten(manifest) = manifest
           /\ Goes(i, c, << >>)
        \/ /\ rewritten(manifest) # manifest
           /\ Goes(i, [c EXCEPT !.seen = manifest], <<"enter", "rewrite">>)
        \/ Refuse(i)
  /\ UNCHANGED <<chain, manifest, lock, dropped, crashes, project>>

\* Mutant: the engine reads the manifest before it takes the lock.
looksFirst(i) == lock = 0 \/ calls[i].todo[2] = "fetch"

free(i) == lock = 0

\* Mutant: the rewrite goes by the read that found it necessary.
keptRead(c) == IF c.todo[2] = "rewrite" THEN c.seen ELSE manifest

freshRead(c) == manifest

\* lockedRun, and the read inside; its retries end while another call holds on.
Enter(i) ==
  /\ At(i, "enter")
  /\ \/ /\ free(i)
        /\ lock' = i
        /\ Goes(i, [calls[i] EXCEPT !.seen = freshRead(calls[i])], << >>)
     \/ lock # 0 /\ Refuse(i) /\ UNCHANGED lock
  /\ UNCHANGED <<chain, manifest, dropped, crashes, project>>

\* The end of a section: m is written, and call i goes on.
Writes(i, m, more) ==
  /\ manifest' = m
  /\ lock' = 0
  /\ Goes(i, [calls[i] EXCEPT !.seen = blank], more)

\* A section that fails leaves its lock.
Fails(i) == Refuse(i) /\ lock' = 0 /\ UNCHANGED manifest

Rewrite(i) ==
  /\ At(i, "rewrite")
  /\ Writes(i, rewritten(calls[i].seen), << >>)
  /\ UNCHANGED <<chain, dropped, crashes, project>>

\* Mutant: the new address takes the version's place.
assigned(s, a) == <<a>>

\* Merge, never assign: the version keeps its primary.
merged(s, a) == IF a \in Elements(s) THEN s ELSE Append(s, a)

RecordImpl(i) ==
  /\ At(i, "recordImpl")
  /\ LET c == calls[i]
     IN \/ Writes(i, [c.seen EXCEPT !.impls[c.contract] = merged(@, c.impl)], << >>)
        \/ Fails(i)
  /\ UNCHANGED <<chain, dropped, crashes, project>>

\* addProxyToManifest, with the entry it replaces.
subject(c) == IF c.new # 0 THEN c.new ELSE c.target
RecordProxy(i) ==
  /\ At(i, "record")
  /\ LET c == calls[i]
         same == {p \in c.seen.proxies : p.at = subject(c) /\ p.at \notin c.seen.lower}
     IN \/ Writes(i, [c.seen EXCEPT !.proxies = (@ \ same) \cup {[at |-> subject(c), kind |-> c.kind]}], << >>)
        \/ Fails(i)
  /\ UNCHANGED <<chain, dropped, crashes, project>>

\* An upgrade records a proxy its first look did not find, an adoption every proxy.
RecordIfNeeded(i) ==
  /\ At(i, "record?")
  /\ LET c == calls[i]
         needed == IF c.name = "upgradeProxy" THEN ~c.known ELSE c.kind # "-"
     IN Goes(i, c, IF needed THEN <<"enter", "record">> ELSE << >>)
  /\ UNCHANGED <<chain, manifest, lock, dropped, crashes, project>>

-----------------------------------------------------------------------------
(* The implementation: the engine's fetchOrDeploy, its lock held throughout *)

\* Under the lock: the manifest's primary, if there is code behind it, unless a
\* fresh one is asked for; a primary without code is taken for an invalid entry.
Fetch(i) ==
  /\ At(i, "fetch")
  /\ LET c == calls[i]
         entry == c.seen.impls[c.contract]
         held == entry # << >>
         live == held /\ chain[Head(entry)].live
         done == [c EXCEPT !.seen = blank]
     IN \/ /\ held /\ ~live
           /\ lock' = 0
           /\ Goes(i, [done EXCEPT !.impl = Head(entry)], <<"mine">>)
        \/ /\ live /\ c.redeploy # "always"
           /\ lock' = 0
           /\ Goes(i, [done EXCEPT !.impl = Head(entry)], << >>)
        \/ /\ IF held THEN live /\ c.redeploy = "always" ELSE c.redeploy # "never"
           /\ Goes(i, c, <<"deploy">>) /\ UNCHANGED lock
        \/ Refuse(i) /\ lock' = 0
  /\ UNCHANGED <<chain, manifest, dropped, crashes, project>>

\* The plugin's callback: the deployment is sent, and takes effect or not; a call
\* that rejects may leave the contract on the chain.
Deploy(i) ==
  /\ At(i, "deploy")
  /\ Len(chain) < project.codes
  /\ LET c == calls[i]
         a == Len(chain) + 1
         code == Deployed("implementation", c.contract, 0, i)
     IN \/ \E live \in BOOLEAN :
             /\ chain' = Append(chain, [code EXCEPT !.live = live])
             /\ Goes(i, [c EXCEPT !.impl = a], <<"store", "mine">>)
             /\ UNCHANGED lock
        \/ chain' = Append(chain, code) /\ Refuse(i) /\ lock' = 0
        \/ Refuse(i) /\ lock' = 0 /\ UNCHANGED chain
  /\ UNCHANGED <<manifest, dropped, crashes, project>>

Store(i) ==
  /\ At(i, "store")
  /\ LET c == calls[i]
     IN \/ Writes(i, [c.seen EXCEPT !.impls[c.contract] = Append(@, c.impl)], << >>)
        \/ Fails(i)
  /\ UNCHANGED <<chain, dropped, crashes, project>>

\* The engine waits for the deployment; one with no code behind it is invalid.
Mine(i) ==
  /\ At(i, "mine")
  /\ LET c == calls[i]
     IN \/ chain[c.impl].live /\ Goes(i, c, << >>)
        \/ ~chain[c.impl].live /\ Goes(i, c, <<"enter", "remove">>)
        \/ Refuse(i)
  /\ UNCHANGED <<chain, manifest, lock, dropped, crashes, project>>

\* The engine's removal, with every address merged into the version; the plugin
\* then tries once more, except under 'never'.
Remove(i) ==
  /\ At(i, "remove")
  /\ LET c == calls[i]
         entry == c.seen.impls[c.contract]
         judged == entry # << >> /\ Head(entry) = c.impl
         retries == ~c.retried /\ c.redeploy # "never"
     IN /\ manifest' = IF judged THEN [c.seen EXCEPT !.impls[c.contract] = << >>] ELSE c.seen
        /\ dropped' = IF judged THEN dropped \cup Elements(entry) ELSE dropped
        /\ lock' = 0
        /\ IF retries
           THEN Goes(i, [c EXCEPT !.retried = TRUE, !.seen = blank], <<"enter", "fetch">>)
           ELSE Refuse(i)
  /\ UNCHANGED <<chain, crashes, project>>

-----------------------------------------------------------------------------
(* What an operation reads before it writes *)

\* deployProxy settles its kind from the options or the contract.
Decide(i) ==
  /\ At(i, "kind")
  /\ LET c == calls[i]
     IN \/ Fits(asks(c), c.contract) /\ Goes(i, [c EXCEPT !.kind = asks(c)], << >>)
        \/ Refuse(i)
  /\ UNCHANGED <<chain, manifest, lock, dropped, crashes, project>>

\* The record and the kind of an upgrade: the engine compares the kind asked for
\* or inferred with the recorded one, which it finds by a strict comparison.  A
\* beacon proxy is refused by an upgrade; a reference that is one, or a beacon, is
\* read through it.
Lookup(i) ==
  /\ At(i, "lookup")
  /\ LET c == calls[i]
         strict == IF RecordedStrictly(manifest, c.target) THEN kindsOf(manifest, c.target) ELSE {}
         goes(kind) == /\ Fits(kind, c.contract)
                       /\ Goes(i, [c EXCEPT !.kind = kind, !.known = Recorded(manifest, c.target)], << >>)
     IN \/ Is(c.target, Kind) /\ strict \subseteq {asks(c)} /\ goes(asks(c))
        \/ Is(c.target, {"beacon", "beacon-proxy"}) /\ c.name # "upgradeProxy" /\ goes("beacon")
        \/ Is(c.target, {"implementation"}) /\ c.name # "upgradeProxy" /\ c.asked # "infer" /\ goes(c.asked)
        \/ Refuse(i)
  /\ UNCHANGED <<chain, manifest, lock, dropped, crashes, project>>

\* Chain first: what runs now, its layout by that address, the comparison, and the
\* authority an upgrade is sent to.
Check(i) ==
  /\ At(i, "check")
  /\ LET c == calls[i]
     IN \/ /\ Is(c.target, IF c.name = "upgradeBeacon" THEN {"beacon"} ELSE What)
           /\ Behind(c.target) \in Remembered(manifest) \ manifest.lower
           /\ c.name = "upgradeProxy" /\ c.kind = "transparent" => chain[c.target].what = "transparent"
           /\ Goes(i, c, << >>)
        \/ Refuse(i)
  /\ UNCHANGED <<chain, manifest, lock, dropped, crashes, project>>

\* forceImport: the implementation behind a proxy, a beacon or nothing; the kind
\* of a proxy is the one asked for, the beacon it has, or inferred.
Inspect(i) ==
  /\ At(i, "inspect")
  /\ LET c == calls[i]
         what == chain[c.target].what
         kind == CASE what = "beacon-proxy" /\ c.asked = "infer" -> "beacon"
                   [] what \in Kind \cup {"beacon-proxy"} -> asks(c)
                   [] OTHER -> "-"
     IN \/ /\ Is(c.target, What)
           /\ kind = "transparent" => what = "transparent"
           /\ Fits(IF what = "beacon" THEN "beacon" ELSE kind, c.contract)
           /\ Goes(i, [c EXCEPT !.kind = kind, !.impl = Behind(c.target)], << >>)
        \/ Refuse(i)
  /\ UNCHANGED <<chain, manifest, lock, dropped, crashes, project>>

-----------------------------------------------------------------------------
(* The transactions of the operation itself *)

\* The proxy or the beacon; a beacon proxy only over a beacon.
Create(i) ==
  /\ At(i, "create")
  /\ LET c == calls[i]
         what == CASE c.name = "deployProxy" -> c.kind
                   [] c.name = "deployBeacon" -> "beacon"
                   [] OTHER -> "beacon-proxy"
         code == Deployed(what, "-", IF what = "beacon-proxy" THEN c.target ELSE c.impl, i)
         kind == IF what = "beacon-proxy" THEN "beacon" ELSE c.kind
     IN \/ /\ Len(chain) < project.codes
           /\ what = "beacon-proxy" => Is(c.target, {"beacon"})
           /\ chain' = Append(chain, code)
           /\ \/ Goes(i, [c EXCEPT !.new = Len(chain) + 1, !.kind = kind], << >>)
              \/ Refuse(i)
        \/ Refuse(i) /\ UNCHANGED chain
  /\ UNCHANGED <<manifest, lock, dropped, crashes, project>>

\* Through the admin, the beacon, or the proxy itself, where the current
\* implementation must bring the entry point.
Reaches(c) == c.kind = "uups" => chain[Behind(c.target)].of \in Upgradeable
Send(i) ==
  /\ At(i, "send")
  /\ LET c == calls[i]
     IN \/ /\ Reaches(c)
           /\ chain' = [chain EXCEPT ![c.target].points = c.impl]
           /\ Goes(i, c, << >>) \/ Refuse(i)
        \/ Refuse(i) /\ UNCHANGED chain
  /\ UNCHANGED <<manifest, lock, dropped, crashes, project>>

\* Trust, but verify: the slot or the beacon must now hold the new implementation.
Verify(i) ==
  /\ At(i, "verify")
  /\ LET c == calls[i]
     IN \/ chain[c.target].points = c.impl /\ Goes(i, c, << >>)
        \/ Refuse(i)
  /\ UNCHANGED <<chain, manifest, lock, dropped, crashes, project>>

-----------------------------------------------------------------------------
(* Dead processes *)

\* The process of a call dies where it stands, with the lock if it had it.
Crash(i) ==
  /\ i \in DOMAIN calls /\ ~Settled(i)
  /\ crashes < project.crashes
  /\ crashes' = crashes + 1
  /\ Ends(i, "crashed")
  /\ UNCHANGED <<chain, manifest, lock, dropped, project>>

\* A lock nobody refreshes any more goes stale.
LockExpires ==
  /\ lock # 0 /\ Settled(lock)
  /\ lock' = 0
  /\ UNCHANGED <<chain, manifest, calls, dropped, crashes, project>>

Step(i) ==
  \/ Scan(i) \/ Enter(i) \/ Rewrite(i) \/ RecordImpl(i) \/ RecordProxy(i) \/ RecordIfNeeded(i)
  \/ Fetch(i) \/ Deploy(i) \/ Store(i) \/ Mine(i) \/ Remove(i)
  \/ Decide(i) \/ Lookup(i) \/ Check(i) \/ Inspect(i) \/ Create(i) \/ Send(i) \/ Verify(i)

Next ==
  \/ \E name \in project.operations, contract \in project.contracts, asked \in project.asked,
        redeploy \in project.redeploys, target \in 0..Len(chain) :
       /\ target \in DOMAIN chain \/ (target = 0 /\ name \in {"deployProxy", "deployBeacon", "deployImplementation"})
       /\ target # 0 => name \notin {"deployProxy", "deployBeacon", "deployImplementation"}
       /\ CallOperation(name, contract, asked, redeploy, target)
  \/ \E i \in DOMAIN calls : Step(i)
  \/ \E i \in DOMAIN calls : Crash(i)
  \/ LockExpires

Spec == Init /\ [][Next]_vars

-----------------------------------------------------------------------------
(* Properties *)

\* Entries outlive every interleaving (utils/manifest.ts:103-106, 108-131): an
\* address or a proxy the manifest once held is still in it, whatever other calls
\* read before, save what the engine removed as invalid, and a stored address
\* never returns to a casing the engine does not find.
NoLostEntries ==
  [][/\ Remembered(manifest) \subseteq Remembered(manifest') \cup dropped'
     /\ {p.at : p \in manifest.proxies} \subseteq {p.at : p \in manifest'.proxies}
     /\ manifest'.lower \subseteq manifest.lower]_vars

\* A lost proxy record alone is recoverable (README.md:103-105): the manifest holds
\* the implementation behind every proxy and beacon this plugin deployed, even one
\* whose call failed before it could record it, and behind every proxy it recorded,
\* unless somebody else upgraded it or the engine removed the entry.
LostProxiesAreRecoverable ==
  /\ TypeOK
  /\ \A a \in DOMAIN chain :
       Is(a, Kind \cup {"beacon"}) /\ (chain[a].by # 0 \/ Recorded(manifest, a)) =>
         \/ Behind(a) \in Remembered(manifest) \cup dropped
         \/ project.start = "drifted" /\ Behind(a) = 3

\* The recorded kind stays authoritative whatever the stored casing
\* (manifest-legacy-casing.test.ts:7-12): no upgrade goes past its lookup as
\* another kind than the record's, although the engine's comparison is strict.
RecordedKindGoverns ==
  [][\A i \in DOMAIN calls :
       At(i, "lookup") /\ calls'[i].todo # calls[i].todo /\ calls'[i].outcome \in {"", "ok"}
       /\ Is(calls[i].target, Kind) => kindsOf(manifest, calls[i].target) \subseteq {calls'[i].kind}]_vars

\* Nobody deploys what the manifest already holds (utils/deploy-impl.ts:44-51): an
\* implementation deployed under 'onchange' is of a version with no live address
\* at that moment, whoever else is deploying.
ImplementationsAreReused ==
  [][\A a \in DOMAIN chain' \ DOMAIN chain :
       LET code == chain'[a]
       IN code.what = "implementation" /\ calls[code.by].redeploy = "onchange" =>
            \A b \in Elements(manifest.impls[code.of]) : ~chain[b].live]_vars
=============================================================================
