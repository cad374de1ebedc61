# TLA+ specifications of tron-upgrades

This directory models the upgrade plugins of this repository in TLA+: what they
keep on disk, what they do on the chain, in which order, and what is left when
a step fails, a transaction lands late, a node is wiped or a run dies. TLC
checks the models on small instances, TLAPS proves the theorems for all of them.

    tlc -config MCRecordSession.cfg MCRecordSession      # one run
    tlapm RecordSessionProofs.tla                        # one proof module

Paths below are relative to `src/packages/tronbox-upgrades/src/` unless they say
otherwise. PROJECT.json lists the runs, maps each definition to its source
lines, names a mutant for every checked property and lists the hazards the
properties are for.

## The system

The repository holds two npm packages with the same purpose: deploying and
upgrading OpenZeppelin proxies on TRON. `tronbox-upgrades` (23,000 lines) runs
inside TronBox migrations, `hardhat-tron-upgrades` (2,000 lines) inside
Hardhat. Both drive `@openzeppelin/upgrades-core` ("the engine"), which
validates contracts and owns the deployment record, a JSON manifest per chain
guarded by a lock file.

A TronBox migration calls operations, each a promise. One operation, from
outside in:

    deployProxy(contract, args, {deployer})         proxy/, beacon/, standalone/, adopt/, admin/
      serializeOperation        one at a time per deployer        deploy/serialize.ts
      createOperationToolkit    environment, options, chain layer,
                                and the record session            proxy/toolkit.ts
        openRecord              manifest + sidecar + lock         record/session.ts
      validate, read the chain, decide, refuse
      queue step                the host's migration queue        deploy/queue.ts
        fetchOrDeploy           the engine, under the lock
        hostDeploy / send       TronBox's .new() and calls
        confirm                 wait for a receipt                deploy/confirm.ts
        recordProxy             the engine, under the lock
      result

| Component | State it keeps | Operations | Hard part |
|---|---|---|---|
| Record session (`record/`) | manifest, sidecar, lock file; per run the identity, the comparison, the snapshot | openRecord, addProxyRecord, getProxyRecord, throughLock | two files, several processes, unlocked read before a locked write, crashes, wiped nodes |
| Chain instance (`chain/instance.ts`) | none | readChainInstanceIdentity, compareChainInstance | three reads that are not atomic; a chain without a block 1 |
| Chain layer (`chain/`) | the memoized identity | createChainAccess, send, the readers, identity | classification of answers, several requests per answer, endpoint choice |
| Operation mutex (`deploy/serialize.ts`) | map from deployer to the tail of its promise chain | serializeOperation | claim before the first await, nested calls, detached work |
| Queue bridge (`deploy/queue.ts`) | one promise per step | runThroughQueue | the host's chain before `start()`, loose promises after it |
| Confirmation (`deploy/confirm.ts`) | none | confirmTransaction | a transaction without a receipt may still land |
| Operations (`proxy/`, `beacon/`, `standalone/`, `adopt/`, `admin/`) | the chain, the record, the artifacts' per-network write-backs | the eleven public operations | every leg can fail after money was spent; re-runs |
| Validation input (`validation-input/`) | the migration's resolver cache; the build-info directory it reads | validationInput | artifact, sources and build records are three snapshots of a project that moves on |
| Environment (`environment/`) | none | resolveEnvironment | two ways to one configuration; a ladder of diagnoses |
| Output (`output/`) | notes per operation, a swapped `console.error`, the silence flag | degraded, recorded, captureEngineWarnings, silenceWarnings | a global swapped around foreign code |
| Options, results | none | defaulting, shapes of results | decision tables |
| Hardhat plugin | the same manifest, no mutex, no queue, no write-backs | the same operations | overlapping calls |

What makes each correct. *Record*: what the sidecar vouches for is true, no run
loses another's entries, a refusal that says so wrote nothing, everything ends
and frees the lock. *Mutex*: one operation per deployer at a time, in call order, and no
call hangs. *Queue*: each caller learns the end of its own step, and the host's
rule that nothing runs past a failure survives. *Operations*: what was paid for
is recorded or named, what is recorded exists and has a layout, an upgrade was
checked against what it replaces, a failed step can be repeated. *Validation
input*: what is validated is what deploys. *Environment*: no value is preferred
silently over another. *Output*: the swap never leaks, and the notes are what was
said. *Hardhat*: nothing is lost between overlapping calls.

## Modules

| Module | Models | Built on |
|---|---|---|
| ChainInstance | identity, fingerprint, comparator (operators only) | |
| RecordSession | openRecord and the record's life across runs | ChainInstance |
| RecordSessionProofs | its theorems | RecordSession, TLAPS |
| OperationTurns | what the mutex promises (abstract) | |
| OperationMutex | serializeOperation | OperationTurns by INSTANCE |
| OperationMutexProofs | its theorems and the refinement | OperationMutex, TLAPS |
| QueueBridge | runThroughQueue over the host's queue | |
| ProxyOperations | nine operations of one migration, leg by leg | |
| ProxyOperationsProofs | its inductive invariant, the effect of each step, its theorems | ProxyOperations, TLAPS |
| ChainAccess | createChainAccess, the transport, the readers, the memoized identity | |
| ChainAccessProofs | its theorems | ChainAccess, TLAPS |
| ValidationInput | the validation-input pipeline beside a project that moves on | |
| ValidationInputProofs | its theorems | ValidationInput, TLAPS |
| Environment | resolveEnvironment over the handles a host injects | |
| EnvironmentProofs | its theorems | Environment, TLAPS |
| NoteLedger | what an operation's notes promise (abstract) | |
| EngineCapture | the channels, the window around an engine call, silencing | NoteLedger by INSTANCE |
| HostSeamProofs | the theorems of EngineCapture and QueueBridge, and the refinement | EngineCapture, QueueBridge, TLAPS |
| HardhatOperations | the Hardhat plugin's operations over one manifest | |
| HardhatOperationsProofs | its theorems | HardhatOperations, TLAPS |
| MC... | constants for TLC | |

### RecordSession

The state is the chain being served (`era`, and whether it has a block 1), the
two files (`sidecar`; `manifest` with `torn` for one that cannot be read), the
`lock` file, and per process its place in `openRecord` (`pc`) with what it has
read. An entry of the manifest carries its address (`id`), the spelling it is
stored in (`form`), and the era it was deployed in, which no code can read.

Each step of `openRecord` that touches shared state is an action: Begin (the
identity), ReadFingerprint, ReadRecord (the engine's own short hold of the
lock), AcquireLock, RecheckUnderLock, WriteFingerprint, WriteRecord,
ReleaseLock, Reconcile; LockContended is the engine giving up on the lock, Diagnose
the read-only diagnosis behind an unusable sidecar. Either write can fail
(FingerprintWriteFails, RecordWriteFails), and reconcileProxies, which runs last,
refuses an address that is none and passes on a chain that does not answer: an
openRecord can end in an error after it wrote both files. What reconcileProxies
finds goes into the report and nowhere else, and is left out. A session in use
appends a proxy (AddProxyRecord) or holds the lock over a deployment (Begin-,
RecordImplDeployment, ImplDeploymentFails), and its writes can fail too
(SessionWriteFails); a lock that cannot be removed is one whose holder died. Around it: Crash, CrashWritingRecord
(the engine's write is a plain one), ExpireStaleLock, MineFirstBlock, WipeChain,
and the user's remedies.

`blessed` remembers the entries that were present when a sidecar was written
with nothing to compare against. The code never refuses there, so nothing can
be promised about those entries; all promises except them.

### OperationMutex and OperationTurns

`status` is the state of each call's promise and body, `tail` the map of
`serialize.ts`, `pred` the promise a call was chained to. A call comes from the
top level or from the asynchronous context of an operation that was entered,
running or settled since, which is what `AsyncLocalStorage` sees; it is refused
(RefuseNested), runs at once without a deployer (RunUnkeyed), or claims its slot
(Claim) and starts when its predecessor settles. `earlier` is history.
OperationTurns knows nothing of tails: a call takes its place in the order of
its deployer, and runs when all before it are over.

### QueueBridge

Before `start()` the host (TronBox's DeferredChain) keeps one chain of
reactions; the model holds it as a sequence of links: a step, the catch the host
puts behind each step, the bridge's own catch, and the final done. A rejection
travels down and skips steps. Steps registered after `start()` are promises of
their own. Raw steps registered by the migration's author stand between bridged
ones. The host is outside the repository; its links are modelled from the
description in `deploy/queue.ts` and marked external.

### ProxyOperations

A call has a pipeline of legs, in the code's order: open, check, fetch (with
store and mine, the engine's part), create or send, confirm, verify, record,
writeBack, report. One action executes one leg of the call whose turn it is.
What outlives a call is the chain (`txs`, a transaction's number doubling as the
address it creates), the record (`impls` per contract version, `proxies`), and
the address each artifact names (`back`, and `saved` on disk). A transaction
lands (Land) or fails (Fail) whenever it likes, also long after its call gave up
on it; Crash ends the run at any leg.

Choices of the model:
- Before the queue a call may be refused at any time (validation, options,
  environment): Check and Open include that as a plain alternative.
- A rejection of the host's `.new()` is a transaction that was not sent.
- The engine keeps the record entry of a deployment it timed out on, and removes
  one it judges invalid when that address is the version's primary one, which
  takes the merged addresses with it. `dropped` remembers those; properties
  that would depend on them say so.
- transparent and uups proxies differ in the dispatch of the upgrade call, not
  in anything modelled here; the runs use uups.
- A migration may start beside a proxy that nobody recorded (`foreign`), for
  forceImport.
- transferProxyAdminOwnership has its pre-read (already the owner: done without a
  transaction; somebody else's: refused) and its re-read; a transaction of a
  sender who is no longer the owner does not land.
- A second process on the same migration is not modelled here; several processes
  on one record are RecordSession's subject.

### ChainAccess

`access` and `post` follow createChainAccess: the endpoint is chosen from its
sources and given a transport (ResolveEndpoint), and one probe decides whether
there is a ChainAccess (ProbeJsonRpc). A caller then calls a reader (Call); each
Ask is one round-trip, answered by any node behind the endpoint or failing in
any way the transport tells apart. `Program` lists what each reader asks, in
order, `heard` what it was given so far, and `settles` what it makes of it. The
first call of identity() does the reading (`memo`), and the others settle with
it (Join). Meanwhile the contract is deployed or upgraded and block 1 appears.
`answeredBy` and `meanwhile` are history. The engine's forNetwork is among the
readers because the refused dev-instance probes exist for its sake; it and the
node are external. `readProxySlots` is modelled for its default labels.

### ValidationInput

An operation never compiles; it looks for a build record TronBox left that is of
the artifact it deploys. A compile is a function from source keys to texts, which
is also its record's name; a text stands for what the pipeline can tell of it
(its imports, what reaches the bytecode, whether it is abstract, namespaced, or
links a library with a long name). Resolve loads the artifact through the
migration's cache and goes down the diagnoses that need no record; Walk reads one
more source of the import closure; Consult goes through the records and ends in
an input or a refusal. In between, Edit, StartCompile, WriteRecord, WriteArtifact
and EndCompile change the project, a compile may die half way, and Damage makes a
file unreadable. NewRun is another migration.

### Environment

Spoil breaks something in what the host injects: a handle, a property behind it,
a field of a configuration may be missing, of a wrong kind, or raise. After Ask
the actions follow `resolveEnvironment` in its order, one slot or group of slots
at a time; Finish turns what was gathered into the outcome by the ladder of
`resolve.ts`. One field of a configuration stands for several that are read alike.

### EngineCapture and NoteLedger

`windows` is the stack of calls of captureEngineWarnings, `console` whose
`console.error` it is. JavaScript runs one turn at a time, so everything but the
engine itself acts between windows. A window is opened, written to, left (also by
an exception or with a promise, which is refused), restored, and its lines are
relayed one by one, with a sink that may be the console itself. The engine also
speaks outside of its windows, and is not captured there: through the asynchronous
exports the code lists as bypassing them (uncapturedEngineWarnings), and through a
refused promise, which runs on (LateWrite). Those lines reach the terminal under a
label of their own. NoteLedger knows nothing of windows: what is said about an
operation is appended, and at the end its caller is handed the first `Cap` of it
with a count of the rest, or nothing if it failed.

### HardhatOperations

The Hardhat plugin's operations as pipelines over one chain and one manifest.
There is no turn: any call in progress, of this process or another, may take the
next leg. The manifest is read without its lock (Scan, Lookup, Check) or rewritten
under it (Enter, then a leg that writes what Enter read); the engine holds the lock
from Fetch through Deploy to Store. `lower` holds addresses stored in a casing the
engine does not find, which is what the plugin's rewrite is about. A process dies
at any leg (Crash), with the lock if it had it, until LockExpires. Projects start
empty, with records of an old version, upgraded by somebody else, or beside an
entry whose code is gone.

## What is checked

| Run | Instance | Shows |
|---|---|---|
| record | 2 processes, 2 addresses, 2 eras, a node wiped only between operations, fair | TypeOK, GuardedRecord, SameIsThisChain, RefusalWroteNothing, OpenRecordIsCanonical, NoLostEntries, and that everything ends: OpenSettles, LockIsFreedAgain |
| mutex | 4 calls, 2 deployers, fair | CallOrder, EveryCallSettles, and TakesTurns: OperationMutex implements OperationTurns |
| queue | 2 bridged and 2 raw steps in every order, fair | TypeOK, AnswersForItsStep, NothingRunsPastFailure, EveryCallerLearns |
| proxies | 5 migrations of 3 calls each, 4 or 5 transactions | LiveProxiesAreAccountedFor, RecordedProxiesAreReal, UpgradesReplaceWhatTheyChecked, OwnWritesAreVouchedFor, ImplementationsAreReused, RecordedProxiesHaveLayouts, TransfersHold, FailureLeavesArtifact |
| chain | every configuration of the endpoint; 2 nodes of 2 networks, 2 callers, 2 changes of the contract, fair | AnswersAreTrue, IdentityIsOneNetwork, OnlyTheChosenEndpoint, EveryReadSettles |
| validation | 2 validations, 3 changes to a project of three files, 4 hosts | ValidatesWhatDeploys, OutputIsSelfContained, SettledProjectsAreJudgedExactly |
| environment | 5 contexts, 11 requests, 2 faults | NoPreference, DiagnosesAreTrue, TableIsTrue |
| output | 2 operations (symmetric), a cap of 2, 3 things said about each | SwapIsPrivate, WritesGoWhereTheyBelong, and KeepsTheLedger: EngineCapture implements NoteLedger |
| hardhat | 7 projects of 2 or 3 overlapping calls, at most 5 contracts, 1 crash | LostProxiesAreRecoverable, NoLostEntries, RecordedKindGoverns, ImplementationsAreReused |

Each of the other three runs checks one statement of the repository that the code
does not keep (see Findings).

The five migrations of *proxies* are: deploying, upgrading and adopting over two
contract versions; calls repeated under 'onchange' and 'never' after failures and a
dead run; beacons; adoption and 'always' beside a proxy somebody else deployed, with a
dead run; an admin that is given away between upgrades. Those of *hardhat*: a
first deployment by two callers, records of an old version met by several calls, a
proxy upgraded from outside, an implementation the chain lost under every setting,
two kinds of adoption, and beacons.

**Bounds.** The hazards of the record are between one run's unlocked read and
another's locked write: two processes reach each of them, and the second era is
enough for a chain that is not the first. One legacy entry, one incomplete and
one foreign sidecar cover the initial files an older version leaves. A cycle
through two deployers needs two deployers and three calls; the fourth gives a
chain with a middle. Two bridged and two raw steps put a raw one before,
between and behind. In ProxyOperations, checking, replacing and checking again
takes a deployment and two upgrades, so three calls; five transactions cover
two for each of two calls and a late one. The readers of ChainAccess share nothing
but identity()'s memo, so two callers of identity() or one of another reader are
all there is to interleave; two changes are a deployment and an upgrade under one
read. A wipe under a running operation (`WipeMidRun`) is left to the proofs, which
allow it everywhere but in GuardIsTruthful and SessionsMeetTheirChain. In
ValidationInput a stale validation takes an edit, a compile of it and a compile of what
came after; two files that may declare the name and one base give every shape of the closure that the
refusals tell apart. The diagnoses of Environment are about one thing that is
wrong or two that disagree, hence two faults; the proofs allow any number. Three things
said against a cap of two is one dropped note. In HardhatOperations a lost update takes two calls, and a
third finds what they left; where three give too many states the project has two.

**Fairness.** Weak fairness of a started `openRecord` and of the engine's call
under the lock (they are `async` functions awaiting I/O that ends or throws),
and of the lock library's expiry of a lock nobody refreshes. Weak fairness of a
call's reactions and body in the mutex, and of the host's `start()` and
reactions in the queue: settled promises run their reactions. Weak fairness of a
reader's round-trip in ChainAccess: TronBox's client has the user's timeout, fetch
the runtime's, and `chain/transport.ts` recognizes both. Nothing is assumed
of users, crashes, wipes or block production. ProxyOperations, ValidationInput,
Environment, EngineCapture and HardhatOperations have no liveness claim: their code is
straight-line between calls of the chain, the disk or the engine.

`CHECK_DEADLOCK FALSE` is set where a migration, a resolution or a project simply
ends.

## What is proved

In RecordSessionProofs, for any number of processes, addresses, eras, hashes and
spellings, under SpellingAssumption (canonicalization is a function and fixes
canonical values) and RecordAssumption (constants have their types, eras have
different first blocks, initial files are ones an older version can leave):

- **TypeCorrect**, TypeOK.
- **LockCorrect**: between the locked re-read and the release, the process holds
  the lock (HoldersHold) and what it read is all the record holds
  (SnapshotCovers); a re-arm saw an empty record (RearmSawNothing).
- **RearmIsOverNothing** and **EntriesAreKept** follow from it: a fingerprint is
  replaced only over an empty record, and no run drops another's entries.
- **GuardIsTruthful**: GuardedRecord, if no node is wiped under a running
  operation (`~WipeMidRun`). It is not inductive. A process past the comparison
  will write its snapshot and its entries later, so the invariant also says that
  every identity held is the served chain's (IdentityIsCurrent), that processes
  past the gate agree with the sidecar (GateIsCurrent) and that a snapshot is
  as truthful as the record (GuardedSnapshot). GuardInv is their conjunction,
  proved action by action.
- **SessionsMeetTheirChain**: SameIsThisChain, under the same assumption. SameInv,
  over GuardInv: once some process has found `same`, what the record holds, and
  what a snapshot is about to write into it, is of this chain.
- **RefusalsWriteNothing**: RefusalWroteNothing, of the refusals that promise it
  (PromisesNothing: another chain, a contended lock, an unusable sidecar); an address
  that is none and a failed write are refused later and promise nothing. RefusalInv says
  that up to the locked re-check a run has written neither file, and that only one
  that has ended has an outcome that says refused.
- **SessionsMeetCanonicalRecords**: OpenRecordIsCanonical. CanonicalInv, over
  LockInv: once any process is past its write, no entry is in an old spelling,
  and neither is any in what a deployment will write back.

In OperationMutexProofs, for any number of calls and deployers:

- **ChainIsComplete**: OrderInv, that a deployer's tail stands for all calls
  that have a slot there (TailCovers) and a call's predecessor for all before it
  (PredCovers). CallOrder alone is not inductive, since a claim only looks at
  the tail.
- **OperationsKeepCallOrder**, from it.
- **ImplementsTurns**: initial states and steps map to those of OperationTurns.

In HostSeamProofs, for any steps of QueueBridge, any of them bridged, registered in any order:

- **SettlesAtMostOnce**, TypeOK; **PromisesAnswerForTheirStep**, AnswersForItsStep;
  **FailuresStopTheChain**, NothingRunsPastFailure. None is inductive. BridgeInv
  adds that the chain before `start()` is a suffix of what registration laid down
  (ChainShape, RegistrationOrder), that a promise is settled when its step is and
  with what it ended with (SettledWithItsStep), and that a chain is rejected only
  behind a raw step that failed (RejectedByRawStep): the bridge's own catch hands
  a failure on, so all that is left on the chain is behind it.

In ProxyOperationsProofs, for any contracts, versions, migrations and bounds, under
OperationsAssumption (constants have their types, no contract is named like one of
the plugin's own, a migration that starts beside a foreign proxy has room for its two
transactions):

- **RecordedProxiesExist**: RecordedProxiesAreReal. CoreInv says of every call what
  its remaining legs may still rely on (LegsInv, CallInv), that a transaction names
  transactions before it (ChainInv) and that the record names live ones
  (RecordInv).

There too, over CoreInv: each leg is taken apart once into its effect
on calls, chain, record and artifacts (StepEffect), each step of the system into an
Event, and every invariant is kept by every Event:

- **ReportedTransfersHold**, TransfersHold: what a transfer read back is the new
  owner, and no later transaction of an account that lost the admin lands
  (TransferInv).
- **LiveProxiesAreKept**, LiveProxiesAreAccountedFor: what a call created is
  recorded, told, or still ahead of it (ProxyInv).
- **UpgradesAreCompared**, UpgradesReplaceWhatTheyChecked. One turn at a time means
  that only an upgrade left without a verdict can come between check and send
  (Unverified); UpgradeInv carries that exception through.
- **DeployedOnce**, ImplementationsAreReused: a deployment that did not revert is
  the record's primary address of its version, or the current call is about to store
  it over nothing (ReuseInv); those under 'always' and of a dead run are excepted, as
  the property excepts them.
- **RecordedLayoutsAreStored**, RecordedProxiesHaveLayouts: what a transaction, a
  check or an artifact names is in the record, or went with an entry the engine
  dropped (LayoutInv).
- **OwnAddressesAreVouchedFor**, OwnWritesAreVouchedFor, and **FailedStepsRestore**,
  FailureLeavesArtifact (a step property): between calls an artifact names what the
  record vouches for, what the engine dropped, or what a refused standalone deployment
  left; under a call its own fetch may have moved it, and the call knows what was there
  before (ArtifactInv).

In HostSeamProofs, for any channels of EngineCapture, any cap and however much is said,
under CaptureAssumption (the cap is a number, None is no channel):

- **CaptureIsPrivate**: SwapIsPrivate. Its invariant CaptureInv adds that the
  stack holds at most one window and what a window can hold, which is where the
  refusal of nested calls is used: restoring the saved writer is right only
  because the saved writer is always the original.
- **EngineIsHeard**: WritesGoWhereTheyBelong, from LedgerInv below: what the
  engine writes inside a window stays off the terminal, a buffer holds nothing but lines of the engine about
  its own operation, and notes stay within the cap.
- **LedgerIsKept**: KeepsTheLedger, the refinement. LedgerInv accounts for
  everything said about an operation: a part in its notes, a part counted, the rest
  in the buffer of its window, in this order (Accounted). A note is dropped only
  when the notes are full, so what is kept is a prefix.

In HardhatOperationsProofs, for any contracts, calls, deaths of processes and
starting points, under ProjectsAssumption (a project's starting point is one the
chain can hold):

- **ProxiesAreRecoverable**, LostProxiesAreRecoverable. PluginInv says that the legs
  ahead of a call are in the order of the code, each writing leg behind its own
  entering of a section (WellFormed); that a call inside a section holds the lock,
  that what it read there is what the manifest holds, and that it deploys only what
  it did not find (Poised); and that what a call learned outside the lock is of the
  kind that never changes back (Facts). The last is Grows, a step property proved
  with the invariant: code stays where it is, an entry stays or is dropped as invalid,
  and no stored address returns to an old casing.
- **EntriesOutliveOverlaps**, NoLostEntries: a section writes what it read and one
  entry more, and nobody else wrote in between.
- **KindsAreKept**, RecordedKindGoverns: the engine compares strictly, but the scan
  before a lookup leaves no old casing behind and none comes back, so the lookup sees
  every kind recorded.
- **VersionsAreReused**, ImplementationsAreReused: fetching, deploying and storing
  are in one section, so what was not found is not there when it is deployed.

In EnvironmentProofs, for any number of faults in any handle, property or field and
any request, under RequestAssumption (something is required, of the slots there are)
and MarkerAssumption (the markers for what is missing or raises are not values a sound
host holds):

- **NothingIsPreferred**, NoPreference; **ComplaintsAreTrue**, DiagnosesAreTrue;
  **TableHolds**, TableIsTrue. EnvInv says what was looked at before a slot was
  constructed (Built) or complained of (Diagnosis), that a stage leaves no required
  slot without an answer (NothingIsForgotten), and that with nothing wrong only what
  the context does not provide is missed (NothingWrong). That a resolution ends in an
  answer is what the code asserts of itself at `environment/resolve.ts:597`: it rests
  on each stage answering for its slot, and on the paths answering for the artifacts.

In ChainAccessProofs, for any nodes of any networks, any callers and implementations,
under ChainAssumption (a chain id is what the genesis hash spells at its end) and
AddressAssumption (the zero address is nobody's implementation):

- **ChainAnswersAreTrue**, AnswersAreTrue. A reader asks up to six times and takes its
  answers for one contract, although one may be deployed or upgraded between any two.
  That is right because *a contract does not change its kind*: what a settled reader
  says holds of a single contract that stood there during the call. ChainInv says so
  of every caller: what it holds was asked in order and each answer is one the node
  gave for some contract of the call (Holding); all contracts of a call are of one
  kind, or not there yet (Watching); what it settled with is true (Truthful). Hears
  says once that a failure never becomes an answer, LabelRead what a modern and a
  legacy slot read at two moments amount to, SettlesTrue what each reader makes of it.
- **ChainIdentityIsOneNetwork**, IdentityIsOneNetwork: the chain id and the genesis hash
  may come from two nodes, and agree only if they are of one network (IdentityOfOne);
  joined callers settle with the memoized promise (Memoized).
- **ChainOnlyTheChosenEndpoint**, OnlyTheChosenEndpoint, a step property.

In ValidationInputProofs, for any files, texts, import graphs (cycles included),
settings and number of edits, compiles and damages, under FilesAssumption (finitely many
files, each with a text, missing or unreadable), ImportsAssumption (an import is a key, refused or
outside) and NoneAssumption (None is no judgement):

- **ValidationTypes**, TypeOK: an outcome is an input or a refusal, so no assertion of
  the pipeline fires.
- **ValidationJudgesTheDeployed**, ValidatesWhatDeploys, from InputOfRecord: an input comes
  from a record of the artifact's code, cut to the sources walked.
- **ValidationOutputSelfContained**, OutputIsSelfContained. That the walk reads exactly
  the import closure would be an induction over the graph; the closure is defined as
  the least set closed under imports instead, and the invariant meets it from both
  sides: what was read is in every closed set (Reached), and every import of what was
  read is read or waits (Covered), so at the end it is closed itself (WalkIsTheClosure).
- **ValidationJudgesExactly**, SettledProjectsAreJudgedExactly. ProjectInv says what
  a compile has left to write (CompileInv), that a settled project has a sound record of
  all its sources and an artifact of it (SteadyInv), and what a validation that began
  there has come to (SettledInv): nothing stops its walk, and the whole record is there
  to be used, unless there is nothing to compare. The record used may be a twin with
  the same deployed code;
  **ValidationJudgesItsOwn** says that with the metadata hash on this makes no difference.

The invariants of HardhatOperations, Environment and ValidationInput (ProjectInv) were
checked on the instances of the runs before they were proved.

Every safety property of the passing runs is stated by a theorem. Model-checked only:
all liveness (OpenSettles, LockIsFreedAgain, EveryCallSettles, EveryCallerLearns,
EveryReadSettles) and the fairness part of TakesTurns.

## Findings

Each is a run with the one property the repository's text states.

| Run | The text | What the code does |
|---|---|---|
| record_false_refusal | ChainInstanceChangedError means the records are of another instance (`record/session.ts`) | the locked re-check keeps an old comparison and refuses over entries of this very chain |
| stale_after_failure | "A failed operation is safe to re-run" (package README) | deployImplementation keeps the write-back of a deployment the engine judged invalid; deployProxy then refuses |
| unnamed_upgrade | every refusal after a confirmed write "names the address and the transaction" (package README) | the slot read-back, the record lookup and the attaching of the result fail as themselves |

Smaller observations made while modelling, without a run of their own:

- A sidecar written before block 1 holds null, and matches a wiped node until that
  node has mined its block 1 (`chain/instance.ts` calls the comparison "a refusal
  on a wiped TRE").
- The locked re-read of the record lets the engine's bare error through, which
  RecordUnreadableError replaces everywhere else. An unusable sidecar is refused
  although `record/sidecar.ts` says it proceeds.
- Layouts are stored by implementation before the proxy exists, so an unrecorded
  proxy may well have the stored layout `proxy/errors.ts` says it lacks.
- A beacon proxy is not recorded by forceImport, which "teaches the record about"
  an address; deployBeaconProxy records kind 'beacon', where `standalone/index.ts`
  says a beacon proxy is never a proxy record.
- A compile that died leaves an output file that does not parse; from then on the
  whole build-info directory counts as unreadable, and `tronbox compile --all`, the
  remedy named, does not remove the file.
- With the metadata hash off, a record whose deployed code is the artifact's is taken
  whatever its constructor links. The library names judged are then that record's
  (`validation-input/identity.ts` calls them "a property of the project"): an older twin
  can bring a refusal for a name that is gone, or an input for one that is there.
- A slot nobody asked for can fail the pairing check of resolveEnvironment.
- Two overlapping Hardhat upgrades of one proxy may both be checked against the same
  implementation (`upgrade-proxy.ts:117` reads it, line 191 sends); nothing in that
  plugin closes the window, so the promise is stated for the TronBox package only.

## Not modelled

Options and results (defaulting, validation and the shape of values; the two
settings that steer a protocol are inputs of the operations), error texts, link and
sender checks, the record's location and the spelling of addresses beyond
canonical or not, the block-tag policy and verifyCapabilities of the chain layer, the
package entry, Solidity and scripts. They are stateless, or stand in the models as
free choices (a read fails, a check refuses). In ProxyOperations and
HardhatOperations the dispatch table of upgrade calls and the encoding of calls; of
the Hardhat package also its transferProxyAdminOwnership, the upgrade interface versions,
the namespaced recompile, and reads of a manifest that is being written.
RecordSession reads the chain's identity in one step; ChainAccess models the three
requests, and what the step assumes of them is IdentityIsOneNetwork.

## Plan

1. MigrationRun: mutex, queue and operations composed, with two runs on one record.
2. An abstract record (a set of entries and the instance they belong to) that
   RecordSession implements.
3. The upgrade dispatch table and the options as operators checked over bounded
   inputs.
