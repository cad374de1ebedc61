---------------------------- MODULE RecordSession ----------------------------
(***************************************************************************)
(* The deployment record of one network and the runs that open it:         *)
(* record/session.ts (openRecord), with the sidecar of record/sidecar.ts,  *)
(* the migration of record/manifest.ts and the refusals of                 *)
(* record/refusals.ts.                                                     *)
(*                                                                         *)
(* Two files lie beside each other: the manifest, which the engine owns    *)
(* and guards with a lock file, and the sidecar, which remembers the chain *)
(* instance the manifest was written against.  Every operation of every    *)
(* process opens them anew.  What openRecord reads before it takes the     *)
(* lock may be stale when it acts on it, a process may die between any two *)
(* steps, a disposable node may be wiped and its chain start over, and the *)
(* user may delete either file, as the refusals tell them to.              *)
(*                                                                         *)
(* A record entry carries the era of the chain it was deployed on.  No     *)
(* program can read that field; the properties can.                        *)
(***************************************************************************)
EXTENDS ChainInstance, Naturals

CONSTANTS
  Process,              \* runs of the tool
  NoOne,                \* the lock is free
  Stale,                \* the lock file of a process that died
  EntryId,              \* addresses a record entry can be keyed by
  MaxEra,               \* how many times the node can start from scratch, and one
  ThisChain,            \* the chain id: the one the manifest's file is named for
  genesisOf,            \* [Era -> Hash], constant across a wipe on some networks
  firstOf,              \* [Era -> Hash], what tells one era from another
  InitialFingerprints,  \* sidecars an older version may have left
  InitialEntries,       \* record entries an older version may have left
  WipeMidRun            \* whether the node may be wiped under a running process

Era == 1..MaxEra

\* How an address is spelled in the manifest: the canonical form, another
\* form of a TRON address, or something that is none.
Form == {"canonical", "legacy", "unmigratable"}
Kind == {"proxy", "impl", "admin"}
Entry == [id : EntryId, kind : Kind, form : Form, era : Era]

ASSUME RecordAssumption ==
  /\ NoOne \notin Process /\ Stale \notin Process /\ NoOne # Stale
  /\ MaxEra \in Nat \ {0}
  /\ ThisChain \in ChainIdValue
  /\ genesisOf \in [Era -> Hash]
  /\ firstOf \in [Era -> Hash]
  /\ \A i, j \in Era : firstOf[i] = firstOf[j] => i = j
  /\ InitialFingerprints \subseteq {r \in RecordedFingerprint : ~Complete(r)}
  /\ InitialEntries \subseteq {e \in Entry : e.era = 1}
  /\ \A d, e \in InitialEntries : d.id = e.id => d = e
  /\ WipeMidRun \in BOOLEAN

VARIABLES
  era,          \* which chain the endpoint serves
  mined,        \* whether that chain has a block 1
  sidecar,      \* the fingerprint file
  manifest,     \* the entries of the manifest file
  torn,         \* the manifest file exists and cannot be read
  lock,         \* who holds the manifest's lock file
  pc,           \* where each process stands
  identity,     \* what each process read from the chain
  comparison,   \* its verdict on the sidecar it read
  snapshot,     \* the record as it read it under the lock
  outcome,      \* how its last openRecord ended
  wrote,        \* the files its last openRecord has written
  fresh,        \* entry ids never used so far
  blessed       \* ids present when a sidecar was written on no evidence

fileVars == <<sidecar, manifest, torn>>
chainVars == <<era, mined>>
ghostVars == <<fresh, blessed>>
vars == <<era, mined, sidecar, manifest, torn, lock, pc, identity, comparison,
          snapshot, outcome, wrote, fresh, blessed>>

-----------------------------------------------------------------------------
(* Types *)

SidecarFile ==
  [kind : {"absent", "unreadable"}] \cup
  [kind : {"record"}, record : RecordedFingerprint]

absent == [kind |-> "absent"]
unreadable == [kind |-> "unreadable"]
holding(recorded) == [kind |-> "record", record |-> recorded]

PC == {"down", "readFingerprint", "diagnose", "readRecord", "acquire", "recheck",
       "writeFingerprint", "writeRecord", "release", "reconcile", "open", "deploying"}

\* The steps during which openRecord or the engine holds the lock.
LockedPC == {"recheck", "writeFingerprint", "writeRecord", "release", "deploying"}

\* How an openRecord is refused, by name; "error" is an error that says nothing of the
\* record: of the engine, the file system or the chain as itself, or of an address that
\* is none (AddressNotCanonicalizableError).
Refused == {"chain-instance-changed", "no-proxies", "proxies-live",
            "proxies-absent", "diagnosis-indeterminate", "record-locked",
            "record-unreadable", "error"}
Outcome == {"none", "same", "indeterminate", "re-armed"} \cup Refused

TypeOK ==
  /\ era \in Era
  /\ mined \in BOOLEAN
  /\ sidecar \in SidecarFile
  /\ manifest \in SUBSET Entry
  /\ torn \in BOOLEAN
  /\ lock \in Process \cup {NoOne, Stale}
  /\ pc \in [Process -> PC]
  /\ identity \in [Process -> Identity]
  /\ comparison \in [Process -> InstanceComparison]
  /\ snapshot \in [Process -> SUBSET Entry]
  /\ outcome \in [Process -> Outcome]
  /\ wrote \in [Process -> SUBSET {"fingerprint", "record"}]
  /\ fresh \in SUBSET EntryId
  /\ blessed \in SUBSET EntryId

-----------------------------------------------------------------------------
(* The operators of the code *)

\* The chain's answer at this moment.
observedIdentity ==
  [chainId |-> ThisChain,
   genesisHash |-> genesisOf[era],
   firstBlockHash |-> IF mined THEN firstOf[era] ELSE Null]

\* What a process holds of an identity before it asked the chain.
unread ==
  [chainId |-> ThisChain, genesisHash |-> genesisOf[1], firstBlockHash |-> Null]

\* Mutant: only proxies count as deployments.
countsProxiesOnly(entries) == \E e \in entries : e.kind = "proxy"

\* recordCount(data) > 0: proxies, implementations and the admin all count.
holdsDeployments(entries) == entries # {}

\* canonicalizeStoredAddresses: every field kept, an address that is none left.
migrated(e) ==
  [id |-> e.id, kind |-> e.kind, era |-> e.era,
   form |-> IF e.form = "legacy" THEN "canonical" ELSE e.form]
canonicalizeStoredAddresses(entries) == {migrated(e) : e \in entries}

\* rewritten > 0
anyRewritten(entries) == \E e \in entries : e.form = "legacy"

\* The step-6 condition on the fingerprint: re-arming, or nothing known.
needsFingerprint(p) == comparison[p].kind # "same"

\* What diagnoseFingerprintRefusal answers when the record could be read: does
\* any recorded proxy have code on the chain being served?
diagnosisOver(entries) ==
  LET proxies == {e \in entries : e.kind = "proxy"} IN
  IF proxies = {} THEN "no-proxies"
  ELSE IF \E e \in proxies : e.era = era THEN "proxies-live"
  ELSE "proxies-absent"

\* Mutant: the comparator's verdict flows into the report as it is.
reportsTheComparison(p) == comparison[p].kind

\* How an openRecord that was not refused reports the instance.
instanceOutcome(p) ==
  IF comparison[p].kind = "changed" THEN "re-armed" ELSE comparison[p].kind

-----------------------------------------------------------------------------
(* Initial states: a project that never had a sidecar, or has the one an    *)
(* older version left, with whatever entries its record already holds.      *)

Init ==
  /\ era = 1
  /\ mined \in BOOLEAN
  /\ sidecar \in {absent} \cup {holding(r) : r \in InitialFingerprints}
  /\ manifest \in SUBSET InitialEntries
  /\ manifest # {} => mined
  /\ torn = FALSE
  /\ lock = NoOne
  /\ pc = [p \in Process |-> "down"]
  /\ identity = [p \in Process |-> unread]
  /\ comparison = [p \in Process |-> same]
  /\ snapshot = [p \in Process |-> {}]
  /\ outcome = [p \in Process |-> "none"]
  /\ wrote = [p \in Process |-> {}]
  /\ fresh = EntryId \ {e.id : e \in InitialEntries}
  /\ blessed = {}

-----------------------------------------------------------------------------
(* openRecord, one action per step that reads or writes shared state *)

Goto(p, label) == pc' = [pc EXCEPT ![p] = label]

\* The operation is over, with how it ended; what it had read goes with it.
End(p, how) ==
  /\ Goto(p, "down")
  /\ outcome' = [outcome EXCEPT ![p] = how]
  /\ identity' = [identity EXCEPT ![p] = unread]
  /\ comparison' = [comparison EXCEPT ![p] = same]
  /\ snapshot' = [snapshot EXCEPT ![p] = {}]

\* openRecord returns the session: the report is made, the comparison dropped.
Open(p) ==
  /\ Goto(p, "open")
  /\ outcome' = [outcome EXCEPT ![p] = instanceOutcome(p)]
  /\ comparison' = [comparison EXCEPT ![p] = same]
  /\ wrote' = [wrote EXCEPT ![p] = {}]
  /\ UNCHANGED <<identity, snapshot>>

\* Steps 1 to 3: the location, the chain's identity, the manifest handle.
Begin(p) ==
  /\ pc[p] = "down"
  /\ Goto(p, "readFingerprint")
  /\ identity' = [identity EXCEPT ![p] = observedIdentity]
  /\ outcome' = [outcome EXCEPT ![p] = "none"]
  /\ wrote' = [wrote EXCEPT ![p] = {}]
  /\ UNCHANGED <<chainVars, fileVars, lock, comparison, snapshot, ghostVars>>

\* Step 4: an unusable sidecar is refused; otherwise it is compared.
ReadFingerprint(p) ==
  /\ pc[p] = "readFingerprint"
  /\ IF sidecar.kind = "unreadable"
     THEN /\ Goto(p, "diagnose")
          /\ UNCHANGED comparison
     ELSE /\ Goto(p, "readRecord")
          /\ comparison' = [comparison EXCEPT ![p] =
               IF sidecar.kind = "absent"
               THEN comparisonWithoutRecord
               ELSE compareChainInstance(sidecar.record, identity[p])]
  /\ UNCHANGED <<chainVars, fileVars, lock, identity, snapshot, outcome, wrote, ghostVars>>

\* diagnoseFingerprintRefusal: reads only, and any failure is one more answer.
Diagnose(p) ==
  /\ pc[p] = "diagnose"
  /\ \/ /\ lock = NoOne /\ ~torn
        /\ End(p, diagnosisOver(manifest))
     \/ End(p, "diagnosis-indeterminate")
  /\ UNCHANGED <<chainVars, fileVars, lock, wrote, ghostVars>>

\* Mutant: a record of the same instance opens without a look at its addresses.
OpensWithoutMigrating(p) ==
  /\ pc[p] = "readRecord"
  /\ lock = NoOne
  /\ IF torn
       THEN End(p, "record-unreadable")
     ELSE IF comparison[p].kind = "changed" /\ holdsDeployments(manifest)
       THEN End(p, "chain-instance-changed")
     ELSE /\ Goto(p, IF needsFingerprint(p) THEN "acquire" ELSE "reconcile")
          /\ UNCHANGED <<identity, comparison, snapshot, outcome>>
  /\ UNCHANGED <<chainVars, fileVars, lock, wrote, ghostVars>>

\* Step 5: the one unlocked read of the record (the engine's own read takes and
\* drops the lock inside), the refusal, and the decision whether step 6 is due.
ReadRecord(p) ==
  /\ pc[p] = "readRecord"
  /\ lock = NoOne
  /\ IF torn
       THEN End(p, "record-unreadable")
     ELSE IF comparison[p].kind = "changed" /\ holdsDeployments(manifest)
       THEN End(p, "chain-instance-changed")
     ELSE /\ Goto(p, IF needsFingerprint(p) \/ anyRewritten(manifest) THEN "acquire" ELSE "reconcile")
          /\ UNCHANGED <<identity, comparison, snapshot, outcome>>
  /\ UNCHANGED <<chainVars, fileVars, lock, wrote, ghostVars>>

\* Mutant: a contended lock is retried without end.
RetriesForever(p) ==
  /\ pc[p] \in {"readRecord", "acquire"}
  /\ lock # NoOne
  /\ UNCHANGED vars

\* throughRecordRead / throughRecordLock: the engine's retries ran out while
\* another process held the lock.
LockContended(p) ==
  /\ pc[p] \in {"readRecord", "acquire"}
  /\ lock # NoOne
  /\ End(p, "record-locked")
  /\ UNCHANGED <<chainVars, fileVars, lock, wrote, ghostVars>>

\* Mutant: step 6 writes beside the lock.
WritesUnlocked(p) ==
  /\ pc[p] = "acquire"
  /\ lock = NoOne
  /\ Goto(p, "recheck")
  /\ UNCHANGED <<chainVars, fileVars, lock, identity, comparison, snapshot, outcome, wrote,
                 ghostVars>>

\* Step 6: lockedRun.
AcquireLock(p) ==
  /\ pc[p] = "acquire"
  /\ lock = NoOne
  /\ lock' = p
  /\ Goto(p, "recheck")
  /\ UNCHANGED <<chainVars, fileVars, identity, comparison, snapshot, outcome, wrote, ghostVars>>

\* What the locked callback goes on with when it does not throw.
proceedUnderLock(p) ==
  /\ snapshot' = [snapshot EXCEPT ![p] = manifest]
  /\ Goto(p, IF needsFingerprint(p) THEN "writeFingerprint" ELSE "writeRecord")
  /\ UNCHANGED <<lock, identity, comparison, outcome>>

\* Mutant: the fingerprint is written ahead of the locked re-read.
WritesBeforeRecheck(p) ==
  /\ pc[p] = "recheck"
  /\ sidecar' = IF needsFingerprint(p) THEN holding(fingerprintFor(identity[p])) ELSE sidecar
  /\ wrote' = [wrote EXCEPT ![p] = IF needsFingerprint(p) THEN {"fingerprint"} ELSE @]
  /\ IF comparison[p].kind = "changed" /\ holdsDeployments(manifest)
       THEN End(p, "chain-instance-changed") /\ lock' = NoOne
       ELSE proceedUnderLock(p)
  /\ UNCHANGED <<chainVars, manifest, torn, ghostVars>>

\* Mutant: the locked refusal throws past the release.
RefusesHoldingLock(p) ==
  /\ pc[p] = "recheck"
  /\ IF torn
       THEN End(p, "error") /\ UNCHANGED lock
     ELSE IF comparison[p].kind = "changed" /\ holdsDeployments(manifest)
       THEN End(p, "chain-instance-changed") /\ UNCHANGED lock
     ELSE proceedUnderLock(p)
  /\ UNCHANGED <<chainVars, fileVars, wrote, ghostVars>>

\* The locked re-read comes first; the refusal is made again on what it found.
\* A record that became unreadable since is the engine's own error here:
\* throughRecordLock translates contention only.
RecheckUnderLock(p) ==
  /\ pc[p] = "recheck"
  /\ IF torn
       THEN End(p, "error") /\ lock' = NoOne
     ELSE IF comparison[p].kind = "changed" /\ holdsDeployments(manifest)
       THEN End(p, "chain-instance-changed") /\ lock' = NoOne
     ELSE proceedUnderLock(p)
  /\ UNCHANGED <<chainVars, fileVars, wrote, ghostVars>>

\* writeFingerprint: a temporary file renamed over the sidecar.
WriteFingerprint(p) ==
  /\ pc[p] = "writeFingerprint"
  /\ sidecar' = holding(fingerprintFor(identity[p]))
  /\ wrote' = [wrote EXCEPT ![p] = @ \cup {"fingerprint"}]
  /\ blessed' = IF comparison[p].kind = "changed" THEN blessed
                ELSE blessed \cup {e.id : e \in snapshot[p]}
  /\ Goto(p, "writeRecord")
  /\ UNCHANGED <<chainVars, manifest, torn, lock, identity, comparison, snapshot,
                 outcome, fresh>>

\* The migrated record is written only when an address changed form.
WriteRecord(p) ==
  /\ pc[p] = "writeRecord"
  /\ IF anyRewritten(snapshot[p])
     THEN /\ manifest' = canonicalizeStoredAddresses(snapshot[p])
          /\ torn' = FALSE
          /\ wrote' = [wrote EXCEPT ![p] = @ \cup {"record"}]
     ELSE UNCHANGED <<manifest, torn, wrote>>
  /\ Goto(p, "release")
  /\ UNCHANGED <<chainVars, sidecar, lock, identity, comparison, snapshot, outcome, ghostVars>>

\* The temporary file cannot be written or renamed: the sidecar is untouched, the
\* locked callback throws, and openRecord rejects with the error as it is.
FingerprintWriteFails(p) ==
  /\ pc[p] = "writeFingerprint"
  /\ End(p, "error")
  /\ lock' = NoOne
  /\ UNCHANGED <<chainVars, fileVars, wrote, ghostVars>>

\* The engine writes the manifest in place: where that fails, the file is as it was or
\* cut short.
leavesRecordOrTearsIt ==
  \/ UNCHANGED <<manifest, torn>>
  \/ manifest' = {} /\ torn' = TRUE

\* The second write fails, and the sidecar may have been replaced before it.
RecordWriteFails(p) ==
  /\ pc[p] = "writeRecord" /\ anyRewritten(snapshot[p])
  /\ leavesRecordOrTearsIt
  /\ wrote' = [wrote EXCEPT ![p] = IF torn' THEN @ \cup {"record"} ELSE @]
  /\ End(p, "error")
  /\ lock' = NoOne
  /\ UNCHANGED <<chainVars, sidecar, ghostVars>>

\* The lock is dropped, and a re-arm is disclosed.
ReleaseLock(p) ==
  /\ pc[p] = "release"
  /\ lock' = NoOne
  /\ snapshot' = [snapshot EXCEPT ![p] = {}]
  /\ Goto(p, "reconcile")
  /\ UNCHANGED <<chainVars, fileVars, identity, comparison, outcome, wrote, ghostVars>>

\* reconcileProxies comes last, when step 6 may have written both files: an address
\* the operation named may be none, and the chain may not say whether it has code.
\* Its verdicts go into the report only.
Reconcile(p) ==
  /\ pc[p] = "reconcile"
  /\ \/ Open(p)
     \/ End(p, "error") /\ UNCHANGED wrote
  /\ UNCHANGED <<chainVars, fileVars, lock, ghostVars>>

OpenRecord(p) ==
  \/ ReadFingerprint(p) \/ Diagnose(p) \/ ReadRecord(p) \/ LockContended(p)
  \/ AcquireLock(p) \/ RecheckUnderLock(p)
  \/ WriteFingerprint(p) \/ FingerprintWriteFails(p)
  \/ WriteRecord(p) \/ RecordWriteFails(p)
  \/ ReleaseLock(p) \/ Reconcile(p)

-----------------------------------------------------------------------------
(* What an operation does with the session it was given *)

\* An entry for something deployed on the chain now being served.
deployed(id, kind) == [id |-> id, kind |-> kind, form |-> "canonical", era |-> era]

\* addProxyRecord: a proxy went live and the engine records it, reading and
\* rewriting the manifest inside one hold of the lock.
AddProxyRecord(p, id) ==
  /\ pc[p] = "open"
  /\ lock = NoOne /\ ~torn
  /\ manifest' = manifest \cup {deployed(id, "proxy")}
  /\ fresh' = fresh \ {id}
  /\ mined' = TRUE
  /\ UNCHANGED <<era, sidecar, torn, lock, pc, identity, comparison, snapshot,
                 outcome, wrote, blessed>>

\* The engine's fetchOrDeploy: the lock is held from the read of the manifest,
\* across the deployment, to the write that records it.
BeginImplDeployment(p) ==
  /\ pc[p] = "open"
  /\ lock = NoOne /\ ~torn
  /\ lock' = p
  /\ snapshot' = [snapshot EXCEPT ![p] = manifest]
  /\ Goto(p, "deploying")
  /\ UNCHANGED <<chainVars, fileVars, identity, comparison, outcome, wrote, ghostVars>>

RecordImplDeployment(p, id) ==
  /\ pc[p] = "deploying"
  /\ manifest' = snapshot[p] \cup {deployed(id, "impl")}
  /\ torn' = FALSE
  /\ fresh' = fresh \ {id}
  /\ mined' = TRUE
  /\ lock' = NoOne
  /\ snapshot' = [snapshot EXCEPT ![p] = {}]
  /\ Goto(p, "open")
  /\ UNCHANGED <<era, sidecar, identity, comparison, outcome, wrote, blessed>>

\* The deployment callback throws: lockedRun releases on the way out.
ImplDeploymentFails(p) ==
  /\ pc[p] = "deploying"
  /\ lock' = NoOne
  /\ snapshot' = [snapshot EXCEPT ![p] = {}]
  /\ Goto(p, "open")
  /\ UNCHANGED <<chainVars, fileVars, identity, comparison, outcome, wrote, ghostVars>>

\* An operation with a session writes the record, or is about to.
writesRecord(p) == pc[p] = "deploying" \/ (pc[p] = "open" /\ lock = NoOne /\ ~torn)

\* The engine's write of what the operation deployed fails, and the operation with it.
SessionWriteFails(p) ==
  /\ writesRecord(p)
  /\ leavesRecordOrTearsIt
  /\ End(p, "none")
  /\ lock' = NoOne
  /\ UNCHANGED <<chainVars, sidecar, wrote, ghostVars>>

\* The operation returns, or throws: the session is dropped.
EndOperation(p) ==
  /\ pc[p] = "open"
  /\ End(p, "none")
  /\ UNCHANGED <<chainVars, fileVars, lock, wrote, ghostVars>>

UseSession(p) ==
  \/ \E id \in fresh : AddProxyRecord(p, id) \/ RecordImplDeployment(p, id)
  \/ BeginImplDeployment(p) \/ ImplDeploymentFails(p) \/ SessionWriteFails(p) \/ EndOperation(p)

-----------------------------------------------------------------------------
(* Crashes, the chain and the user *)

\* The process dies and its lock file stays.  The rename leaves the old sidecar
\* or the new one, so there is nothing to add about that file.
Crash(p) ==
  /\ pc[p] # "down"
  /\ End(p, "none")
  /\ wrote' = [wrote EXCEPT ![p] = {}]
  /\ lock' = IF lock = p THEN Stale ELSE lock
  /\ UNCHANGED <<chainVars, fileVars, ghostVars>>

\* It dies inside the engine's write of the manifest, which is a plain write of
\* the file: the content is gone, cut short.
CrashWritingRecord(p) ==
  /\ (pc[p] = "writeRecord" /\ anyRewritten(snapshot[p])) \/ writesRecord(p)
  /\ End(p, "none")
  /\ wrote' = [wrote EXCEPT ![p] = {}]
  /\ lock' = Stale
  /\ manifest' = {} /\ torn' = TRUE
  /\ UNCHANGED <<chainVars, sidecar, ghostVars>>

\* The lock library takes a lock file nobody refreshes for abandoned.
ExpireStaleLock ==
  /\ lock = Stale
  /\ lock' = NoOne
  /\ UNCHANGED <<chainVars, fileVars, pc, identity, comparison, snapshot, outcome, wrote, ghostVars>>

\* Somebody else's transaction produces block 1.
MineFirstBlock ==
  /\ ~mined
  /\ mined' = TRUE
  /\ UNCHANGED <<era, fileVars, lock, pc, identity, comparison, snapshot, outcome, wrote, ghostVars>>

\* A disposable node is restarted from nothing.
WipeChain ==
  /\ era < MaxEra
  /\ WipeMidRun \/ \A p \in Process : pc[p] = "down"
  /\ era' = era + 1
  /\ mined' = FALSE
  /\ UNCHANGED <<fileVars, lock, pc, identity, comparison, snapshot, outcome, wrote, ghostVars>>

\* The remedies the refusals print, taken or mistaken at any moment.
DeleteRecord ==
  /\ torn \/ manifest # {}
  /\ manifest' = {} /\ torn' = FALSE
  /\ UNCHANGED <<chainVars, sidecar, lock, pc, identity, comparison, snapshot, outcome, wrote, ghostVars>>

DeleteFingerprint ==
  /\ sidecar # absent
  /\ sidecar' = absent
  /\ UNCHANGED <<chainVars, manifest, torn, lock, pc, identity, comparison, snapshot, outcome, wrote, ghostVars>>

CorruptFingerprint ==
  /\ sidecar.kind = "record"
  /\ sidecar' = unreadable
  /\ UNCHANGED <<chainVars, manifest, torn, lock, pc, identity, comparison, snapshot, outcome, wrote, ghostVars>>

Environment ==
  \/ ExpireStaleLock \/ MineFirstBlock \/ WipeChain
  \/ DeleteRecord \/ DeleteFingerprint \/ CorruptFingerprint

-----------------------------------------------------------------------------

Next ==
  \/ \E p \in Process : Begin(p) \/ OpenRecord(p) \/ UseSession(p)
                      \/ Crash(p) \/ CrashWritingRecord(p)
  \/ Environment

Spec == Init /\ [][Next]_vars

\* A process that started to open the record keeps running, the engine's call
\* under the lock returns, and an abandoned lock file is noticed.
Fairness ==
  /\ \A p \in Process :
       WF_vars(OpenRecord(p) \/ ImplDeploymentFails(p)
                 \/ \E id \in fresh : RecordImplDeployment(p, id))
  /\ WF_vars(ExpireStaleLock)

FairSpec == Spec /\ Fairness

-----------------------------------------------------------------------------
(* Properties *)

\* The sidecar pins one chain instance.
pinned == sidecar.kind = "record" /\ Complete(sidecar.record)

\* Entry e was deployed on the chain the sidecar pins.
onPinnedChain(e) == canonicalHash[sidecar.record.firstBlockHash] = firstOf[e.era]

\* The guard is truthful: whenever the sidecar pins a chain instance, every
\* entry of the record lies on that instance, except those that were already
\* there when a sidecar was written with nothing to compare against (the
\* indeterminate branch of openRecord, which never refuses).
GuardedRecord ==
  pinned => \A e \in manifest : e.id \in blessed \/ onPinnedChain(e)

\* What a session may rely on: opened as "same" on a chain with a block 1, it
\* looks at a record of this chain, entries nobody could vouch for aside.
SameIsThisChain ==
  \A p \in Process :
    /\ pc[p] \in {"open", "deploying"}
    /\ outcome[p] = "same"
    /\ identity[p].firstBlockHash # Null
    => \A e \in manifest : e.id \in blessed \/ e.era = era

\* The refusals that promise to have changed nothing: the changed chain (from the
\* unlocked read or the locked re-check), the contended lock (from the read or the
\* acquisition), and the unusable sidecar with each of its diagnoses.
PromisesNothing ==
  {"chain-instance-changed", "record-locked",
   "no-proxies", "proxies-live", "proxies-absent", "diagnosis-indeterminate"}

\* "Nothing has been changed or removed", "Nothing was written by this run": an
\* openRecord that ends in a refusal which says so (session.ts:90, 101 and 115) wrote
\* neither file.  A failed write, and a refusal of an address the operation named, say
\* nothing of the kind: they come when one or both files may be written.
RefusalWroteNothing ==
  \A p \in Process : outcome[p] \in PromisesNothing => wrote[p] = {}

\* An open session never meets a stored address in a legacy form: the engine
\* looks addresses up by exact string, so it would miss a recorded proxy.
OpenRecordIsCanonical ==
  (\E p \in Process : pc[p] \in {"open", "deploying"})
    => \A e \in manifest : e.form # "legacy"

\* No run loses what another one recorded: entries leave the manifest only by
\* the user's hand, or when a write of the file is cut short by a crash or an error.
NoLostEntries ==
  [][DeleteRecord \/ torn'
       \/ {e.id : e \in manifest} \subseteq {e.id : e \in manifest'}]_vars

\* The re-arm writes over nothing: a run that found another chain's sidecar
\* beside an empty record, and is about to replace it, still faces an empty
\* record, whatever other runs did between its unlocked read and the lock.
RearmOnlyOverEmptyRecord ==
  \A p \in Process :
    pc[p] = "writeFingerprint" /\ comparison[p].kind = "changed" => manifest = {}

\* A call of openRecord ends: in a session, in a refusal, or with its process.
OpenSettles ==
  \A p \in Process : pc[p] = "readFingerprint" ~> pc[p] \in {"open", "down"}

\* Whatever fails and whoever dies, the record's lock becomes free again.
LockIsFreedAgain == []<>(lock = NoOne)
-----------------------------------------------------------------------------
(* Why the guard is truthful: what each process knows at each step          *)

\* Only the holder of the lock is between the locked re-read and the release.
HoldersHold == \A p \in Process : pc[p] \in LockedPC => lock = p

\* What was read under the lock is still all there is, the user's hand aside.
SnapshotCovers ==
  \A p \in Process :
    pc[p] \in {"writeFingerprint", "writeRecord", "deploying"} => manifest \subseteq snapshot[p]

\* A re-arm got past the locked re-check only over an empty record.
RearmSawNothing ==
  \A p \in Process :
    pc[p] = "writeFingerprint" /\ comparison[p].kind = "changed" => snapshot[p] = {}

LockInv == TypeOK /\ HoldersHold /\ SnapshotCovers /\ RearmSawNothing

\* A running process read its identity from the chain still being served.
IdentityIsCurrent ==
  \A p \in Process : pc[p] # "down" =>
    /\ identity[p].firstBlockHash \in {Null, firstOf[era]}

\* The processes the guard has let through, or will have by writing it anew.
PastGate(p) ==
  \/ pc[p] \in {"writeRecord", "release", "reconcile", "open", "deploying"}
  \/ /\ pc[p] \in {"readRecord", "acquire", "recheck", "writeFingerprint"}
     /\ comparison[p].kind # "changed"

\* They work on the chain the sidecar pins, if it pins one.
GateIsCurrent ==
  (\E p \in Process : PastGate(p)) /\ pinned
    => canonicalHash[sidecar.record.firstBlockHash] = firstOf[era]

\* A snapshot about to be written back is as truthful as the record itself.
GuardedSnapshot ==
  \A p \in Process :
    pc[p] \in {"writeFingerprint", "writeRecord", "deploying"} /\ pinned
      => \A e \in snapshot[p] : e.id \in blessed \/ onPinnedChain(e)

\* GuardedRecord, made inductive.
GuardInv ==
  LockInv /\ IdentityIsCurrent /\ GateIsCurrent /\ GuardedSnapshot /\ GuardedRecord

-----------------------------------------------------------------------------
(* What the code's own words say and its interleavings break *)

\* session.ts, @throws ChainInstanceChangedError: the chain is a different
\* instance than the one the records were written against.  So the record a run
\* is refused over holds an entry of another era, or one nobody vouched for.
RefusalNamesAnotherChain ==
  [][\A p \in Process :
       /\ outcome'[p] = "chain-instance-changed" /\ outcome[p] = "none"
       /\ identity[p].firstBlockHash # Null
       => \E e \in manifest : e.id \in blessed \/ e.era # era]_vars
=============================================================================
