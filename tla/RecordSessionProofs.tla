------------------------- MODULE RecordSessionProofs -------------------------
(***************************************************************************)
(* Proofs about RecordSession, for every set of processes, of entries and  *)
(* of hashes and every number of wipes.                                    *)
(***************************************************************************)
EXTENDS RecordSession, TLAPS

-----------------------------------------------------------------------------
(* The comparator and the sidecar *)

\* What a session writes is a sidecar the reader accepts.
LEMMA FingerprintForType ==
  ASSUME NEW o \in Identity
  PROVE  fingerprintFor(o) \in RecordedFingerprint
BY SpellingAssumption DEF Identity, RecordedFingerprint, fingerprintFor

\* The comparator answers one of its verdicts on every input.
LEMMA CompareType ==
  ASSUME NEW r \in RecordedFingerprint, NEW o \in Identity
  PROVE  compareChainInstance(r, o) \in InstanceComparison
BY DEF compareChainInstance, firstBlockUndecided, InstanceComparison,
       same, changed, indeterminate

\* A complete sidecar that is not contradicted pins the observed block 1.
LEMMA CompareComplete ==
  ASSUME NEW r \in RecordedFingerprint, NEW o \in Identity,
         Complete(r), compareChainInstance(r, o).kind # "changed"
  PROVE  canonicalHash[r.firstBlockHash] = o.firstBlockHash
BY DEF Complete, compareChainInstance, changed

\* A sidecar written for an identity pins it, if it pins anything.
LEMMA WrittenPinsObserved ==
  ASSUME NEW o \in Identity, Complete(fingerprintFor(o))
  PROVE  /\ o.firstBlockHash \in Hash
         /\ canonicalHash[fingerprintFor(o).firstBlockHash] = o.firstBlockHash
BY SpellingAssumption DEF Identity, fingerprintFor, Complete

\* A sidecar just written reads as the same chain instance.
LEMMA WrittenReadsAsSame ==
  ASSUME NEW o \in Identity
  PROVE  compareChainInstance(fingerprintFor(o), o) = same
BY SpellingAssumption DEF Identity, fingerprintFor, compareChainInstance, firstBlockUndecided

\* The chain answers with an identity, and so does nobody yet.
LEMMA IdentityTypes ==
  ASSUME era \in Era, mined \in BOOLEAN
  PROVE  observedIdentity \in Identity /\ unread \in Identity
BY RecordAssumption DEF observedIdentity, unread, Identity, Era

\* Rewriting addresses to one spelling, as migration does, makes entries of entries.
LEMMA CanonicalizeType ==
  ASSUME NEW S \in SUBSET Entry
  PROVE  canonicalizeStoredAddresses(S) \in SUBSET Entry
BY DEF canonicalizeStoredAddresses, migrated, Entry, Form

\* A sidecar file that parses as a record holds a fingerprint.
LEMMA SidecarHolds ==
  ASSUME sidecar \in SidecarFile
  PROVE  /\ sidecar.kind \in {"absent", "unreadable", "record"}
         /\ sidecar.kind = "record" => sidecar.record \in RecordedFingerprint
BY DEF SidecarFile

\* What a session deploys is an entry of the record.
LEMMA DeployedType ==
  ASSUME era \in Era, NEW id \in EntryId, NEW k \in Kind
  PROVE  deployed(id, k) \in Entry
BY DEF deployed, Entry, Form

\* How openRecord reports a chain instance is one of its outcomes.
LEMMA OutcomeType ==
  ASSUME NEW p \in Process, comparison[p] \in InstanceComparison
  PROVE  instanceOutcome(p) \in Outcome
BY DEF instanceOutcome, InstanceComparison, same, changed, indeterminate, Outcome

\* The two comparisons openRecord starts from are verdicts of the comparator.
LEMMA SameType == same \in InstanceComparison /\ comparisonWithoutRecord \in InstanceComparison
BY DEF same, comparisonWithoutRecord, indeterminate, InstanceComparison

-----------------------------------------------------------------------------
(* Type correctness *)

\* A first run finds files an older version may have left, or none.
LEMMA TypeInit == Init => TypeOK
<1> SUFFICES ASSUME Init PROVE TypeOK
  OBVIOUS
<1>1. era \in Era /\ mined \in BOOLEAN
  BY RecordAssumption DEF Init, Era
<1>2. unread \in Identity
  BY <1>1, IdentityTypes
<1>3. sidecar \in SidecarFile
  BY RecordAssumption DEF Init, SidecarFile, absent, holding
<1>4. manifest \in SUBSET Entry
  BY RecordAssumption DEF Init
<1>5. QED
  BY <1>1, <1>2, <1>3, <1>4, SameType DEF Init, TypeOK, PC, Outcome

\* Every step of openRecord, of a session in use and of the environment keeps
\* the types.
LEMMA TypeStep == TypeOK /\ [Next]_vars => TypeOK'
<1> SUFFICES ASSUME TypeOK, [Next]_vars PROVE TypeOK'
  OBVIOUS
<1>1. ASSUME NEW p \in Process, Begin(p) PROVE TypeOK'
  BY <1>1, IdentityTypes, SameType
     DEF Begin, Goto, TypeOK, PC, Outcome, Refused, chainVars, fileVars, ghostVars
<1>2. ASSUME NEW p \in Process, ReadFingerprint(p) PROVE TypeOK'
  <2>1. comparison' \in [Process -> InstanceComparison]
    <3>1. CASE sidecar.kind = "unreadable"
      BY <1>2, <3>1 DEF ReadFingerprint, TypeOK
    <3>2. CASE sidecar.kind = "absent"
      BY <1>2, <3>2, SameType DEF ReadFingerprint, TypeOK
    <3>3. CASE sidecar.kind = "record"
      <4>1. identity[p] \in Identity /\ sidecar.record \in RecordedFingerprint
        BY <3>3, SidecarHolds DEF TypeOK
      <4>2. compareChainInstance(sidecar.record, identity[p]) \in InstanceComparison
        BY <4>1, CompareType
      <4>3. QED
        BY <1>2, <3>3, <4>2 DEF ReadFingerprint, TypeOK
    <3>4. QED
      BY <3>1, <3>2, <3>3, SidecarHolds DEF TypeOK
  <2>2. QED
    BY <1>2, <2>1 DEF ReadFingerprint, Goto, TypeOK, PC, chainVars, fileVars, ghostVars
<1>3. ASSUME NEW p \in Process, Diagnose(p) PROVE TypeOK'
  BY <1>3, IdentityTypes, SameType
     DEF Diagnose, End, Goto, diagnosisOver, TypeOK, PC, Outcome, Refused, chainVars, fileVars, ghostVars
<1>4. ASSUME NEW p \in Process, ReadRecord(p) PROVE TypeOK'
  BY <1>4, IdentityTypes, SameType
     DEF ReadRecord, End, Goto, TypeOK, PC, Outcome, Refused, chainVars, fileVars, ghostVars
<1>5. ASSUME NEW p \in Process, LockContended(p) PROVE TypeOK'
  BY <1>5, IdentityTypes, SameType
     DEF LockContended, End, Goto, TypeOK, PC, Outcome, Refused, chainVars, fileVars, ghostVars
<1>6. ASSUME NEW p \in Process, AcquireLock(p) PROVE TypeOK'
  BY <1>6
     DEF AcquireLock, Goto, TypeOK, PC, Outcome, Refused, chainVars, fileVars, ghostVars
<1>7. ASSUME NEW p \in Process, RecheckUnderLock(p) PROVE TypeOK'
  BY <1>7, IdentityTypes, SameType
     DEF RecheckUnderLock, proceedUnderLock, End, Goto, TypeOK, PC, Outcome, Refused, chainVars, fileVars, ghostVars
<1>8. ASSUME NEW p \in Process, WriteFingerprint(p) PROVE TypeOK'
  BY <1>8, FingerprintForType
     DEF WriteFingerprint, Goto, SidecarFile, holding, Entry, TypeOK, PC, Outcome, Refused, chainVars, fileVars, ghostVars
<1>9. ASSUME NEW p \in Process, WriteRecord(p) PROVE TypeOK'
  <2>1. snapshot[p] \in SUBSET Entry
    BY DEF TypeOK
  <2>2. canonicalizeStoredAddresses(snapshot[p]) \in SUBSET Entry
    BY <2>1, CanonicalizeType
  <2>3. /\ manifest' \in SUBSET Entry
        /\ torn' \in BOOLEAN
        /\ wrote' \in [Process -> SUBSET {"fingerprint", "record"}]
    <3>1. manifest \in SUBSET Entry /\ torn \in BOOLEAN /\ wrote \in [Process -> SUBSET {"fingerprint", "record"}]
      BY DEF TypeOK
    <3>2. CASE manifest' = manifest /\ torn' = torn /\ wrote' = wrote
      BY <3>1, <3>2
    <3>3. CASE /\ manifest' = canonicalizeStoredAddresses(snapshot[p]) /\ torn' = FALSE
               /\ wrote' = [wrote EXCEPT ![p] = @ \cup {"record"}]
      BY <2>2, <3>1, <3>3
    <3>4. QED
      BY <1>9, <3>2, <3>3 DEF WriteRecord
  <2>4. QED
    BY <1>9, <2>3 DEF WriteRecord, Goto, TypeOK, PC, chainVars, ghostVars
<1>10. ASSUME NEW p \in Process, ReleaseLock(p) PROVE TypeOK'
  BY <1>10
     DEF ReleaseLock, Goto, TypeOK, PC, Outcome, Refused, chainVars, fileVars, ghostVars
<1>11. ASSUME NEW p \in Process, NEW id \in fresh, AddProxyRecord(p, id) PROVE TypeOK'
  BY <1>11, DeployedType
     DEF AddProxyRecord, Kind, TypeOK, PC, Outcome, Refused, chainVars, fileVars, ghostVars
<1>12. ASSUME NEW p \in Process, NEW id \in fresh, RecordImplDeployment(p, id) PROVE TypeOK'
  BY <1>12, DeployedType
     DEF RecordImplDeployment, Goto, Kind, TypeOK, PC, Outcome, Refused, chainVars, fileVars, ghostVars
<1>13. ASSUME NEW p \in Process, BeginImplDeployment(p) PROVE TypeOK'
  BY <1>13
     DEF BeginImplDeployment, Goto, TypeOK, PC, Outcome, Refused, chainVars, fileVars, ghostVars
<1>14. ASSUME NEW p \in Process, ImplDeploymentFails(p) PROVE TypeOK'
  BY <1>14
     DEF ImplDeploymentFails, Goto, TypeOK, PC, Outcome, Refused, chainVars, fileVars, ghostVars
<1>15. ASSUME NEW p \in Process, EndOperation(p) PROVE TypeOK'
  BY <1>15, IdentityTypes, SameType
     DEF EndOperation, End, Goto, TypeOK, PC, Outcome, Refused, chainVars, fileVars, ghostVars
<1>16. ASSUME NEW p \in Process, Crash(p) PROVE TypeOK'
  BY <1>16, IdentityTypes, SameType
     DEF Crash, End, Goto, TypeOK, PC, Outcome, Refused, chainVars, fileVars, ghostVars
<1>17. ASSUME NEW p \in Process, CrashWritingRecord(p) PROVE TypeOK'
  BY <1>17, IdentityTypes, SameType
     DEF CrashWritingRecord, writesRecord, End, Goto, TypeOK, PC, Outcome, Refused, chainVars, fileVars, ghostVars
<1>18. ASSUME ExpireStaleLock PROVE TypeOK'
  BY <1>18
     DEF ExpireStaleLock, TypeOK, PC, Outcome, Refused, chainVars, fileVars, ghostVars
<1>19. ASSUME MineFirstBlock PROVE TypeOK'
  BY <1>19
     DEF MineFirstBlock, TypeOK, PC, Outcome, Refused, chainVars, fileVars, ghostVars
<1>20. ASSUME WipeChain PROVE TypeOK'
  <2>1. era + 1 \in Era
    BY <1>20, RecordAssumption DEF WipeChain, TypeOK, Era
  <2>2. QED
    BY <1>20, <2>1 DEF WipeChain, TypeOK, fileVars, ghostVars
<1>21. ASSUME DeleteRecord PROVE TypeOK'
  BY <1>21
     DEF DeleteRecord, TypeOK, PC, Outcome, Refused, chainVars, fileVars, ghostVars
<1>22. ASSUME DeleteFingerprint PROVE TypeOK'
  BY <1>22
     DEF DeleteFingerprint, SidecarFile, absent, TypeOK, PC, Outcome, Refused, chainVars, fileVars, ghostVars
<1>23. ASSUME CorruptFingerprint PROVE TypeOK'
  BY <1>23
     DEF CorruptFingerprint, SidecarFile, unreadable, TypeOK, PC, Outcome, Refused, chainVars, fileVars, ghostVars
<1>24. CASE UNCHANGED vars
  BY <1>24 DEF vars, TypeOK
<1>25. ASSUME NEW p \in Process, FingerprintWriteFails(p) PROVE TypeOK'
  BY <1>25, IdentityTypes, SameType
     DEF FingerprintWriteFails, End, Goto, TypeOK, PC, Outcome, Refused, chainVars, fileVars, ghostVars
<1>26. ASSUME NEW p \in Process, RecordWriteFails(p) PROVE TypeOK'
  BY <1>26, IdentityTypes, SameType
     DEF RecordWriteFails, leavesRecordOrTearsIt, End, Goto, TypeOK, PC, Outcome, Refused, chainVars, fileVars, ghostVars
<1>27. ASSUME NEW p \in Process, Reconcile(p) PROVE TypeOK'
  BY <1>27, IdentityTypes, SameType, OutcomeType
     DEF Reconcile, End, Open, Goto, TypeOK, PC, Outcome, Refused, chainVars, fileVars, ghostVars
<1>28. ASSUME NEW p \in Process, SessionWriteFails(p) PROVE TypeOK'
  BY <1>28, IdentityTypes, SameType
     DEF SessionWriteFails, writesRecord, leavesRecordOrTearsIt, End, Goto, TypeOK, PC, Outcome, Refused, chainVars, fileVars, ghostVars
<1>29. QED
  BY <1>1, <1>2, <1>3, <1>4, <1>5, <1>6, <1>7, <1>8, <1>9, <1>10, <1>11, <1>12, <1>13, <1>14, <1>15, <1>16, <1>17, <1>18, <1>19, <1>20, <1>21, <1>22, <1>23, <1>24,
     <1>25, <1>26, <1>27, <1>28
     DEF Next, OpenRecord, UseSession, Environment

\* Every variable keeps its type in every state of every instance.
THEOREM TypeCorrect == Spec => []TypeOK
BY TypeInit, TypeStep, PTL DEF Spec

-----------------------------------------------------------------------------
(* The lock, and what was read under it *)

\* No process holds the lock before the first openRecord.
LEMMA LockInit == Init => LockInv
BY TypeInit DEF Init, LockInv, HoldersHold, SnapshotCovers, RearmSawNothing, LockedPC

\* The lock changes hands only by acquire, release and expiry, and the record
\* only under it: what a process read under the lock stays all there is.
LEMMA LockStep == LockInv /\ [Next]_vars => LockInv'
<1> DEFINE LockSteps == HoldersHold /\ SnapshotCovers /\ RearmSawNothing
<1> SUFFICES ASSUME TypeOK, LockSteps, [Next]_vars PROVE LockSteps'
  BY TypeStep DEF LockInv
<1>1. ASSUME NEW p \in Process, Begin(p) PROVE LockSteps'
  BY <1>1, RecordAssumption
     DEF Begin, Goto, same, LockSteps, HoldersHold, SnapshotCovers, RearmSawNothing, LockedPC, TypeOK, fileVars
<1>2. ASSUME NEW p \in Process, ReadFingerprint(p) PROVE LockSteps'
  BY <1>2, RecordAssumption
     DEF ReadFingerprint, Goto, LockSteps, HoldersHold, SnapshotCovers, RearmSawNothing, LockedPC, TypeOK, fileVars
<1>3. ASSUME NEW p \in Process, Diagnose(p) PROVE LockSteps'
  BY <1>3, RecordAssumption
     DEF Diagnose, End, Goto, same, LockSteps, HoldersHold, SnapshotCovers, RearmSawNothing, LockedPC, TypeOK, fileVars
<1>4. ASSUME NEW p \in Process, ReadRecord(p) PROVE LockSteps'
  BY <1>4, RecordAssumption
     DEF ReadRecord, End, Goto, same, LockSteps, HoldersHold, SnapshotCovers, RearmSawNothing, LockedPC, TypeOK, fileVars
<1>5. ASSUME NEW p \in Process, LockContended(p) PROVE LockSteps'
  BY <1>5, RecordAssumption
     DEF LockContended, End, Goto, same, LockSteps, HoldersHold, SnapshotCovers, RearmSawNothing, LockedPC, TypeOK, fileVars
<1>6. ASSUME NEW p \in Process, AcquireLock(p) PROVE LockSteps'
  BY <1>6, RecordAssumption
     DEF AcquireLock, Goto, LockSteps, HoldersHold, SnapshotCovers, RearmSawNothing, LockedPC, TypeOK, fileVars
<1>7. ASSUME NEW p \in Process, RecheckUnderLock(p) PROVE LockSteps'
  BY <1>7, RecordAssumption
     DEF RecheckUnderLock, proceedUnderLock, End, Goto, holdsDeployments, needsFingerprint, same, LockSteps, HoldersHold, SnapshotCovers, RearmSawNothing, LockedPC, TypeOK, fileVars
<1>8. ASSUME NEW p \in Process, WriteFingerprint(p) PROVE LockSteps'
  BY <1>8, RecordAssumption
     DEF WriteFingerprint, Goto, LockSteps, HoldersHold, SnapshotCovers, RearmSawNothing, LockedPC, TypeOK, fileVars
<1>9. ASSUME NEW p \in Process, WriteRecord(p) PROVE LockSteps'
  BY <1>9, RecordAssumption
     DEF WriteRecord, Goto, LockSteps, HoldersHold, SnapshotCovers, RearmSawNothing, LockedPC, TypeOK, fileVars
<1>10. ASSUME NEW p \in Process, ReleaseLock(p) PROVE LockSteps'
  BY <1>10, RecordAssumption
     DEF ReleaseLock, Goto, same, LockSteps, HoldersHold, SnapshotCovers, RearmSawNothing, LockedPC, TypeOK, fileVars
<1>11. ASSUME NEW p \in Process, NEW id \in fresh, AddProxyRecord(p, id) PROVE LockSteps'
  BY <1>11, RecordAssumption
     DEF AddProxyRecord, LockSteps, HoldersHold, SnapshotCovers, RearmSawNothing, LockedPC, TypeOK, fileVars
<1>12. ASSUME NEW p \in Process, NEW id \in fresh, RecordImplDeployment(p, id) PROVE LockSteps'
  BY <1>12, RecordAssumption
     DEF RecordImplDeployment, Goto, LockSteps, HoldersHold, SnapshotCovers, RearmSawNothing, LockedPC, TypeOK, fileVars
<1>13. ASSUME NEW p \in Process, BeginImplDeployment(p) PROVE LockSteps'
  BY <1>13, RecordAssumption
     DEF BeginImplDeployment, Goto, LockSteps, HoldersHold, SnapshotCovers, RearmSawNothing, LockedPC, TypeOK, fileVars
<1>14. ASSUME NEW p \in Process, ImplDeploymentFails(p) PROVE LockSteps'
  BY <1>14, RecordAssumption
     DEF ImplDeploymentFails, Goto, LockSteps, HoldersHold, SnapshotCovers, RearmSawNothing, LockedPC, TypeOK, fileVars
<1>15. ASSUME NEW p \in Process, EndOperation(p) PROVE LockSteps'
  BY <1>15, RecordAssumption
     DEF EndOperation, End, Goto, same, LockSteps, HoldersHold, SnapshotCovers, RearmSawNothing, LockedPC, TypeOK, fileVars
<1>16. ASSUME NEW p \in Process, Crash(p) PROVE LockSteps'
  BY <1>16, RecordAssumption
     DEF Crash, End, Goto, same, LockSteps, HoldersHold, SnapshotCovers, RearmSawNothing, LockedPC, TypeOK, fileVars
<1>17. ASSUME NEW p \in Process, CrashWritingRecord(p) PROVE LockSteps'
  BY <1>17, RecordAssumption
     DEF CrashWritingRecord, writesRecord, End, Goto, same, LockSteps, HoldersHold, SnapshotCovers, RearmSawNothing, LockedPC, TypeOK, fileVars
<1>18. ASSUME ExpireStaleLock PROVE LockSteps'
  BY <1>18, RecordAssumption
     DEF ExpireStaleLock, LockSteps, HoldersHold, SnapshotCovers, RearmSawNothing, LockedPC, TypeOK, fileVars
<1>19. ASSUME MineFirstBlock PROVE LockSteps'
  BY <1>19, RecordAssumption
     DEF MineFirstBlock, LockSteps, HoldersHold, SnapshotCovers, RearmSawNothing, LockedPC, TypeOK, fileVars
<1>20. ASSUME WipeChain PROVE LockSteps'
  BY <1>20, RecordAssumption
     DEF WipeChain, LockSteps, HoldersHold, SnapshotCovers, RearmSawNothing, LockedPC, TypeOK, fileVars
<1>21. ASSUME DeleteRecord PROVE LockSteps'
  BY <1>21, RecordAssumption
     DEF DeleteRecord, LockSteps, HoldersHold, SnapshotCovers, RearmSawNothing, LockedPC, TypeOK, fileVars
<1>22. ASSUME DeleteFingerprint PROVE LockSteps'
  BY <1>22, RecordAssumption
     DEF DeleteFingerprint, LockSteps, HoldersHold, SnapshotCovers, RearmSawNothing, LockedPC, TypeOK, fileVars
<1>23. ASSUME CorruptFingerprint PROVE LockSteps'
  BY <1>23, RecordAssumption
     DEF CorruptFingerprint, LockSteps, HoldersHold, SnapshotCovers, RearmSawNothing, LockedPC, TypeOK, fileVars
<1>24. CASE UNCHANGED vars
  BY <1>24 DEF vars, HoldersHold, SnapshotCovers, RearmSawNothing, LockedPC
<1>25. ASSUME NEW p \in Process, FingerprintWriteFails(p) PROVE LockSteps'
  BY <1>25, RecordAssumption
     DEF FingerprintWriteFails, End, Goto, same, LockSteps, HoldersHold, SnapshotCovers, RearmSawNothing, LockedPC, TypeOK, fileVars
<1>26. ASSUME NEW p \in Process, RecordWriteFails(p) PROVE LockSteps'
  BY <1>26, RecordAssumption
     DEF RecordWriteFails, leavesRecordOrTearsIt, End, Goto, same, LockSteps, HoldersHold, SnapshotCovers, RearmSawNothing, LockedPC, TypeOK, fileVars
<1>27. ASSUME NEW p \in Process, Reconcile(p) PROVE LockSteps'
  BY <1>27, RecordAssumption
     DEF Reconcile, End, Open, Goto, same, LockSteps, HoldersHold, SnapshotCovers, RearmSawNothing, LockedPC, TypeOK, fileVars
<1>28. ASSUME NEW p \in Process, SessionWriteFails(p) PROVE LockSteps'
  BY <1>28, RecordAssumption
     DEF SessionWriteFails, writesRecord, leavesRecordOrTearsIt, End, Goto, same, LockSteps, HoldersHold, SnapshotCovers, RearmSawNothing, LockedPC, TypeOK, fileVars
<1>29. QED
  BY <1>1, <1>2, <1>3, <1>4, <1>5, <1>6, <1>7, <1>8, <1>9, <1>10, <1>11, <1>12, <1>13, <1>14, <1>15, <1>16, <1>17, <1>18, <1>19, <1>20, <1>21, <1>22, <1>23, <1>24,
     <1>25, <1>26, <1>27, <1>28
     DEF Next, OpenRecord, UseSession, Environment

\* session.ts re-reads and writes the record inside throughLock: from the re-read
\* to the release the process holds the lock, what it read covers the record, and
\* a re-arm saw no entry there.
THEOREM LockCorrect == Spec => []LockInv
BY LockInit, LockStep, PTL DEF Spec

-----------------------------------------------------------------------------
(* The guard is truthful *)

\* The initial sidecars are ones whose entries nobody vouches for, or true ones.
LEMMA GuardInit == Init => GuardInv
<1> SUFFICES ASSUME Init PROVE GuardInv
  OBVIOUS
<1>1. ~pinned
  BY RecordAssumption DEF Init, pinned, absent, holding
<1>2. QED
  BY <1>1, LockInit
     DEF Init, GuardInv, IdentityIsCurrent, GateIsCurrent, GuardedSnapshot, GuardedRecord

\* While no node is wiped under a running operation, a step of one process, the
\* other's comparison pending, keeps the guard and what the pending one relies on.
LEMMA GuardStep ==
  ASSUME ~WipeMidRun
  PROVE  GuardInv /\ [Next]_vars => GuardInv'
<1> DEFINE GuardSteps == IdentityIsCurrent /\ GateIsCurrent /\ GuardedSnapshot /\ GuardedRecord
<1> SUFFICES ASSUME LockInv, GuardSteps, [Next]_vars PROVE GuardSteps'
  BY LockStep DEF GuardInv
<1>1. ASSUME NEW p \in Process, Begin(p) PROVE GuardSteps'
  BY <1>1, RecordAssumption
     DEF Begin, Goto, same, observedIdentity, GuardSteps, IdentityIsCurrent, GateIsCurrent, GuardedSnapshot, GuardedRecord, PastGate, pinned, onPinnedChain, LockInv, HoldersHold, SnapshotCovers, RearmSawNothing, LockedPC, TypeOK, chainVars, fileVars, ghostVars
<1>2. ASSUME NEW p \in Process, ReadFingerprint(p) PROVE GuardSteps'
  <2>1. ASSUME pinned, PastGate(p)'
        PROVE  canonicalHash[sidecar.record.firstBlockHash] = firstOf[era]
    <3>1. identity[p] \in Identity /\ sidecar.record \in RecordedFingerprint
      BY <2>1, SidecarHolds DEF pinned, LockInv, TypeOK
    <3>2. compareChainInstance(sidecar.record, identity[p]).kind # "changed"
      BY <1>2, <2>1 DEF ReadFingerprint, Goto, pinned, PastGate, LockInv, TypeOK
    <3>3. canonicalHash[sidecar.record.firstBlockHash] = identity[p].firstBlockHash
      BY <2>1, <3>1, <3>2, CompareComplete DEF pinned
    <3>4. canonicalHash[sidecar.record.firstBlockHash] \in Hash /\ Null \notin Hash
      BY <2>1, <3>1, SpellingAssumption DEF pinned, Complete, RecordedFingerprint
    <3>5. identity[p].firstBlockHash \in {Null, firstOf[era]}
      BY <1>2 DEF ReadFingerprint, IdentityIsCurrent
    <3>6. QED
      BY <3>3, <3>4, <3>5
  <2>2. \A q \in Process \ {p} : PastGate(q)' <=> PastGate(q)
    BY <1>2 DEF ReadFingerprint, Goto, PastGate, LockInv, TypeOK
  <2>3. GateIsCurrent'
    BY <1>2, <2>1, <2>2 DEF ReadFingerprint, GateIsCurrent, pinned, fileVars, chainVars
  <2>4. IdentityIsCurrent'
    BY <1>2 DEF ReadFingerprint, Goto, IdentityIsCurrent, LockInv, TypeOK, chainVars
  <2>5. GuardedSnapshot' /\ GuardedRecord'
    BY <1>2 DEF ReadFingerprint, Goto, GuardedSnapshot, GuardedRecord, pinned, onPinnedChain,
                LockInv, TypeOK, fileVars, ghostVars
  <2>6. QED
    BY <2>3, <2>4, <2>5
<1>3. ASSUME NEW p \in Process, Diagnose(p) PROVE GuardSteps'
  BY <1>3, RecordAssumption
     DEF Diagnose, End, Goto, same, GuardSteps, IdentityIsCurrent, GateIsCurrent, GuardedSnapshot, GuardedRecord, PastGate, pinned, onPinnedChain, LockInv, HoldersHold, SnapshotCovers, RearmSawNothing, LockedPC, TypeOK, chainVars, fileVars, ghostVars
<1>4. ASSUME NEW p \in Process, ReadRecord(p) PROVE GuardSteps'
  BY <1>4, RecordAssumption
     DEF ReadRecord, End, Goto, needsFingerprint, same, GuardSteps, IdentityIsCurrent, GateIsCurrent, GuardedSnapshot, GuardedRecord, PastGate, pinned, onPinnedChain, LockInv, HoldersHold, SnapshotCovers, RearmSawNothing, LockedPC, TypeOK, chainVars, fileVars, ghostVars
<1>5. ASSUME NEW p \in Process, LockContended(p) PROVE GuardSteps'
  BY <1>5, RecordAssumption
     DEF LockContended, End, Goto, same, GuardSteps, IdentityIsCurrent, GateIsCurrent, GuardedSnapshot, GuardedRecord, PastGate, pinned, onPinnedChain, LockInv, HoldersHold, SnapshotCovers, RearmSawNothing, LockedPC, TypeOK, chainVars, fileVars, ghostVars
<1>6. ASSUME NEW p \in Process, AcquireLock(p) PROVE GuardSteps'
  BY <1>6, RecordAssumption
     DEF AcquireLock, Goto, GuardSteps, IdentityIsCurrent, GateIsCurrent, GuardedSnapshot, GuardedRecord, PastGate, pinned, onPinnedChain, LockInv, HoldersHold, SnapshotCovers, RearmSawNothing, LockedPC, TypeOK, chainVars, fileVars, ghostVars
<1>7. ASSUME NEW p \in Process, RecheckUnderLock(p) PROVE GuardSteps'
  BY <1>7, RecordAssumption
     DEF RecheckUnderLock, proceedUnderLock, End, Goto, holdsDeployments, needsFingerprint, same, GuardSteps, IdentityIsCurrent, GateIsCurrent, GuardedSnapshot, GuardedRecord, PastGate, pinned, onPinnedChain, LockInv, HoldersHold, SnapshotCovers, RearmSawNothing, LockedPC, TypeOK, chainVars, fileVars, ghostVars
<1>8. ASSUME NEW p \in Process, WriteFingerprint(p) PROVE GuardSteps'
  <2>1. /\ sidecar' = holding(fingerprintFor(identity[p]))
        /\ snapshot[p] = {} \/ blessed' = blessed \cup {e.id : e \in snapshot[p]}
        /\ pc' = [pc EXCEPT ![p] = "writeRecord"]
        /\ pc[p] = "writeFingerprint" /\ lock = p
        /\ UNCHANGED <<era, mined, manifest, torn, lock, identity, comparison, snapshot>>
    BY <1>8 DEF WriteFingerprint, Goto, LockInv, HoldersHold, RearmSawNothing, LockedPC, chainVars
  <2>2. pinned' => canonicalHash[sidecar'.record.firstBlockHash] = firstOf[era]
    <3>1. SUFFICES ASSUME pinned' PROVE canonicalHash[sidecar'.record.firstBlockHash] = firstOf[era]
      OBVIOUS
    <3>2. identity[p] \in Identity /\ Complete(fingerprintFor(identity[p]))
      BY <2>1, <3>1 DEF pinned, holding, LockInv, TypeOK
    <3>3. identity[p].firstBlockHash \in {Null, firstOf[era]} /\ Null \notin Hash
      BY <2>1, SpellingAssumption DEF IdentityIsCurrent
    <3>4. QED
      BY <2>1, <3>2, <3>3, WrittenPinsObserved DEF holding
  <2>3. GateIsCurrent'
    BY <2>1, <2>2 DEF GateIsCurrent
  <2>4. IdentityIsCurrent'
    BY <2>1 DEF IdentityIsCurrent, LockInv, TypeOK
  <2>5. GuardedRecord'
    BY <2>1 DEF GuardedRecord, LockInv, SnapshotCovers
  <2>6. GuardedSnapshot'
    <3>1. \A q \in Process : q # p => pc'[q] \notin LockedPC
      BY <2>1 DEF LockInv, HoldersHold, TypeOK
    <3>2. \A e \in snapshot'[p] : e.id \in blessed'
      BY <2>1
    <3>3. QED
      BY <3>1, <3>2 DEF GuardedSnapshot, LockedPC
  <2>7. QED
    BY <2>3, <2>4, <2>5, <2>6
<1>9. ASSUME NEW p \in Process, WriteRecord(p) PROVE GuardSteps'
  BY <1>9, RecordAssumption
     DEF WriteRecord, Goto, canonicalizeStoredAddresses, migrated, GuardSteps, IdentityIsCurrent, GateIsCurrent, GuardedSnapshot, GuardedRecord, PastGate, pinned, onPinnedChain, LockInv, HoldersHold, SnapshotCovers, RearmSawNothing, LockedPC, TypeOK, chainVars, fileVars, ghostVars
<1>10. ASSUME NEW p \in Process, ReleaseLock(p) PROVE GuardSteps'
  BY <1>10, RecordAssumption
     DEF ReleaseLock, Goto, same, GuardSteps, IdentityIsCurrent, GateIsCurrent, GuardedSnapshot, GuardedRecord, PastGate, pinned, onPinnedChain, LockInv, HoldersHold, SnapshotCovers, RearmSawNothing, LockedPC, TypeOK, chainVars, fileVars, ghostVars
<1>11. ASSUME NEW p \in Process, NEW id \in fresh, AddProxyRecord(p, id) PROVE GuardSteps'
  BY <1>11, RecordAssumption
     DEF AddProxyRecord, deployed, GuardSteps, IdentityIsCurrent, GateIsCurrent, GuardedSnapshot, GuardedRecord, PastGate, pinned, onPinnedChain, LockInv, HoldersHold, SnapshotCovers, RearmSawNothing, LockedPC, TypeOK, chainVars, fileVars, ghostVars
<1>12. ASSUME NEW p \in Process, NEW id \in fresh, RecordImplDeployment(p, id) PROVE GuardSteps'
  BY <1>12, RecordAssumption
     DEF RecordImplDeployment, Goto, deployed, GuardSteps, IdentityIsCurrent, GateIsCurrent, GuardedSnapshot, GuardedRecord, PastGate, pinned, onPinnedChain, LockInv, HoldersHold, SnapshotCovers, RearmSawNothing, LockedPC, TypeOK, chainVars, fileVars, ghostVars
<1>13. ASSUME NEW p \in Process, BeginImplDeployment(p) PROVE GuardSteps'
  BY <1>13, RecordAssumption
     DEF BeginImplDeployment, Goto, GuardSteps, IdentityIsCurrent, GateIsCurrent, GuardedSnapshot, GuardedRecord, PastGate, pinned, onPinnedChain, LockInv, HoldersHold, SnapshotCovers, RearmSawNothing, LockedPC, TypeOK, chainVars, fileVars, ghostVars
<1>14. ASSUME NEW p \in Process, ImplDeploymentFails(p) PROVE GuardSteps'
  BY <1>14, RecordAssumption
     DEF ImplDeploymentFails, Goto, GuardSteps, IdentityIsCurrent, GateIsCurrent, GuardedSnapshot, GuardedRecord, PastGate, pinned, onPinnedChain, LockInv, HoldersHold, SnapshotCovers, RearmSawNothing, LockedPC, TypeOK, chainVars, fileVars, ghostVars
<1>15. ASSUME NEW p \in Process, EndOperation(p) PROVE GuardSteps'
  BY <1>15, RecordAssumption
     DEF EndOperation, End, Goto, same, GuardSteps, IdentityIsCurrent, GateIsCurrent, GuardedSnapshot, GuardedRecord, PastGate, pinned, onPinnedChain, LockInv, HoldersHold, SnapshotCovers, RearmSawNothing, LockedPC, TypeOK, chainVars, fileVars, ghostVars
<1>16. ASSUME NEW p \in Process, Crash(p) PROVE GuardSteps'
  BY <1>16, RecordAssumption
     DEF Crash, End, Goto, same, GuardSteps, IdentityIsCurrent, GateIsCurrent, GuardedSnapshot, GuardedRecord, PastGate, pinned, onPinnedChain, LockInv, HoldersHold, SnapshotCovers, RearmSawNothing, LockedPC, TypeOK, chainVars, fileVars, ghostVars
<1>17. ASSUME NEW p \in Process, CrashWritingRecord(p) PROVE GuardSteps'
  BY <1>17, RecordAssumption
     DEF CrashWritingRecord, writesRecord, End, Goto, same, GuardSteps, IdentityIsCurrent, GateIsCurrent, GuardedSnapshot, GuardedRecord, PastGate, pinned, onPinnedChain, LockInv, HoldersHold, SnapshotCovers, RearmSawNothing, LockedPC, TypeOK, chainVars, fileVars, ghostVars
<1>18. ASSUME ExpireStaleLock PROVE GuardSteps'
  BY <1>18, RecordAssumption
     DEF ExpireStaleLock, GuardSteps, IdentityIsCurrent, GateIsCurrent, GuardedSnapshot, GuardedRecord, PastGate, pinned, onPinnedChain, LockInv, HoldersHold, SnapshotCovers, RearmSawNothing, LockedPC, TypeOK, chainVars, fileVars, ghostVars
<1>19. ASSUME MineFirstBlock PROVE GuardSteps'
  BY <1>19, RecordAssumption
     DEF MineFirstBlock, GuardSteps, IdentityIsCurrent, GateIsCurrent, GuardedSnapshot, GuardedRecord, PastGate, pinned, onPinnedChain, LockInv, HoldersHold, SnapshotCovers, RearmSawNothing, LockedPC, TypeOK, chainVars, fileVars, ghostVars
<1>20. ASSUME WipeChain PROVE GuardSteps'
  BY <1>20, RecordAssumption
     DEF WipeChain, GuardSteps, IdentityIsCurrent, GateIsCurrent, GuardedSnapshot, GuardedRecord, PastGate, pinned, onPinnedChain, LockInv, HoldersHold, SnapshotCovers, RearmSawNothing, LockedPC, TypeOK, chainVars, fileVars, ghostVars
<1>21. ASSUME DeleteRecord PROVE GuardSteps'
  BY <1>21, RecordAssumption
     DEF DeleteRecord, GuardSteps, IdentityIsCurrent, GateIsCurrent, GuardedSnapshot, GuardedRecord, PastGate, pinned, onPinnedChain, LockInv, HoldersHold, SnapshotCovers, RearmSawNothing, LockedPC, TypeOK, chainVars, fileVars, ghostVars
<1>22. ASSUME DeleteFingerprint PROVE GuardSteps'
  BY <1>22, RecordAssumption
     DEF DeleteFingerprint, absent, GuardSteps, IdentityIsCurrent, GateIsCurrent, GuardedSnapshot, GuardedRecord, PastGate, pinned, onPinnedChain, LockInv, HoldersHold, SnapshotCovers, RearmSawNothing, LockedPC, TypeOK, chainVars, fileVars, ghostVars
<1>23. ASSUME CorruptFingerprint PROVE GuardSteps'
  BY <1>23, RecordAssumption
     DEF CorruptFingerprint, unreadable, GuardSteps, IdentityIsCurrent, GateIsCurrent, GuardedSnapshot, GuardedRecord, PastGate, pinned, onPinnedChain, LockInv, HoldersHold, SnapshotCovers, RearmSawNothing, LockedPC, TypeOK, chainVars, fileVars, ghostVars
<1>24. CASE UNCHANGED vars
  BY <1>24 DEF vars, IdentityIsCurrent, GateIsCurrent, GuardedSnapshot, GuardedRecord, PastGate, pinned, onPinnedChain
<1>25. ASSUME NEW p \in Process, FingerprintWriteFails(p) PROVE GuardSteps'
  BY <1>25, RecordAssumption
     DEF FingerprintWriteFails, End, Goto, same, GuardSteps, IdentityIsCurrent, GateIsCurrent, GuardedSnapshot, GuardedRecord, PastGate, pinned, onPinnedChain, LockInv, HoldersHold, SnapshotCovers, RearmSawNothing, LockedPC, TypeOK, chainVars, fileVars, ghostVars
<1>26. ASSUME NEW p \in Process, RecordWriteFails(p) PROVE GuardSteps'
  BY <1>26, RecordAssumption
     DEF RecordWriteFails, leavesRecordOrTearsIt, End, Goto, same, GuardSteps, IdentityIsCurrent, GateIsCurrent, GuardedSnapshot, GuardedRecord, PastGate, pinned, onPinnedChain, LockInv, HoldersHold, SnapshotCovers, RearmSawNothing, LockedPC, TypeOK, chainVars, fileVars, ghostVars
<1>27. ASSUME NEW p \in Process, Reconcile(p) PROVE GuardSteps'
  BY <1>27, RecordAssumption
     DEF Reconcile, End, Open, Goto, same, GuardSteps, IdentityIsCurrent, GateIsCurrent, GuardedSnapshot, GuardedRecord, PastGate, pinned, onPinnedChain, LockInv, HoldersHold, SnapshotCovers, RearmSawNothing, LockedPC, TypeOK, chainVars, fileVars, ghostVars
<1>28. ASSUME NEW p \in Process, SessionWriteFails(p) PROVE GuardSteps'
  BY <1>28, RecordAssumption
     DEF SessionWriteFails, writesRecord, leavesRecordOrTearsIt, End, Goto, same, GuardSteps, IdentityIsCurrent, GateIsCurrent, GuardedSnapshot, GuardedRecord, PastGate, pinned, onPinnedChain, LockInv, HoldersHold, SnapshotCovers, RearmSawNothing, LockedPC, TypeOK, chainVars, fileVars, ghostVars
<1>29. QED
  BY <1>1, <1>2, <1>3, <1>4, <1>5, <1>6, <1>7, <1>8, <1>9, <1>10, <1>11, <1>12, <1>13, <1>14, <1>15, <1>16, <1>17, <1>18, <1>19, <1>20, <1>21, <1>22, <1>23, <1>24,
     <1>25, <1>26, <1>27, <1>28
     DEF Next, OpenRecord, UseSession, Environment

\* The sidecar never vouches for entries of another chain instance: what
\* openRecord's comparison (steps 3 to 6 of session.ts) is there to prevent.
THEOREM GuardIsTruthful ==
  ASSUME ~WipeMidRun
  PROVE  Spec => []GuardedRecord
<1>1. Spec => []GuardInv
  BY GuardInit, GuardStep, PTL DEF Spec
<1>2. GuardInv => GuardedRecord
  BY DEF GuardInv
<1>3. QED
  BY <1>1, <1>2, PTL

\* The re-arm of step 6 replaces another chain's fingerprint only while the
\* record is still empty, whatever other runs did before the lock was taken.
THEOREM RearmIsOverNothing == Spec => []RearmOnlyOverEmptyRecord
<1>1. LockInv => RearmOnlyOverEmptyRecord
  BY DEF LockInv, SnapshotCovers, RearmSawNothing, RearmOnlyOverEmptyRecord
<1>2. QED
  BY <1>1, LockCorrect, PTL

-----------------------------------------------------------------------------
(* No run loses an entry of another *)

\* canonicalizeStoredAddresses respells addresses and drops none of them.
LEMMA MigrationKeepsIds ==
  ASSUME NEW S \in SUBSET Entry
  PROVE  {e.id : e \in canonicalizeStoredAddresses(S)} = {e.id : e \in S}
<1>1. \A e \in S : migrated(e) \in canonicalizeStoredAddresses(S)
  BY DEF canonicalizeStoredAddresses
<1>2. \A m \in canonicalizeStoredAddresses(S) : \E e \in S : m = migrated(e)
  BY DEF canonicalizeStoredAddresses
<1>3. \A e \in S : migrated(e).id = e.id
  BY DEF migrated
<1>4. QED
  BY <1>1, <1>2, <1>3

\* A record written from a snapshot that covers it loses no address.
LEMMA LockedWritesKeepIds ==
  ASSUME LockInv, [Next]_vars
  PROVE  DeleteRecord \/ torn' \/ {e.id : e \in manifest} \subseteq {e.id : e \in manifest'}
<1> DEFINE Kept == {e.id : e \in manifest} \subseteq {e.id : e \in manifest'}
<1>1. ASSUME manifest' = manifest PROVE Kept
  BY <1>1
<1>2. ASSUME NEW p \in Process, WriteRecord(p) PROVE Kept
  <2>1. manifest \subseteq snapshot[p] /\ snapshot[p] \in SUBSET Entry
    BY <1>2 DEF WriteRecord, LockInv, SnapshotCovers, TypeOK
  <2>2. manifest' = canonicalizeStoredAddresses(snapshot[p]) \/ manifest' = manifest
    BY <1>2 DEF WriteRecord
  <2>3. CASE manifest' = manifest
    BY <1>1, <2>3
  <2>4. CASE manifest' = canonicalizeStoredAddresses(snapshot[p])
    <3>1. {e.id : e \in manifest'} = {e.id : e \in snapshot[p]}
      BY <2>1, <2>4, MigrationKeepsIds
    <3>2. QED
      BY <2>1, <3>1
  <2>5. QED
    BY <2>2, <2>3, <2>4
<1>3. ASSUME NEW p \in Process, NEW id \in fresh, RecordImplDeployment(p, id) PROVE Kept
  BY <1>3 DEF RecordImplDeployment, LockInv, SnapshotCovers
<1>4. ASSUME NEW p \in Process, NEW id \in fresh, AddProxyRecord(p, id) PROVE Kept
  BY <1>4 DEF AddProxyRecord
<1>5. ASSUME NEW p \in Process, CrashWritingRecord(p) \/ RecordWriteFails(p) \/ SessionWriteFails(p)
      PROVE  torn' \/ Kept
  BY <1>5, <1>1 DEF CrashWritingRecord, RecordWriteFails, SessionWriteFails, leavesRecordOrTearsIt
<1>6. ASSUME NEW p \in Process, Begin(p) \/ OpenRecord(p) PROVE torn' \/ Kept
  BY <1>6, <1>1, <1>2, <1>5
     DEF Begin, OpenRecord, ReadFingerprint, Diagnose, ReadRecord, LockContended, AcquireLock,
         RecheckUnderLock, proceedUnderLock, WriteFingerprint, FingerprintWriteFails, ReleaseLock,
         Reconcile, fileVars
<1>7. ASSUME NEW p \in Process, UseSession(p) \/ Crash(p) PROVE torn' \/ Kept
  BY <1>7, <1>1, <1>3, <1>4, <1>5
     DEF UseSession, BeginImplDeployment, ImplDeploymentFails, EndOperation, Crash, fileVars
<1>8. ASSUME Environment PROVE DeleteRecord \/ Kept
  BY <1>8, <1>1
     DEF Environment, ExpireStaleLock, MineFirstBlock, WipeChain, DeleteFingerprint,
         CorruptFingerprint, fileVars
<1>9. ASSUME UNCHANGED vars PROVE Kept
  BY <1>9 DEF vars
<1>10. QED
  BY <1>5, <1>6, <1>7, <1>8, <1>9 DEF Next

\* Snapshots are written back only under the lock they were read under, so no
\* run removes an entry another one made; the user may delete the record, and a
\* crash or an error in the middle of the engine's write may tear it.
THEOREM EntriesAreKept == Spec => NoLostEntries
<1>1. LockInv /\ [Next]_vars =>
        [DeleteRecord \/ torn'
           \/ {e.id : e \in manifest} \subseteq {e.id : e \in manifest'}]_vars
  BY LockedWritesKeepIds
<1>2. QED
  BY <1>1, LockCorrect, PTL DEF Spec, NoLostEntries

-----------------------------------------------------------------------------
(* A refusal that promises to have written nothing wrote nothing *)

\* From its start to the locked re-check an openRecord has written neither file, and
\* it has no outcome that says refused before it ends.  Behind the re-check it may
\* still fail, in words that promise nothing.
RefusalInv ==
  /\ TypeOK
  /\ RefusalWroteNothing
  /\ \A p \in Process :
       /\ pc[p] \in {"readFingerprint", "diagnose", "readRecord", "acquire", "recheck"} => wrote[p] = {}
       /\ pc[p] # "down" => outcome[p] \notin Refused

\* An openRecord that is let through reports no refusal.
LEMMA OpensAreNotRefused ==
  ASSUME NEW p \in Process, TypeOK
  PROVE  instanceOutcome(p) \notin Refused
<1>1. comparison[p] \in InstanceComparison
  BY DEF TypeOK
<1>2. QED
  BY <1>1 DEF instanceOutcome, InstanceComparison, same, changed, indeterminate, Refused

\* Before the first openRecord there is nothing written and nothing refused.
LEMMA RefusalInit == Init => RefusalInv
BY TypeInit DEF Init, RefusalInv, RefusalWroteNothing, PromisesNothing, Refused

\* The files are written only behind the last check whose refusal promises nothing was,
\* and what fails behind it says something else.
LEMMA RefusalStep == RefusalInv /\ [Next]_vars => RefusalInv'
<1> DEFINE Unwritten ==
      /\ RefusalWroteNothing
      /\ \A p \in Process :
           /\ pc[p] \in {"readFingerprint", "diagnose", "readRecord", "acquire", "recheck"} => wrote[p] = {}
           /\ pc[p] # "down" => outcome[p] \notin Refused
<1> SUFFICES ASSUME TypeOK, Unwritten, [Next]_vars PROVE Unwritten'
  BY TypeStep DEF RefusalInv
<1> USE DEF Unwritten, RefusalWroteNothing, PromisesNothing, Refused, TypeOK, Goto
<1>1. ASSUME NEW p \in Process, Begin(p) PROVE Unwritten'
  BY <1>1 DEF Begin
<1>2. ASSUME NEW p \in Process, ReadFingerprint(p) \/ AcquireLock(p) PROVE Unwritten'
  BY <1>2 DEF ReadFingerprint, AcquireLock
<1>3. ASSUME NEW p \in Process, Diagnose(p) \/ LockContended(p) PROVE Unwritten'
  BY <1>3 DEF Diagnose, LockContended, End
<1>4. ASSUME NEW p \in Process, ReadRecord(p) PROVE Unwritten'
  BY <1>4 DEF ReadRecord, End
<1>5. ASSUME NEW p \in Process, RecheckUnderLock(p) PROVE Unwritten'
  BY <1>5 DEF RecheckUnderLock, proceedUnderLock, End
<1>6. ASSUME NEW p \in Process, WriteFingerprint(p) \/ WriteRecord(p) PROVE Unwritten'
  BY <1>6 DEF WriteFingerprint, WriteRecord
<1>7. ASSUME NEW p \in Process, FingerprintWriteFails(p) \/ RecordWriteFails(p) PROVE Unwritten'
  BY <1>7 DEF FingerprintWriteFails, RecordWriteFails, End
<1>8. ASSUME NEW p \in Process, ReleaseLock(p) PROVE Unwritten'
  BY <1>8 DEF ReleaseLock
<1>9. ASSUME NEW p \in Process, Reconcile(p) PROVE Unwritten'
  <2>1. CASE Open(p) /\ pc[p] = "reconcile"
    BY <2>1, OpensAreNotRefused DEF Open
  <2>2. CASE End(p, "error") /\ UNCHANGED wrote
    BY <2>2 DEF End
  <2>3. QED
    BY <1>9, <2>1, <2>2 DEF Reconcile
<1>10. ASSUME NEW p \in Process, UseSession(p) PROVE Unwritten'
  BY <1>10 DEF UseSession, AddProxyRecord, RecordImplDeployment, BeginImplDeployment,
              ImplDeploymentFails, SessionWriteFails, EndOperation, End
<1>11. ASSUME NEW p \in Process, Crash(p) \/ CrashWritingRecord(p) PROVE Unwritten'
  BY <1>11 DEF Crash, CrashWritingRecord, End
<1>12. ASSUME Environment PROVE Unwritten'
  BY <1>12 DEF Environment, ExpireStaleLock, MineFirstBlock, WipeChain, DeleteRecord,
               DeleteFingerprint, CorruptFingerprint
<1>13. CASE UNCHANGED vars
  BY <1>13 DEF vars
<1>14. QED
  BY <1>1, <1>2, <1>3, <1>4, <1>5, <1>6, <1>7, <1>8, <1>9, <1>10, <1>11, <1>12, <1>13
     DEF Next, OpenRecord

\* "Nothing has been changed or removed", "Nothing was written by this run": the changed
\* chain, the contended lock and the unusable sidecar are refused ahead of openRecord's
\* first write.  What fails behind it - the fingerprint's write, the record's, the address
\* of reconcileProxies or its read of the chain - is reported as something else.
THEOREM RefusalsWriteNothing == Spec => []RefusalWroteNothing
<1>1. RefusalInv => RefusalWroteNothing
  BY DEF RefusalInv
<1>2. QED
  BY <1>1, RefusalInit, RefusalStep, PTL DEF Spec

-----------------------------------------------------------------------------
(* An open session meets canonical addresses only *)

\* A legacy form is gone from the record before any session opens over it, and is
\* not in what a session is about to write back.
CanonicalInv ==
  /\ LockInv
  /\ (\E p \in Process : pc[p] \in {"release", "reconcile", "open", "deploying"}) => ~anyRewritten(manifest)
  /\ \A p \in Process : pc[p] = "deploying" => ~anyRewritten(snapshot[p])

\* What the migration writes has no legacy form left.
LEMMA MigrationLeavesNone ==
  ASSUME NEW S
  PROVE  ~anyRewritten(canonicalizeStoredAddresses(S))
BY DEF anyRewritten, canonicalizeStoredAddresses, migrated

\* No session is open before the first openRecord.
LEMMA CanonicalInit == Init => CanonicalInv
BY LockInit DEF Init, CanonicalInv

\* A session opens over a record that needs no rewrite, or after its own rewrite of it;
\* what sessions add is canonical.
LEMMA CanonicalStep == CanonicalInv /\ [Next]_vars => CanonicalInv'
<1> DEFINE Canonical ==
      /\ (\E p \in Process : pc[p] \in {"release", "reconcile", "open", "deploying"}) => ~anyRewritten(manifest)
      /\ \A p \in Process : pc[p] = "deploying" => ~anyRewritten(snapshot[p])
<1> SUFFICES ASSUME LockInv, Canonical, [Next]_vars PROVE Canonical'
  BY LockStep DEF CanonicalInv
<1>0. TypeOK
  BY DEF LockInv
<1> USE <1>0 DEF Canonical, TypeOK, Goto, fileVars
<1>1. ASSUME NEW p \in Process, Begin(p) \/ ReadFingerprint(p) \/ AcquireLock(p) \/ WriteFingerprint(p)
      PROVE  Canonical'
  BY <1>1 DEF Begin, ReadFingerprint, AcquireLock, WriteFingerprint, anyRewritten
<1>2. ASSUME NEW p \in Process, Diagnose(p) \/ LockContended(p) \/ EndOperation(p) \/ Crash(p)
      PROVE  Canonical'
  BY <1>2 DEF Diagnose, LockContended, EndOperation, Crash, End, anyRewritten
<1>3. ASSUME NEW p \in Process, ReadRecord(p) PROVE Canonical'
  BY <1>3 DEF ReadRecord, End, anyRewritten
<1>4. ASSUME NEW p \in Process, RecheckUnderLock(p) PROVE Canonical'
  BY <1>4 DEF RecheckUnderLock, proceedUnderLock, End, anyRewritten
<1>5. ASSUME NEW p \in Process, WriteRecord(p) PROVE Canonical'
  <2>1. ~anyRewritten(manifest')
    <3>1. CASE anyRewritten(snapshot[p])
      BY <1>5, <3>1, MigrationLeavesNone DEF WriteRecord
    <3>2. CASE ~anyRewritten(snapshot[p])
      BY <1>5, <3>2 DEF WriteRecord, LockInv, SnapshotCovers, anyRewritten
    <3>3. QED
      BY <3>1, <3>2
  <2>2. QED
    BY <1>5, <2>1 DEF WriteRecord, anyRewritten
<1>6. ASSUME NEW p \in Process, ReleaseLock(p) \/ BeginImplDeployment(p) \/ ImplDeploymentFails(p)
      PROVE  Canonical'
  BY <1>6 DEF ReleaseLock, BeginImplDeployment, ImplDeploymentFails, anyRewritten
<1>7. ASSUME NEW p \in Process, Reconcile(p) PROVE Canonical'
  BY <1>7 DEF Reconcile, End, Open, anyRewritten
<1>8. ASSUME NEW p \in Process, FingerprintWriteFails(p) \/ RecordWriteFails(p) \/ SessionWriteFails(p)
       PROVE  Canonical'
  BY <1>8 DEF FingerprintWriteFails, RecordWriteFails, SessionWriteFails, leavesRecordOrTearsIt,
               End, anyRewritten
<1>9. ASSUME NEW p \in Process, NEW id \in fresh, AddProxyRecord(p, id) PROVE Canonical'
  BY <1>9 DEF AddProxyRecord, deployed, anyRewritten
<1>10. ASSUME NEW p \in Process, NEW id \in fresh, RecordImplDeployment(p, id) PROVE Canonical'
  BY <1>10 DEF RecordImplDeployment, deployed, anyRewritten
<1>11. ASSUME NEW p \in Process, CrashWritingRecord(p) PROVE Canonical'
  BY <1>11 DEF CrashWritingRecord, End, anyRewritten
<1>12. ASSUME Environment PROVE Canonical'
  BY <1>12 DEF Environment, ExpireStaleLock, MineFirstBlock, WipeChain, DeleteRecord,
               DeleteFingerprint, CorruptFingerprint, anyRewritten
<1>13. CASE UNCHANGED vars
  BY <1>13 DEF vars, anyRewritten
<1>14. QED
  BY <1>1, <1>2, <1>3, <1>4, <1>5, <1>6, <1>7, <1>8, <1>9, <1>10, <1>11, <1>12, <1>13
     DEF Next, OpenRecord, UseSession

\* The engine looks a proxy up by the exact string: no open session meets a
\* stored address it would miss, whichever run migrated the record.
THEOREM SessionsMeetCanonicalRecords == Spec => []OpenRecordIsCanonical
<1>1. CanonicalInv => OpenRecordIsCanonical
  BY DEF CanonicalInv, OpenRecordIsCanonical, anyRewritten
<1>2. QED
  BY <1>1, CanonicalInit, CanonicalStep, PTL DEF Spec

-----------------------------------------------------------------------------
(* A session opened as `same` works on this chain *)

\* An openRecord whose comparison, or the session whose report, says that a chain
\* with a block 1 is the one the record was written against.
FoundSame(p) ==
  /\ identity[p].firstBlockHash # Null
  /\ \/ /\ pc[p] \in {"readRecord", "acquire", "recheck", "writeFingerprint", "writeRecord",
                     "release", "reconcile"}
        /\ comparison[p].kind = "same"
     \/ pc[p] \in {"open", "deploying"} /\ outcome[p] = "same"

\* Entries of the chain being served, or those nobody could vouch for.
OfThisChain(entries) == \A e \in entries : e.id \in blessed \/ e.era = era

\* While one of them is under way the record, and what anybody is about to write
\* back into it, is of this chain, whatever becomes of the sidecar.
SameInv ==
  /\ GuardInv
  /\ (\E p \in Process : FoundSame(p)) =>
       /\ OfThisChain(manifest)
       /\ \A q \in Process :
            pc[q] \in {"writeFingerprint", "writeRecord", "deploying"} => OfThisChain(snapshot[q])

\* No openRecord is under way at first.
LEMMA SameInit == Init => SameInv
BY GuardInit DEF Init, SameInv, FoundSame

\* A comparison that says `same` over a block 1 found a sidecar that pins it.
LEMMA SameIsPinned ==
  ASSUME NEW r \in RecordedFingerprint, NEW o \in Identity,
         compareChainInstance(r, o).kind = "same", o.firstBlockHash # Null
  PROVE  Complete(r)
BY DEF compareChainInstance, firstBlockUndecided, changed, indeterminate, same, Complete

\* The comparison made in step 4 found this chain pinned, so the guard vouches for
\* every entry; after that entries are added only on this chain.
LEMMA SameStep ==
  ASSUME ~WipeMidRun
  PROVE  SameInv /\ [Next]_vars => SameInv'
<1> DEFINE AllOfThisChain ==
      /\ OfThisChain(manifest)
      /\ \A q \in Process :
           pc[q] \in {"writeFingerprint", "writeRecord", "deploying"} => OfThisChain(snapshot[q])
<1> SUFFICES ASSUME SameInv, [Next]_vars, NEW s \in Process, FoundSame(s)'
             PROVE  AllOfThisChain'
  BY GuardStep DEF SameInv
<1>0. TypeOK /\ HoldersHold /\ GuardInv
  BY DEF SameInv, GuardInv, LockInv
<1> USE DEF Goto, fileVars, chainVars, ghostVars
<1>1. ASSUME FoundSame(s) PROVE AllOfThisChain
  BY <1>1 DEF SameInv
<1>2. ASSUME NEW p \in Process, Begin(p) PROVE AllOfThisChain'
  BY <1>0, <1>1, <1>2 DEF Begin, TypeOK, FoundSame, OfThisChain
<1>3. ASSUME NEW p \in Process, ReadFingerprint(p) PROVE AllOfThisChain'
  <2>1. CASE FoundSame(s)
    BY <1>0, <1>1, <1>3, <2>1 DEF ReadFingerprint, TypeOK, OfThisChain
  <2>2. CASE ~FoundSame(s)
    <3>1. /\ p = s
          /\ identity[p].firstBlockHash # Null
          /\ sidecar.kind = "record"
          /\ compareChainInstance(sidecar.record, identity[p]).kind = "same"
      BY <1>0, <1>3, <2>2, SidecarHolds
         DEF ReadFingerprint, TypeOK, FoundSame, comparisonWithoutRecord, indeterminate
    <3>2. identity[p] \in Identity /\ sidecar.record \in RecordedFingerprint
      BY <1>0, <3>1, SidecarHolds DEF TypeOK
    <3>3. pinned
      BY <3>1, <3>2, SameIsPinned DEF pinned
    <3>4. canonicalHash[sidecar.record.firstBlockHash] = identity[p].firstBlockHash
      BY <3>1, <3>2, <3>3, CompareComplete DEF pinned
    <3>5. identity[p].firstBlockHash = firstOf[era]
      BY <1>0, <1>3, <3>1 DEF ReadFingerprint, GuardInv, IdentityIsCurrent
    <3>6. ASSUME NEW e \in Entry, onPinnedChain(e) PROVE e.era = era
      BY <1>0, <3>4, <3>5, <3>6, RecordAssumption DEF onPinnedChain, Entry, TypeOK
    <3>7. AllOfThisChain
      BY <1>0, <3>3, <3>6 DEF GuardInv, GuardedRecord, GuardedSnapshot, TypeOK, OfThisChain
    <3>8. QED
      BY <1>0, <1>3, <3>7 DEF ReadFingerprint, TypeOK, OfThisChain
  <2>3. QED
    BY <2>1, <2>2
<1>4. ASSUME NEW p \in Process, Diagnose(p) \/ LockContended(p) \/ EndOperation(p) \/ Crash(p)
      PROVE  AllOfThisChain'
  BY <1>0, <1>1, <1>4
     DEF Diagnose, LockContended, EndOperation, Crash, End, TypeOK, FoundSame, OfThisChain
<1>5. ASSUME NEW p \in Process, ReadRecord(p) PROVE AllOfThisChain'
  <2>1. FoundSame(s)
    BY <1>0, <1>5
       DEF ReadRecord, End, TypeOK, FoundSame, unread
  <2>2. QED
    BY <1>0, <1>1, <1>5, <2>1 DEF ReadRecord, End, TypeOK, OfThisChain
<1>6. ASSUME NEW p \in Process, AcquireLock(p) PROVE AllOfThisChain'
  BY <1>0, <1>1, <1>6 DEF AcquireLock, TypeOK, FoundSame, OfThisChain
<1>7. ASSUME NEW p \in Process, RecheckUnderLock(p) PROVE AllOfThisChain'
  BY <1>0, <1>1, <1>7
     DEF RecheckUnderLock, proceedUnderLock, End, TypeOK, FoundSame, OfThisChain
<1>8. ASSUME NEW p \in Process, WriteFingerprint(p) PROVE AllOfThisChain'
  BY <1>0, <1>1, <1>8 DEF WriteFingerprint, TypeOK, FoundSame, OfThisChain
<1>9. ASSUME NEW p \in Process, WriteRecord(p) PROVE AllOfThisChain'
  <2>1. AllOfThisChain
    BY <1>0, <1>1, <1>9 DEF WriteRecord, TypeOK, FoundSame
  <2>2. OfThisChain(snapshot[p]) => OfThisChain(canonicalizeStoredAddresses(snapshot[p]))
    BY DEF OfThisChain, canonicalizeStoredAddresses, migrated
  <2>3. QED
    BY <1>0, <1>9, <2>1, <2>2 DEF WriteRecord, TypeOK, OfThisChain
<1>10. ASSUME NEW p \in Process, ReleaseLock(p) PROVE AllOfThisChain'
  <2>1. FoundSame(s)
    BY <1>0, <1>10 DEF ReleaseLock, TypeOK, FoundSame
  <2>2. QED
    BY <1>0, <1>1, <1>10, <2>1 DEF ReleaseLock, TypeOK, OfThisChain
<1>11. ASSUME NEW p \in Process, NEW id \in fresh, AddProxyRecord(p, id) PROVE AllOfThisChain'
  BY <1>0, <1>1, <1>11 DEF AddProxyRecord, deployed, TypeOK, FoundSame, OfThisChain
<1>12. ASSUME NEW p \in Process, NEW id \in fresh, RecordImplDeployment(p, id) PROVE AllOfThisChain'
  BY <1>0, <1>1, <1>12 DEF RecordImplDeployment, deployed, TypeOK, FoundSame, OfThisChain
<1>13. ASSUME NEW p \in Process, BeginImplDeployment(p) \/ ImplDeploymentFails(p)
       PROVE  AllOfThisChain'
  BY <1>0, <1>1, <1>13
     DEF BeginImplDeployment, ImplDeploymentFails, TypeOK, FoundSame, OfThisChain
<1>14. ASSUME NEW p \in Process, CrashWritingRecord(p) PROVE AllOfThisChain'
  BY <1>0, <1>1, <1>14 DEF CrashWritingRecord, End, TypeOK, FoundSame, OfThisChain
<1>15. ASSUME WipeChain PROVE AllOfThisChain'
  BY <1>0, <1>15 DEF WipeChain, FoundSame
<1>16. ASSUME ExpireStaleLock \/ MineFirstBlock \/ DeleteFingerprint \/ CorruptFingerprint
       PROVE  AllOfThisChain'
  BY <1>1, <1>16
     DEF ExpireStaleLock, MineFirstBlock, DeleteFingerprint, CorruptFingerprint, FoundSame, OfThisChain
<1>17. ASSUME DeleteRecord PROVE AllOfThisChain'
  BY <1>1, <1>17 DEF DeleteRecord, FoundSame, OfThisChain
<1>18. CASE UNCHANGED vars
  BY <1>1, <1>18 DEF vars, FoundSame, OfThisChain
<1>19. ASSUME NEW p \in Process, Reconcile(p) PROVE AllOfThisChain'
  <2>1. FoundSame(s)
    BY <1>0, <1>19 DEF Reconcile, End, Open, TypeOK, FoundSame, instanceOutcome, unread
  <2>2. QED
    BY <1>0, <1>1, <1>19, <2>1 DEF Reconcile, End, Open, TypeOK, OfThisChain
<1>20. ASSUME NEW p \in Process, FingerprintWriteFails(p) \/ RecordWriteFails(p) \/ SessionWriteFails(p)
       PROVE  AllOfThisChain'
  BY <1>0, <1>1, <1>20
     DEF FingerprintWriteFails, RecordWriteFails, SessionWriteFails, leavesRecordOrTearsIt, End,
         TypeOK, FoundSame, OfThisChain
<1>21. QED
  BY <1>2, <1>3, <1>4, <1>5, <1>6, <1>7, <1>8, <1>9, <1>10, <1>11, <1>12, <1>13, <1>14, <1>15,
     <1>16, <1>17, <1>18, <1>19, <1>20
     DEF Next, OpenRecord, UseSession, Environment

\* What a session opened as `same` may rely on: when no node is wiped under a running
\* operation, the record it works with is of the chain it works on, entries
\* nobody could vouch for aside, also after the user deleted the sidecar.
THEOREM SessionsMeetTheirChain ==
  ASSUME ~WipeMidRun
  PROVE  Spec => []SameIsThisChain
<1>1. SameInv => SameIsThisChain
  BY DEF SameInv, SameIsThisChain, FoundSame, OfThisChain
<1>2. QED
  BY <1>1, SameInit, SameStep, PTL DEF Spec

=============================================================================
