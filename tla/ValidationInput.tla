---------------------------- MODULE ValidationInput ----------------------------
(***************************************************************************)
(* How an operation gets the input of its upgrade-safety validation: it    *)
(* never compiles, it looks for a build record TronBox left that describes *)
(* the very artifact it is about to deploy (validation-input/pipeline.ts). *)
(*                                                                         *)
(* Around it the project moves on: sources are edited, `tronbox compile`   *)
(* adds records that are never pruned and may die half way, files are      *)
(* damaged.  The contract asked for has one name; a source file declares   *)
(* it or not.  A compile is a function from the source keys it covered to  *)
(* their texts, which is also the name of its record: TronBox names it by  *)
(* the hash of the compiler's input.                                       *)
(***************************************************************************)
EXTENDS Naturals, Sequences, FiniteSets

CONSTANTS
  Key,          \* source keys: files of the contracts directory or of a package
  Text,         \* texts of a source file
  textsOf,      \* the texts each file may have
  imports,      \* what each text imports, in order: keys, Refused or Outside
  body,         \* what of a text reaches the bytecode once its metadata is off
  Named,        \* texts that declare the contract asked for
  Abstract,     \* those whose contract has no deployed code
  Namespaced,   \* texts whose structs are storage namespaces
  LongName,     \* texts linking a library with a name of 37 or 38 characters
  Corrupting,   \* texts whose deployed code links a name of 39 or more
  AtCreation,   \* texts linking such a name in their constructor only
  Refused,      \* an absolute or malformed import
  Outside,      \* a relative import that leaves the contracts directory
  Missing, Unreadable,   \* what a file may be instead of having a text
  None,
  hosts,        \* settings and TronBox versions: records of metadata, fields, supported
  firstDisks,   \* what the files may hold at first
  MaxChanges, MaxCalls   \* bounds of an instance

\* A project has so many files; one holds a text of its own, or is missing or unreadable.
ASSUME FilesAssumption ==
  /\ IsFiniteSet(Key)
  /\ textsOf \in [Key -> SUBSET (Text \cup {Missing, Unreadable})]
  /\ firstDisks \subseteq [Key -> Text \cup {Missing, Unreadable}]
  /\ {Missing, Unreadable} \cap Text = {} /\ Missing # Unreadable

\* An import names a source, is refused as it stands, or leads outside.
ASSUME ImportsAssumption ==
  /\ imports \in [Text -> Seq(Key \cup {Refused, Outside})]
  /\ {Refused, Outside} \cap Key = {} /\ Refused # Outside

VARIABLES
  host,         \* the project's settings and its TronBox
  disk,         \* what each source file holds
  dir,          \* the build-info directory
  artifact,     \* the artifact of that name: its source key and its compile
  compile,      \* the `tronbox compile` under way
  cached,       \* the artifact as the migration's resolver first loaded it
  op,           \* the validation under way
  steady,       \* the last compile covered all there is, and nothing changed since
  used          \* changes to the project and calls, counted against the bounds

vars == <<host, disk, dir, artifact, compile, cached, op, steady, used>>

Idle == [phase |-> "idle", pending |-> <<>>, sources |-> <<>>, outcome |-> None,
         settled |-> FALSE]

\* Keys reached from k by the imports of the texts t maps its keys to.
ClosureOf(t, k) ==
  {j \in DOMAIN t :
     \A S \in SUBSET DOMAIN t :
       k \in S /\ (\A i \in S : {s \in DOMAIN t : \E n \in 1..Len(imports[t[i]]) :
                                     imports[t[i]][n] = s} \subseteq S)
         => j \in S}

\* The files that hold a text.
Existing == {k \in Key : disk[k] \in Text}

\* A set of files solc can compile together.
Compilable(S) ==
  \A k \in S : disk[k] \in Text /\ \A n \in 1..Len(imports[disk[k]]) : imports[disk[k]][n] \in S

\* The deployed bytecode of the contract that key k declares in compile c. Its
\* metadata tail covers the sources, unless bytecodeHash is "none".
Code(c, k) ==
  [j \in ClosureOf(c, k) |-> IF host.metadata THEN c[j] ELSE body[c[j]]]

LinksOneOf(S, c, k) == \E j \in ClosureOf(c, k) : c[j] \in S
-----------------------------------------------------------------------------
(* The build-info directory *)

\* The whole listing, or the one reason there is none: a single output file that
\* does not parse makes the directory unreadable.
readBuildInfo ==
  IF dir.status # "listed" THEN dir.status
  ELSE IF \E c \in DOMAIN dir.files : dir.files[c].output = "garbled" THEN "unreadable"
  ELSE "files"

\* Every output file was read and contributed to the index of names.
indexed ==
  /\ readBuildInfo = "files"
  /\ DOMAIN dir.files # {}
  /\ \A c \in DOMAIN dir.files : dir.files[c].output # "mapless"

\* The sources that declare the name in some record.
candidateSources ==
  {k \in Key : \E c \in DOMAIN dir.files : k \in DOMAIN c /\ c[k] \in Named}

\* Mutant: every record that declares the name counts, whatever its source.
ambiguousRecords ==
  indexed /\ Cardinality({p \in Key \X DOMAIN dir.files :
                            p[1] \in DOMAIN p[2] /\ p[2][p[1]] \in Named}) > 1

\* Candidates of one source are one contract seen in several records; distinct
\* sources are a collision. Without an index nothing is checked.
ambiguous == indexed /\ Cardinality(candidateSources) > 1
-----------------------------------------------------------------------------
(* The gate: locate a record for the target, then verify its content *)

located(c) ==
  /\ dir.files[c].output # "mapless"
  /\ cached.key \in DOMAIN c
  /\ c[cached.key] \in Named

\* Mutant: a record is taken by name, without comparing bytecode.
anyRecord(c) == c[cached.key] \notin Abstract

\* The record's deployed bytecode is the artifact's; two absences prove nothing. A
\* name past the band lengthens the artifact's code, which then matches nothing.
verifyBuildRecordFreshness(c) ==
  /\ c[cached.key] \notin Abstract
  /\ cached.built[cached.key] \notin Abstract
  /\ ~LinksOneOf(Corrupting, cached.built, cached.key)
  /\ Code(c, cached.key) = Code(cached.built, cached.key)

\* The sources the record has an AST of.
astSources(c) == IF dir.files[c].output = "astless" THEN {} ELSE DOMAIN c

projectBuildRecord(c, closure) == closure \subseteq astSources(c)

\* Its AST of the target declares the contract.
declaresTarget(c) == dir.files[c].output # "undeclared"

\* The compiler input lies beside it, parses, and covers the closure.
inputPairUsable(c) == dir.files[c].pair = "sound"

usable(c, closure) ==
  /\ located(c)
  /\ verifyBuildRecordFreshness(c)
  /\ projectBuildRecord(c, closure)
  /\ declaresTarget(c)
  /\ inputPairUsable(c)

\* Mutant: the sources handed on are those of the contracts directory.
inputFromDisk(c) == op.sources

\* The texts handed on with the output: the recorded compiler input, verbatim.
narrowRecordedInput(c) == c

\* The target or a base of it declares a namespace: imports here are of bases.
declaresNamespacedStorage(c, closure) == \E k \in closure : c[k] \in Namespaced

\* What the validation states about the comparison it can make.
stateNamespaceShortfall(c, closure) ==
  {"storage-layout-unavailable"} \cup
  IF declaresNamespacedStorage(c, closure) THEN {"namespaced-ast-only"} ELSE {}

libraryNameBand(c) == LinksOneOf(LongName \cup Corrupting \cup AtCreation, c, cached.key)

Causes ==
  {"artifact-unresolved", "artifact-name-ambiguous", "artifact-shape-unsupported",
   "compiler-unsupported", "source-unreadable", "import-unresolvable",
   "build-record-absent", "build-record-stale", "library-name-unsupported"}

policy == [c \in Causes |-> "refuse"]

Thrown == [kind |-> "threw"]

\* There is never an input to proceed with when a cause is found.
dispose(cause) ==
  IF policy[cause] = "refuse" THEN [kind |-> "refused", cause |-> cause] ELSE Thrown

Proceed(c, closure) ==
  [kind |-> "input",
   record |-> c,
   asts |-> [k \in closure \cap astSources(c) |-> c[k]],
   texts |-> narrowRecordedInput(c),
   notes |-> stateNamespaceShortfall(c, closure)]

\* What is asserted of every input on the way out.
assertInput(i, closure) ==
  /\ DOMAIN i.texts # {}
  /\ cached.key \in closure
  /\ closure \subseteq DOMAIN i.texts
  /\ \E k \in DOMAIN i.asts : i.asts[k] \in Named

freshArm(c, closure) ==
  IF libraryNameBand(c) THEN dispose("library-name-unsupported")
  ELSE IF assertInput(Proceed(c, closure), closure) THEN Proceed(c, closure)
  ELSE Thrown
-----------------------------------------------------------------------------
(* One validation *)

Done(outcome) == op' = [op EXCEPT !.phase = "done", !.outcome = outcome]

\* The resolver loads an artifact once per migration and keeps it.
load == IF cached = None THEN artifact ELSE cached

\* A TronBox older than the artifact's fields; a compiler outside the range.
incomplete == ~host.fields
outOfRange == ~host.supported

\* deriveValidationInput up to its first read of a source: the name, the artifact's
\* fields, the compiler's version.
Resolve ==
  /\ op.phase \in {"idle", "done"}
  /\ used.calls < MaxCalls
  /\ used' = [used EXCEPT !.calls = @ + 1]
  /\ cached' = load
  /\ LET refuse(cause) == op' = [Idle EXCEPT !.phase = "done", !.outcome = dispose(cause),
                                             !.settled = steady /\ cached = None]
     IN CASE load = None -> refuse("artifact-unresolved")
          [] load # None /\ ambiguous -> refuse("artifact-name-ambiguous")
          [] load # None /\ ~ambiguous /\ incomplete -> refuse("artifact-shape-unsupported")
          [] load # None /\ ~ambiguous /\ ~incomplete /\ outOfRange ->
               refuse("compiler-unsupported")
          [] OTHER ->
               op' = [Idle EXCEPT !.phase = "walking",
                                  !.pending = <<[spec |-> load.key, imported |-> FALSE]>>,
                                  !.settled = steady /\ cached = None]
  /\ UNCHANGED <<host, disk, dir, artifact, compile, steady>>

next == Head(op.pending)

\* A relative import from a file may leave the contracts directory, where no key is;
\* an absolute or malformed one is refused with the text that holds it.
hasNoKey(spec) == spec = Outside
refusedImport(t) == \E n \in 1..Len(imports[t]) : imports[t][n] = Refused

\* What stops the walk at the source at the head of the queue, read as it is now.
unwalkable ==
  IF hasNoKey(next.spec) THEN "import-unresolvable"
  ELSE CASE disk[next.spec] = Missing ->
              IF next.imported THEN "import-unresolvable" ELSE "source-unreadable"
         [] disk[next.spec] = Unreadable -> "source-unreadable"
         [] disk[next.spec] \in Text ->
              IF refusedImport(disk[next.spec]) THEN "import-unresolvable" ELSE None

importsOfNext ==
  [n \in 1..Len(imports[disk[next.spec]]) |->
     [spec |-> imports[disk[next.spec]][n], imported |-> TRUE]]

\* resolveSourceGraph: one source after the other, from the target, breadth first.
Walk ==
  /\ op.phase = "walking"
  /\ op.pending # <<>>
  /\ IF next.spec \in DOMAIN op.sources
     THEN op' = [op EXCEPT !.pending = Tail(@)]
     ELSE IF unwalkable # None
     THEN Done(dispose(unwalkable))
     ELSE op' = [op EXCEPT
            !.sources = [k \in DOMAIN @ \cup {next.spec} |->
                           IF k = next.spec THEN disk[k] ELSE @[k]],
            !.pending = Tail(@) \o importsOfNext]
  /\ UNCHANGED <<host, disk, dir, artifact, compile, cached, steady, used>>

cutPartition == DOMAIN op.sources

\* cutPartition, consultBuildRecord and the arm it leads to. Records are taken in
\* the order of their names, which says nothing: any usable one may come first.
Consult ==
  /\ op.phase = "walking"
  /\ op.pending = <<>>
  /\ LET closure == cutPartition
     IN IF cached.key \notin closure THEN Done(Thrown)
        ELSE IF readBuildInfo # "files" THEN Done(dispose("build-record-absent"))
        ELSE IF \E c \in DOMAIN dir.files : usable(c, closure)
        THEN \E c \in DOMAIN dir.files : usable(c, closure) /\ Done(freshArm(c, closure))
        ELSE Done(dispose(IF \E c \in DOMAIN dir.files : located(c)
                          THEN "build-record-stale" ELSE "build-record-absent"))
  /\ UNCHANGED <<host, disk, dir, artifact, compile, cached, steady, used>>

\* The migration ends or its process dies; the next one loads its artifacts anew.
NewRun ==
  /\ cached # None
  /\ cached' = None
  /\ op' = Idle
  /\ UNCHANGED <<host, disk, dir, artifact, compile, steady, used>>
-----------------------------------------------------------------------------
(* The project: edits, compiles in another process, damage *)

Disturb == steady' = FALSE /\ op' = [op EXCEPT !.settled = FALSE]

Edit(k) ==
  /\ used.changes < MaxChanges
  /\ \E t \in textsOf[k] \ {disk[k]} : disk' = [disk EXCEPT ![k] = t]
  /\ used' = [used EXCEPT !.changes = @ + 1]
  /\ Disturb
  /\ UNCHANGED <<host, dir, artifact, compile, cached>>

\* `tronbox compile` of the sources that changed, or with --all.
StartCompile(S) ==
  /\ compile = None
  /\ used.changes < MaxChanges
  /\ S # {} /\ Compilable(S)
  /\ compile' = [texts |-> [k \in S |-> disk[k]],
                 left |-> {"open", "output", "pair", "artifact"}]
  /\ used' = [used EXCEPT !.changes = @ + 1]
  /\ Disturb
  /\ UNCHANGED <<host, disk, dir, artifact, cached>>

Wrote(step) == compile' = [compile EXCEPT !.left = @ \ {step}]

\* A record's output is on disk before it is complete.
WriteRecord(step) ==
  /\ compile # None /\ step \in compile.left
  /\ step = "output" => "open" \notin compile.left
  /\ dir.status # "unreadable"
  /\ LET c == compile.texts
         was == IF c \in DOMAIN dir.files THEN dir.files[c]
                ELSE [output |-> "garbled", pair |-> "none"]
         is == CASE step = "open" -> [was EXCEPT !.output = "garbled"]
                 [] step = "output" -> [was EXCEPT !.output = "sound"]
                 [] step = "pair" -> [was EXCEPT !.pair = "sound"]
     IN dir' = [status |-> "listed",
                files |-> [f \in DOMAIN dir.files \cup {c} |->
                             IF f = c THEN is ELSE dir.files[f]]]
  /\ Wrote(step)
  /\ Disturb
  /\ UNCHANGED <<host, disk, artifact, cached, used>>

\* The artifact of a name is whichever of its sources was written last.
WriteArtifact ==
  /\ compile # None /\ "artifact" \in compile.left
  /\ LET c == compile.texts
         declaring == {k \in DOMAIN c : c[k] \in Named}
     IN IF declaring = {} THEN artifact' = artifact
        ELSE \E k \in declaring : artifact' = [key |-> k, built |-> c]
  /\ Wrote("artifact")
  /\ Disturb
  /\ UNCHANGED <<host, disk, dir, cached, used>>

\* The compile ends, or dies with the rest unwritten.
EndCompile ==
  /\ compile # None
  /\ compile' = None
  /\ steady' = /\ compile.left = {}
               /\ compile.texts = [k \in Existing |-> disk[k]]
               /\ dir.status = "listed"
               /\ dir.files[compile.texts] = [output |-> "sound", pair |-> "sound"]
  /\ UNCHANGED <<host, disk, dir, artifact, cached, op, used>>

\* What may become of a record that lies there.
Damages(r) ==
  {[r EXCEPT !.output = d] : d \in {"garbled", "mapless", "astless", "undeclared"}}
  \cup {[r EXCEPT !.pair = d] : d \in {"none", "garbled", "mismatched"}}

Damage ==
  /\ used.changes < MaxChanges
  /\ dir.status = "listed"
  /\ \/ dir' = [status |-> "absent", files |-> <<>>]
     \/ dir' = [dir EXCEPT !.status = "unreadable"]
     \/ \E c \in DOMAIN dir.files : \E r \in Damages(dir.files[c]) \ {dir.files[c]} :
          dir' = [dir EXCEPT !.files[c] = r]
  /\ used' = [used EXCEPT !.changes = @ + 1]
  /\ Disturb
  /\ UNCHANGED <<host, disk, artifact, compile, cached>>
-----------------------------------------------------------------------------
\* The project was compiled once, or its artifacts were built elsewhere and the
\* build-info directory never was, as under `tronbox test`.
Init ==
  /\ host \in hosts
  /\ disk \in firstDisks
  /\ LET c == [k \in Existing |-> disk[k]]
     IN /\ Compilable(Existing)
        /\ dir \in {[status |-> "absent", files |-> <<>>],
                    [status |-> "listed",
                     files |-> [f \in {c} |-> [output |-> "sound", pair |-> "sound"]]]}
        /\ \/ \E k \in Existing : disk[k] \in Named /\ artifact = [key |-> k, built |-> c]
           \/ artifact = None /\ \A k \in Existing : disk[k] \notin Named
  /\ compile = None
  /\ cached = None
  /\ op = Idle
  /\ steady = (dir.status = "listed")
  /\ used = [changes |-> 0, calls |-> 0]

Next ==
  \/ Resolve \/ Walk \/ Consult \/ NewRun
  \/ \E k \in Key : Edit(k)
  \/ \E S \in SUBSET Existing : StartCompile(S)
  \/ \E step \in {"open", "output", "pair"} : WriteRecord(step)
  \/ WriteArtifact \/ EndCompile \/ Damage

Spec == Init /\ [][Next]_vars
-----------------------------------------------------------------------------
(* Properties *)

Compiles == UNION {[S -> Text] : S \in SUBSET Key}

\* What a validation may end in.
Judgements ==
  [kind : {"refused"}, cause : Causes]
  \cup [kind : {"input"}, record : Compiles, asts : Compiles, texts : Compiles,
        notes : SUBSET {"storage-layout-unavailable", "namespaced-ast-only"}]

ASSUME NoneAssumption == None \notin Causes /\ None \notin Judgements

Outcomes == {None} \cup Judgements

\* Type correctness of the validation and of what it reads; its outcome is an input or
\* a refusal, so that no assertion of the pipeline ever fires (pipeline.ts:345).
TypeOK ==
  /\ disk \in [Key -> Text \cup {Missing, Unreadable}]
  /\ dir.status \in {"listed", "absent", "unreadable"}
  /\ DOMAIN dir.files \subseteq Compiles
  /\ artifact \in {None} \cup [key : Key, built : Compiles]
  /\ cached \in {None} \cup [key : Key, built : Compiles]
  /\ op.phase \in {"idle", "walking", "done"}
  /\ op.sources \in Compiles
  /\ op.outcome \in Outcomes
  /\ (op.outcome = None) = (op.phase # "done")

HasInput == op.phase = "done" /\ op.outcome.kind = "input"

\* What is validated is the program that is deployed: the record an input comes from
\* holds, for the artifact this migration loaded, the same compiled code - and with
\* the metadata hash on, the very same sources - whatever was edited, compiled,
\* interrupted or damaged since it was loaded (identity.ts:145).
ValidatesWhatDeploys ==
  HasInput =>
    LET k == cached.key
        compiled == ClosureOf(cached.built, k)
    IN /\ ClosureOf(op.outcome.record, k) = compiled
       /\ \A j \in compiled :
            /\ body[op.outcome.record[j]] = body[cached.built[j]]
            /\ host.metadata => op.outcome.record[j] = cached.built[j]

\* The sources as they were read hold the texts the artifact was compiled from.
Undrifted == \A k \in DOMAIN op.sources :
  k \in DOMAIN cached.built /\ op.sources[k] = cached.built[k]

\* The engine decodes the output's spans against the sources of the same compile,
\* though the contracts directory may have moved on (pipeline.ts:100, "the wrong-span
\* hazard"): each AST has its own text beside it.  And a layout is never reconstructed
\* from part of a contract: as long as the sources read are those compiled, there is an
\* AST of the target and of all it inherits from or uses, and the namespaces among them
\* are stated.
OutputIsSelfContained ==
  HasInput =>
    LET out == op.outcome
        compiled == ClosureOf(cached.built, cached.key)
    IN /\ \A k \in DOMAIN out.asts : k \in DOMAIN out.texts /\ out.asts[k] = out.texts[k]
       /\ Undrifted =>
            /\ compiled = DOMAIN out.asts
            /\ ("namespaced-ast-only" \in out.notes)
                 <=> \E k \in compiled : out.record[k] \in Namespaced

\* The contract was not deleted or renamed: an artifact outlives its source.
StillDeclared == \E k \in Existing : disk[k] \in Named

\* The records of the artifact's compiled code. With the metadata hash on they were
\* compiled from its sources; without it, what only a constructor links may differ.
Twins == {c \in DOMAIN dir.files : Code(c, cached.key) = Code(cached.built, cached.key)}

\* What a validation owes a project that was just compiled as a whole, where every
\* record can be read and no two sources of any record share the name, if twin c is
\* the record it comes to. A name of 39 characters in deployed code never gets as far
\* as its own cause: the artifact's code matches no record first.
Due(c) ==
  IF ~host.fields THEN "artifact-shape-unsupported"
  ELSE IF ~host.supported THEN "compiler-unsupported"
  ELSE IF \/ cached.built[cached.key] \in Abstract
          \/ LinksOneOf(Corrupting, cached.built, cached.key)
  THEN "build-record-stale"
  ELSE IF LinksOneOf(LongName \cup Corrupting \cup AtCreation, c, cached.key)
  THEN "library-name-unsupported"
  ELSE "input"

verdict == IF op.outcome.kind = "input" THEN "input" ELSE op.outcome.cause

\* Right after a complete `tronbox compile --all` every concrete contract with usable
\* library names gets its input, on the first record that verifies, and everything
\* else the refusal that names its own trouble - however many records of earlier
\* compiles, half-written pairs or other sources lie beside it. With the metadata hash
\* off, the library names judged are those of a record with the same deployed code.
SettledProjectsAreJudgedExactly ==
  /\ TypeOK
  /\ op.phase = "done" /\ op.settled /\ cached # None /\ indexed /\ StillDeclared =>
       IF Cardinality({k \in Existing : disk[k] \in Named}) > 1
       THEN op.outcome = dispose("artifact-name-ambiguous")
       ELSE candidateSources = {cached.key} => \E c \in Twins : verdict = Due(c)

================================================================================
