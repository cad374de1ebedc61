------------------------ MODULE ValidationInputProofs ------------------------
(***************************************************************************)
(* Proofs about the validation input.  What a validation is given comes    *)
(* from a record whose compiled code is that of the artifact, and the      *)
(* sources it was walked to are the whole of what the contract is compiled *)
(* from: every source read was reached from the target's, and every import *)
(* of a source read is read or waits to be.                                *)
(***************************************************************************)
EXTENDS ValidationInput, SequenceTheorems, FiniteSetTheorems, TLAPS

\* What the walk may be sent to: a key, or outside the contracts directory.
Want == [spec : Key \cup {Outside}, imported : BOOLEAN]

Artifact == [key : Key, built : Compiles]

OpShape ==
  [phase : {"idle", "walking", "done"}, pending : Seq(Want), sources : Compiles,
   outcome : Outcomes, settled : BOOLEAN]

\* The types, and the shapes that EXCEPT needs.
TypeInv ==
  /\ disk \in [Key -> Text \cup {Missing, Unreadable}]
  /\ dir = [status |-> dir.status, files |-> dir.files]
  /\ dir.status \in {"listed", "absent", "unreadable"} /\ DOMAIN dir.files \subseteq Compiles
  /\ artifact \in {None} \cup Artifact
  /\ cached \in {None} \cup Artifact
  /\ compile # None => compile = [texts |-> compile.texts, left |-> compile.left] /\ compile.texts \in Compiles
  /\ op \in OpShape
  /\ (op.outcome = None) = (op.phase # "done")
  /\ steady \in BOOLEAN

\* A validation is under way, or ended with an input.
Busy == op.phase = "walking" \/ HasInput

\* The walk starts at the artifact's source, and an input is only given from there.
FromTarget ==
  Busy => /\ cached # None
          /\ \/ cached.key \in DOMAIN op.sources
             \/ op.pending # << >> /\ op.pending[1].spec = cached.key

\* An input is given once the walk is over.
WalkOver == HasInput => op.pending = << >>

\* Only what the target leads to is walked.
Reached ==
  Busy => \A S \in SUBSET (Key \cup {Outside}) :
            /\ cached.key \in S
            /\ \A i \in S \cap DOMAIN op.sources :
                 \A n \in 1..Len(imports[op.sources[i]]) : imports[op.sources[i]][n] \in S
            => /\ DOMAIN op.sources \subseteq S
               /\ \A m \in 1..Len(op.pending) : op.pending[m].spec \in S

\* All of what it leads to is walked, or waits to be.
Covered ==
  Busy => \A i \in DOMAIN op.sources : \A n \in 1..Len(imports[op.sources[i]]) :
            \/ imports[op.sources[i]][n] \in DOMAIN op.sources
            \/ \E m \in 1..Len(op.pending) : op.pending[m].spec = imports[op.sources[i]][n]

\* An input comes from a record of the artifact's code, cut to the sources walked.
InputOfRecord ==
  HasInput =>
    LET out == op.outcome
        c == out.record
        closure == DOMAIN op.sources
    IN /\ Code(c, cached.key) = Code(cached.built, cached.key)
       /\ closure \subseteq DOMAIN c
       /\ out.asts = [k \in closure |-> c[k]] /\ out.texts = c
       /\ out.notes = stateNamespaceShortfall(c, closure)

ValidationInv == TypeInv /\ FromTarget /\ WalkOver /\ Reached /\ Covered /\ InputOfRecord

\* All the project's sources, as they lie there.
Whole == [k \in Existing |-> disk[k]]

Sound == [output |-> "sound", pair |-> "sound"]

\* The sources of a compile that declare the contract.
Declares(c) == {k \in DOMAIN c : c[k] \in Named}

\* The artifact is what compile c wrote.
BuiltBy(c) == artifact.built = c /\ artifact.key \in Declares(c)

\* What a compile under way has not written yet is ahead of it, and nothing is settled.
CompileInv ==
  compile # None =>
    /\ ~steady
    /\ \A k \in DOMAIN compile.texts : \A n \in 1..Len(imports[compile.texts[k]]) :
         imports[compile.texts[k]][n] \in DOMAIN compile.texts
    /\ "open" \notin compile.left /\ dir.status = "listed" => compile.texts \in DOMAIN dir.files
    /\ "artifact" \notin compile.left /\ Declares(compile.texts) # {} => BuiltBy(compile.texts)

\* A settled project has a sound record of all its sources, and the artifact is of it.
SteadyInv ==
  steady =>
    /\ compile = None
    /\ dir.status = "listed" /\ Whole \in DOMAIN dir.files /\ dir.files[Whole] = Sound
    /\ Compilable(Existing)
    /\ StillDeclared => BuiltBy(Whole)

\* What SettledProjectsAreJudgedExactly says of a judgement.
Exact ==
  cached # None /\ indexed /\ StillDeclared =>
    IF Cardinality({k \in Existing : disk[k] \in Named}) > 1
    THEN op.outcome = dispose("artifact-name-ambiguous")
    ELSE candidateSources = {cached.key} => \E c \in Twins : verdict = Due(c)

\* Past the diagnoses that need no source, walking what exists.
WalksWhole ==
  /\ ~ambiguous /\ host.fields /\ host.supported
  /\ StillDeclared =>
       /\ \A i \in DOMAIN op.sources : i \in Existing /\ op.sources[i] = disk[i]
       /\ \A m \in 1..Len(op.pending) : op.pending[m].spec \in Existing

\* A validation that began in a settled project is still in one, with its artifact.
SettledInv ==
  op.settled =>
    /\ steady /\ cached = artifact
    /\ op.phase = "walking" => WalksWhole
    /\ op.phase = "done" => Exact

ProjectInv == CompileInv /\ SteadyInv /\ SettledInv

\* With the metadata hash on, what a settled project is due is the artifact's own.
JudgedByItsOwn ==
  /\ op.phase = "done" /\ op.settled /\ cached # None /\ indexed /\ StillDeclared
  /\ host.metadata /\ candidateSources = {cached.key}
  => verdict = Due(cached.built)

-----------------------------------------------------------------------------
(* Lemmas about the operators *)

\* A function from source keys to texts is what a compile may be.
LEMMA IsCompile ==
  ASSUME NEW S \in SUBSET Key, NEW f \in [S -> Text]
  PROVE  f \in Compiles
BY DEF Compiles

\* And a compile is such a function.
LEMMA CompileFacts ==
  ASSUME NEW c \in Compiles
  PROVE  DOMAIN c \in SUBSET Key /\ c \in [DOMAIN c -> Text]
BY DEF Compiles

\* Nothing was read yet.
LEMMA NothingRead == << >> \in Compiles /\ DOMAIN << >> = {}
<1>1. << >> = [k \in {} |-> k]
  OBVIOUS
<1>2. [k \in {} |-> k] \in [{} -> Text]
  OBVIOUS
<1>3. {} \in SUBSET Key
  OBVIOUS
<1> QED
  BY <1>1, <1>2, <1>3, IsCompile

\* What waits behind the first of a sequence.
LEMMA Shorter ==
  ASSUME NEW T, NEW s \in Seq(T), s # << >>
  PROVE  /\ Len(s) \in Nat /\ Len(s) >= 1 /\ 1 \in 1..Len(s) /\ s[1] = Head(s) /\ s[1] \in T
         /\ Tail(s) \in Seq(T)
         /\ \A m \in 1..Len(Tail(s)) : m + 1 \in 1..Len(s) /\ Tail(s)[m] = s[m + 1]
         /\ \A m \in 1..Len(s) : m # 1 => m - 1 \in 1..Len(Tail(s)) /\ Tail(s)[m - 1] = s[m]
<1>1. Len(s) \in Nat /\ Len(s) >= 1 /\ Head(s) = s[1]
  OBVIOUS
<1>2. /\ Tail(s) \in Seq(T) /\ Len(Tail(s)) = Len(s) - 1
      /\ \A m \in 1..Len(Tail(s)) : Tail(s)[m] = s[m + 1]
  BY HeadTailProperties
<1>3. 1 \in 1..Len(s) /\ s[1] \in T
  BY <1>1, ElementOfSeq
<1>4. \A m \in 1..Len(Tail(s)) : m + 1 \in 1..Len(s)
  BY <1>1, <1>2
<1>5. ASSUME NEW m \in 1..Len(s), m # 1 PROVE m - 1 \in 1..Len(Tail(s)) /\ Tail(s)[m - 1] = s[m]
  <2>1. m - 1 \in 1..Len(Tail(s)) /\ (m - 1) + 1 = m
    BY <1>1, <1>2, <1>5
  <2> QED
    BY <1>2, <2>1
<1> QED
  BY <1>1, <1>2, <1>3, <1>4, <1>5

\* One sequence behind another.
LEMMA Appended ==
  ASSUME NEW T, NEW s \in Seq(T), NEW t \in Seq(T)
  PROVE  /\ s \o t \in Seq(T)
         /\ \A m \in 1..Len(s) : m \in 1..Len(s \o t) /\ (s \o t)[m] = s[m]
         /\ \A n \in 1..Len(t) : Len(s) + n \in 1..Len(s \o t) /\ (s \o t)[Len(s) + n] = t[n]
         /\ \A m \in 1..Len(s \o t) : \/ \E n \in 1..Len(s) : (s \o t)[m] = s[n]
                                     \/ \E n \in 1..Len(t) : (s \o t)[m] = t[n]
<1>1. /\ Len(s) \in Nat /\ Len(t) \in Nat /\ s \o t \in Seq(T) /\ Len(s \o t) = Len(s) + Len(t)
      /\ \A m \in 1..Len(s) + Len(t) : (s \o t)[m] = IF m <= Len(s) THEN s[m] ELSE t[m - Len(s)]
  BY ConcatProperties
<1>2. ASSUME NEW m \in 1..Len(s) PROVE m \in 1..Len(s \o t) /\ (s \o t)[m] = s[m]
  BY <1>1
<1>3. ASSUME NEW n \in 1..Len(t)
      PROVE  Len(s) + n \in 1..Len(s \o t) /\ (s \o t)[Len(s) + n] = t[n]
  <2>1. /\ Len(s) + n \in 1..Len(s) + Len(t) /\ ~(Len(s) + n <= Len(s))
        /\ (Len(s) + n) - Len(s) = n
    BY <1>1
  <2> QED
    BY <1>1, <2>1
<1>4. ASSUME NEW m \in 1..Len(s \o t)
      PROVE  \/ \E n \in 1..Len(s) : (s \o t)[m] = s[n]
             \/ \E n \in 1..Len(t) : (s \o t)[m] = t[n]
  <2>1. CASE m <= Len(s)
    BY <1>1, <2>1
  <2>2. CASE ~(m <= Len(s))
    <3>1. m - Len(s) \in 1..Len(t) /\ (s \o t)[m] = t[m - Len(s)]
      BY <1>1, <2>2
    <3> QED
      BY <3>1
  <2> QED
    BY <2>1, <2>2
<1> QED
  BY <1>1, <1>2, <1>3, <1>4

\* Whatever is refused is refused with its cause; nothing throws.
LEMMA Disposal ==
  ASSUME NEW cause \in Causes
  PROVE  /\ dispose(cause) \in Judgements /\ dispose(cause) # None
         /\ dispose(cause).kind = "refused" /\ dispose(cause).cause = cause
<1>1. dispose(cause) = [kind |-> "refused", cause |-> cause]
  BY DEF dispose, policy
<1> QED
  BY <1>1, NoneAssumption DEF Judgements

\* The compiled code of two compiles is the same where they compile the contract from
\* the same sources, to the same code - with the metadata hash on, from the same texts.
LEMMA SameCode ==
  ASSUME NEW c, NEW d, NEW k, Code(c, k) = Code(d, k)
  PROVE  /\ ClosureOf(c, k) = ClosureOf(d, k)
         /\ \A j \in ClosureOf(d, k) : body[c[j]] = body[d[j]] /\ (host.metadata => c[j] = d[j])
<1>1. DOMAIN Code(c, k) = ClosureOf(c, k) /\ DOMAIN Code(d, k) = ClosureOf(d, k)
  BY DEF Code
<1>2. ClosureOf(c, k) = ClosureOf(d, k)
  BY <1>1
<1>3. \A j \in ClosureOf(d, k) : Code(c, k)[j] = Code(d, k)[j]
  OBVIOUS
<1>4. \A j \in ClosureOf(d, k) : /\ Code(c, k)[j] = IF host.metadata THEN c[j] ELSE body[c[j]]
                                 /\ Code(d, k)[j] = IF host.metadata THEN d[j] ELSE body[d[j]]
  BY <1>2 DEF Code
<1> QED
  BY <1>2, <1>3, <1>4

\* What stops the walk at a source is a cause; nothing does where its text is read and
\* leads to keys, or outside.
LEMMA Walkable ==
  ASSUME TypeInv, next.spec \in Key \cup {Outside}
  PROVE  /\ unwalkable \in Causes \cup {None}
         /\ unwalkable = None =>
              /\ next.spec \in Key /\ disk[next.spec] \in Text
              /\ imports[disk[next.spec]] \in Seq(Key \cup {Outside})
<1>1. CASE next.spec = Outside
  <2>1. unwalkable = "import-unresolvable"
    BY <1>1 DEF unwalkable, hasNoKey
  <2> QED
    BY <2>1, NoneAssumption DEF Causes
<1>2. CASE next.spec \in Key
  <2>1. disk[next.spec] \in Text \cup {Missing, Unreadable} /\ ~hasNoKey(next.spec)
    BY <1>2, ImportsAssumption DEF TypeInv, hasNoKey
  <2>2. CASE disk[next.spec] = Missing
    <3>1. unwalkable \in {"import-unresolvable", "source-unreadable"}
      BY <2>1, <2>2, FilesAssumption DEF unwalkable
    <3> QED
      BY <3>1, NoneAssumption DEF Causes
  <2>3. CASE disk[next.spec] = Unreadable
    <3>1. unwalkable = "source-unreadable"
      BY <2>1, <2>3, FilesAssumption DEF unwalkable
    <3> QED
      BY <3>1, NoneAssumption DEF Causes
  <2>4. CASE disk[next.spec] \in Text
    <3> DEFINE t == disk[next.spec]
    <3>1. unwalkable = IF refusedImport(t) THEN "import-unresolvable" ELSE None
      BY <2>1, <2>4, FilesAssumption DEF unwalkable
    <3>2. imports[t] \in Seq(Key \cup {Refused, Outside})
      BY <2>4, ImportsAssumption
    <3>3. CASE refusedImport(t)
      <4>1. unwalkable = "import-unresolvable"
        BY <3>1, <3>3
      <4> QED
        BY <4>1, NoneAssumption DEF Causes
    <3>4. CASE ~refusedImport(t)
      <4>1. \A n \in 1..Len(imports[t]) : imports[t][n] \in Key \cup {Outside}
        BY <3>2, <3>4, ElementOfSeq DEF refusedImport
      <4>2. imports[t] \in Seq(Key \cup {Outside})
        BY <3>2, <4>1
      <4> QED
        BY <1>2, <2>4, <3>1, <3>4, <4>2
    <3> QED
      BY <3>3, <3>4
  <2> QED
    BY <2>1, <2>2, <2>3, <2>4
<1> QED
  BY <1>1, <1>2

-----------------------------------------------------------------------------
(* The invariant is kept by what leaves the validation alone *)

\* What another process does to the project is no concern of what was read.
LEMMA OpKept ==
  ASSUME ValidationInv, cached' = cached, host' = host,
         op'.phase = op.phase, op'.pending = op.pending, op'.sources = op.sources,
         op'.outcome = op.outcome
  PROVE  FromTarget' /\ WalkOver' /\ Reached' /\ Covered' /\ InputOfRecord'
<1>1. HasInput' = HasInput /\ Busy' = Busy
  BY DEF HasInput, Busy
<1>2. \A c, k : Code(c, k)' = Code(c, k)
  BY DEF Code, ClosureOf
<1>3. FromTarget' /\ WalkOver'
  BY <1>1 DEF ValidationInv, FromTarget, WalkOver
<1>4. Reached'
  BY <1>1 DEF ValidationInv, Reached
<1>5. Covered'
  BY <1>1 DEF ValidationInv, Covered
<1>6. InputOfRecord'
  BY <1>1, <1>2 DEF ValidationInv, InputOfRecord, stateNamespaceShortfall, declaresNamespacedStorage
<1> QED
  BY <1>3, <1>4, <1>5, <1>6

\* Nor is it when it disturbs the validation.
LEMMA Disturbed ==
  ASSUME ValidationInv, Disturb, cached' = cached, host' = host
  PROVE  /\ FromTarget' /\ WalkOver' /\ Reached' /\ Covered' /\ InputOfRecord'
         /\ op' \in OpShape /\ (op'.outcome = None) = (op'.phase # "done") /\ steady' \in BOOLEAN
<1>1. op \in OpShape /\ (op.outcome = None) = (op.phase # "done")
  BY DEF ValidationInv, TypeInv
<1>2. /\ op'.phase = op.phase /\ op'.pending = op.pending /\ op'.sources = op.sources
      /\ op'.outcome = op.outcome /\ op' \in OpShape
  BY <1>1 DEF Disturb, OpShape
<1>3. FromTarget' /\ WalkOver' /\ Reached' /\ Covered' /\ InputOfRecord'
  BY <1>2, OpKept
<1>4. steady' \in BOOLEAN
  BY DEF Disturb
<1> QED
  BY <1>1, <1>2, <1>3, <1>4
-----------------------------------------------------------------------------
(* The invariant holds at first, and after each step *)

\* No validation is under way between two runs.
LEMMA AtRest == Idle \in OpShape /\ Idle.phase = "idle" /\ Idle.outcome = None
<1>1. << >> \in Seq(Want) /\ << >> \in Compiles
  BY NothingRead
<1> QED
  BY <1>1 DEF Idle, OpShape, Outcomes

\* The files compiled together, and what is made of them.
LEMMA WhatIsCompiled ==
  ASSUME disk \in [Key -> Text \cup {Missing, Unreadable}], NEW S \in SUBSET Existing
  PROVE  [k \in S |-> disk[k]] \in Compiles
<1>1. S \in SUBSET Key /\ [k \in S |-> disk[k]] \in [S -> Text]
  BY DEF Existing
<1> QED
  BY <1>1, IsCompile

\* A project that was compiled once, or never here.
LEMMA InitValidation == ASSUME Init PROVE ValidationInv
<1> DEFINE c == [k \in Existing |-> disk[k]]
<1>1. disk \in [Key -> Text \cup {Missing, Unreadable}]
  BY FilesAssumption DEF Init
<1>2. c \in Compiles
  BY <1>1, WhatIsCompiled
<1>3. op = Idle /\ op \in OpShape /\ op.phase = "idle" /\ op.outcome = None
  BY AtRest DEF Init
<1>4. ~HasInput /\ ~Busy
  BY <1>3 DEF HasInput, Busy
<1>5. /\ dir = [status |-> dir.status, files |-> dir.files]
      /\ dir.status \in {"listed", "absent", "unreadable"} /\ DOMAIN dir.files \subseteq Compiles
  <2> DEFINE listed == [status |-> "listed", files |-> [f \in {c} |-> [output |-> "sound", pair |-> "sound"]]]
             absent == [status |-> "absent", files |-> << >>]
  <2>1. dir = listed \/ dir = absent
    BY DEF Init
  <2>2. DOMAIN listed.files \subseteq Compiles /\ DOMAIN absent.files \subseteq Compiles
    BY <1>2, NothingRead
  <2>3. /\ listed = [status |-> listed.status, files |-> listed.files] /\ listed.status = "listed"
        /\ absent = [status |-> absent.status, files |-> absent.files] /\ absent.status = "absent"
    OBVIOUS
  <2> QED
    BY <2>1, <2>2, <2>3
<1>6. artifact \in {None} \cup Artifact
  <2>1. CASE artifact = None
    BY <2>1
  <2>2. ASSUME NEW k \in Existing, artifact = [key |-> k, built |-> c] PROVE artifact \in Artifact
    BY <1>2, <2>2 DEF Artifact, Existing
  <2> QED
    BY <2>1, <2>2 DEF Init
<1>7. compile = None /\ cached = None /\ steady \in BOOLEAN
  BY DEF Init
<1>8. TypeInv
  BY <1>1, <1>3, <1>5, <1>6, <1>7 DEF TypeInv
<1> QED
  BY <1>4, <1>8 DEF ValidationInv, FromTarget, WalkOver, Reached, Covered, InputOfRecord

\* A validation starts: it is refused before it reads a source, or it walks from the
\* source of the artifact the migration loaded.
LEMMA ResolveStep == ASSUME ValidationInv, Resolve PROVE ValidationInv'
<1> DEFINE b == steady /\ cached = None
           first == [spec |-> load.key, imported |-> FALSE]
<1>1. TypeInv /\ load \in {None} \cup Artifact /\ b \in BOOLEAN
  BY DEF ValidationInv, TypeInv, load
<1>2. cached' = load /\ UNCHANGED <<host, disk, dir, artifact, compile, steady>>
  BY DEF Resolve
<1>3. /\ << >> \in Seq(Want) /\ << >> \in Compiles /\ DOMAIN << >> = {} /\ None \in Outcomes
  BY NothingRead DEF Outcomes
<1>4. \/ \E cause \in Causes :
           op' = [Idle EXCEPT !.phase = "done", !.outcome = dispose(cause), !.settled = b]
      \/ load # None /\ op' = [Idle EXCEPT !.phase = "walking", !.pending = <<first>>, !.settled = b]
  <2>1. /\ "artifact-unresolved" \in Causes /\ "artifact-name-ambiguous" \in Causes
        /\ "artifact-shape-unsupported" \in Causes /\ "compiler-unsupported" \in Causes
    BY DEF Causes
  <2> QED
    BY <2>1 DEF Resolve
<1>5. ASSUME NEW cause \in Causes,
             op' = [Idle EXCEPT !.phase = "done", !.outcome = dispose(cause), !.settled = b]
      PROVE  ValidationInv'
  <2>1. op' = [phase |-> "done", pending |-> << >>, sources |-> << >>, outcome |-> dispose(cause),
               settled |-> b]
    BY <1>5 DEF Idle
  <2>2. dispose(cause) \in Outcomes /\ dispose(cause) # None /\ dispose(cause).kind = "refused"
    BY Disposal DEF Outcomes
  <2>3. op' \in OpShape /\ (op'.outcome = None) = (op'.phase # "done")
    BY <1>1, <1>3, <2>1, <2>2 DEF OpShape
  <2>4. ~HasInput' /\ ~Busy'
    BY <2>1, <2>2 DEF HasInput, Busy
  <2>5. TypeInv'
    BY <1>1, <1>2, <2>3 DEF TypeInv
  <2> QED
    BY <2>4, <2>5 DEF ValidationInv, FromTarget, WalkOver, Reached, Covered, InputOfRecord
<1>6. ASSUME load # None,
             op' = [Idle EXCEPT !.phase = "walking", !.pending = <<first>>, !.settled = b]
      PROVE  ValidationInv'
  <2>1. op' = [phase |-> "walking", pending |-> <<first>>, sources |-> << >>, outcome |-> None,
               settled |-> b]
    BY <1>6 DEF Idle
  <2>2. load.key \in Key
    BY <1>1, <1>6 DEF Artifact
  <2>3. first \in Want /\ <<first>> \in Seq(Want)
    BY <2>2 DEF Want
  <2>4. op' \in OpShape /\ (op'.outcome = None) = (op'.phase # "done")
    BY <1>1, <1>3, <2>1, <2>3 DEF OpShape
  <2>5. ~HasInput'
    BY <2>1 DEF HasInput
  <2>6. /\ op'.pending = <<first>> /\ op'.pending # << >> /\ Len(op'.pending) = 1
        /\ op'.pending[1].spec = cached'.key /\ DOMAIN op'.sources = {}
    BY <1>2, <1>3, <2>1
  <2>7. TypeInv'
    BY <1>1, <1>2, <2>4 DEF TypeInv
  <2>8. FromTarget' /\ WalkOver' /\ InputOfRecord'
    BY <1>2, <1>6, <2>5, <2>6 DEF FromTarget, WalkOver, InputOfRecord
  <2>9. Reached' /\ Covered'
    BY <2>6 DEF Reached, Covered
  <2> QED
    BY <2>7, <2>8, <2>9 DEF ValidationInv
<1> QED
  BY <1>4, <1>5, <1>6

\* The next migration loads its artifacts anew.
LEMMA NewRunStep == ASSUME ValidationInv, NewRun PROVE ValidationInv'
<1>1. op' \in OpShape /\ op'.phase = "idle" /\ op'.outcome = None
  BY AtRest DEF NewRun
<1>2. ~HasInput' /\ ~Busy'
  BY <1>1 DEF HasInput, Busy
<1>3. TypeInv'
  BY <1>1 DEF ValidationInv, TypeInv, NewRun
<1> QED
  BY <1>2, <1>3 DEF ValidationInv, FromTarget, WalkOver, Reached, Covered, InputOfRecord

\* A validation that ends keeps what it read, and what it has yet to read.
LEMMA Ends ==
  ASSUME TypeInv, op.phase = "walking", NEW o \in Judgements, Done(o)
  PROVE  /\ op'.phase = "done" /\ op'.outcome = o /\ op'.pending = op.pending
         /\ op'.sources = op.sources
         /\ op' \in OpShape /\ (op'.outcome = None) = (op'.phase # "done")
<1>1. op \in OpShape /\ o \in Outcomes /\ o # None
  BY NoneAssumption DEF TypeInv, Outcomes
<1>2. op' = [op EXCEPT !.phase = "done", !.outcome = o]
  BY DEF Done
<1> QED
  BY <1>1, <1>2 DEF OpShape

\* It ends with a refusal, whatever it had read.
LEMMA Refuses ==
  ASSUME ValidationInv, op.phase = "walking", NEW cause \in Causes, Done(dispose(cause)),
         UNCHANGED <<host, disk, dir, artifact, compile, cached, steady>>
  PROVE  ValidationInv'
<1>1. dispose(cause) \in Judgements /\ dispose(cause).kind = "refused"
  BY Disposal
<1>2. /\ op'.phase = "done" /\ op'.outcome = dispose(cause)
      /\ op' \in OpShape /\ (op'.outcome = None) = (op'.phase # "done")
  <2> HIDE DEF ValidationInv
  <2> QED
    BY <1>1, Ends DEF ValidationInv
<1>3. ~HasInput' /\ ~Busy'
  BY <1>1, <1>2 DEF HasInput, Busy
<1>4. TypeInv'
  BY <1>2 DEF ValidationInv, TypeInv
<1> QED
  BY <1>3, <1>4 DEF ValidationInv, FromTarget, WalkOver, Reached, Covered, InputOfRecord

\* A source already read waits no more.
LEMMA SkipStep ==
  ASSUME ValidationInv, op.phase = "walking", op.pending # << >>,
         next.spec \in DOMAIN op.sources, op' = [op EXCEPT !.pending = Tail(op.pending)],
         UNCHANGED <<host, disk, dir, artifact, compile, cached, steady>>
  PROVE  ValidationInv'
<1> DEFINE p == op.pending
<1>1. TypeInv /\ op \in OpShape /\ p \in Seq(Want)
  BY DEF ValidationInv, TypeInv, OpShape
<1>2. /\ 1 \in 1..Len(p) /\ next = p[1] /\ Tail(p) \in Seq(Want)
      /\ \A m \in 1..Len(Tail(p)) : m + 1 \in 1..Len(p) /\ Tail(p)[m] = p[m + 1]
      /\ \A m \in 1..Len(p) : m # 1 => m - 1 \in 1..Len(Tail(p)) /\ Tail(p)[m - 1] = p[m]
  BY <1>1, Shorter DEF next
<1>3. /\ op'.phase = "walking" /\ op'.pending = Tail(p) /\ op'.sources = op.sources
      /\ op'.outcome = op.outcome /\ op' \in OpShape
      /\ (op'.outcome = None) = (op'.phase # "done")
  BY <1>1, <1>2 DEF OpShape, TypeInv
<1>4. Busy /\ Busy' /\ ~HasInput'
  BY <1>3 DEF Busy, HasInput
<1>5. TypeInv'
  BY <1>1, <1>3 DEF TypeInv
<1>6. FromTarget'
  BY <1>2, <1>3, <1>4 DEF ValidationInv, FromTarget
<1>7. Reached'
  <2> SUFFICES ASSUME NEW S \in SUBSET (Key \cup {Outside}), cached.key \in S,
                      \A i \in S \cap DOMAIN op.sources :
                        \A n \in 1..Len(imports[op.sources[i]]) : imports[op.sources[i]][n] \in S
               PROVE  /\ DOMAIN op.sources \subseteq S
                      /\ \A m \in 1..Len(Tail(p)) : Tail(p)[m].spec \in S
    BY <1>3 DEF Reached
  <2>1. DOMAIN op.sources \subseteq S /\ \A m \in 1..Len(p) : p[m].spec \in S
    BY <1>4 DEF ValidationInv, Reached
  <2>2. ASSUME NEW m \in 1..Len(Tail(p)) PROVE Tail(p)[m].spec \in S
    BY <1>2, <2>1
  <2> QED
    BY <2>1, <2>2
<1>8. Covered'
  <2> SUFFICES ASSUME NEW i \in DOMAIN op.sources, NEW n \in 1..Len(imports[op.sources[i]]),
                      imports[op.sources[i]][n] \notin DOMAIN op.sources
               PROVE  \E m \in 1..Len(Tail(p)) : Tail(p)[m].spec = imports[op.sources[i]][n]
    BY <1>3 DEF Covered
  <2>1. PICK m \in 1..Len(p) : p[m].spec = imports[op.sources[i]][n]
    BY <1>4 DEF ValidationInv, Covered
  <2>2. m # 1
    BY <1>2, <2>1
  <2>3. m - 1 \in 1..Len(Tail(p)) /\ Tail(p)[m - 1] = p[m]
    BY <1>2, <2>2
  <2> QED
    BY <2>1, <2>3
<1> QED
  BY <1>4, <1>5, <1>6, <1>7, <1>8 DEF ValidationInv, WalkOver, InputOfRecord

\* A source is read, and what its text imports waits behind the rest.
LEMMA ReadStep ==
  ASSUME ValidationInv, op.phase = "walking", op.pending # << >>,
         next.spec \notin DOMAIN op.sources, unwalkable = None,
         op' = [op EXCEPT
            !.sources = [k \in DOMAIN op.sources \cup {next.spec} |->
                           IF k = next.spec THEN disk[k] ELSE op.sources[k]],
            !.pending = Tail(op.pending) \o importsOfNext],
         UNCHANGED <<host, disk, dir, artifact, compile, cached, steady>>
  PROVE  ValidationInv'
<1> DEFINE p == op.pending
           spec == next.spec
           leads == imports[disk[spec]]
           known == [k \in DOMAIN op.sources \cup {spec} |->
                       IF k = spec THEN disk[k] ELSE op.sources[k]]
           waits == Tail(p) \o importsOfNext
<1>1. TypeInv /\ op \in OpShape /\ p \in Seq(Want)
  BY DEF ValidationInv, TypeInv, OpShape
<1>2. /\ 1 \in 1..Len(p) /\ next = p[1] /\ p[1] \in Want /\ Tail(p) \in Seq(Want)
      /\ \A m \in 1..Len(p) : m # 1 => m - 1 \in 1..Len(Tail(p)) /\ Tail(p)[m - 1] = p[m]
  BY <1>1, Shorter DEF next
<1>3. \A m \in 1..Len(Tail(p)) : m + 1 \in 1..Len(p) /\ Tail(p)[m] = p[m + 1]
  BY <1>1, Shorter
<1>4. spec \in Key /\ disk[spec] \in Text /\ leads \in Seq(Key \cup {Outside})
  <2>1. spec \in Key \cup {Outside}
    BY <1>2 DEF Want
  <2> QED
    BY <1>1, <2>1, Walkable
<1>5. /\ importsOfNext \in Seq(Want) /\ Len(importsOfNext) = Len(leads) /\ Len(leads) \in Nat
      /\ \A n \in 1..Len(leads) : importsOfNext[n].spec = leads[n]
  <2>1. Len(leads) \in Nat /\ \A n \in 1..Len(leads) : leads[n] \in Key \cup {Outside}
    BY <1>4, ElementOfSeq
  <2>2. importsOfNext = [n \in 1..Len(leads) |-> [spec |-> leads[n], imported |-> TRUE]]
    BY DEF importsOfNext
  <2>3. \A n \in 1..Len(leads) : [spec |-> leads[n], imported |-> TRUE] \in Want
    BY <2>1 DEF Want
  <2>4. importsOfNext \in [1..Len(leads) -> Want]
    BY <2>2, <2>3
  <2>5. importsOfNext \in Seq(Want) /\ Len(importsOfNext) = Len(leads)
    BY <2>1, <2>4
  <2> QED
    BY <2>1, <2>2, <2>5
<1>6. /\ waits \in Seq(Want)
      /\ \A m \in 1..Len(Tail(p)) : m \in 1..Len(waits) /\ waits[m] = Tail(p)[m]
      /\ \A n \in 1..Len(leads) : \E m \in 1..Len(waits) : waits[m] = importsOfNext[n]
      /\ \A m \in 1..Len(waits) : \/ \E n \in 1..Len(Tail(p)) : waits[m] = Tail(p)[n]
                                 \/ \E n \in 1..Len(leads) : waits[m] = importsOfNext[n]
  <2> DEFINE first == Tail(p)
             last == importsOfNext
  <2>1. first \in Seq(Want) /\ last \in Seq(Want) /\ waits = first \o last
    BY <1>2, <1>5
  <2> HIDE DEF first, last
  <2>2. /\ first \o last \in Seq(Want)
        /\ \A m \in 1..Len(first) : m \in 1..Len(first \o last) /\ (first \o last)[m] = first[m]
        /\ \A n \in 1..Len(last) :
             /\ Len(first) + n \in 1..Len(first \o last)
             /\ (first \o last)[Len(first) + n] = last[n]
        /\ \A m \in 1..Len(first \o last) : \/ \E n \in 1..Len(first) : (first \o last)[m] = first[n]
                                           \/ \E n \in 1..Len(last) : (first \o last)[m] = last[n]
    BY <2>1, Appended
  <2>3. \A n \in 1..Len(last) : \E m \in 1..Len(first \o last) : (first \o last)[m] = last[n]
    BY <2>2
  <2>4. Len(last) = Len(leads)
    BY <1>5 DEF last
  <2>5. /\ waits \in Seq(Want)
        /\ \A m \in 1..Len(first) : m \in 1..Len(waits) /\ waits[m] = first[m]
        /\ \A n \in 1..Len(leads) : \E m \in 1..Len(waits) : waits[m] = last[n]
        /\ \A m \in 1..Len(waits) : \/ \E n \in 1..Len(first) : waits[m] = first[n]
                                   \/ \E n \in 1..Len(leads) : waits[m] = last[n]
    <3> HIDE DEF p, spec, leads, known, waits
    <3>1. waits = first \o last
      BY <2>1
    <3>2. /\ waits \in Seq(Want)
          /\ \A m \in 1..Len(first) : m \in 1..Len(waits) /\ waits[m] = first[m]
      BY <2>2, <3>1
    <3>3. \A n \in 1..Len(leads) : \E m \in 1..Len(waits) : waits[m] = last[n]
      BY <2>3, <2>4, <3>1
    <3>4. \A m \in 1..Len(waits) : \/ \E n \in 1..Len(first) : waits[m] = first[n]
                                 \/ \E n \in 1..Len(leads) : waits[m] = last[n]
      BY <2>2, <2>4, <3>1
    <3> QED
      BY <3>2, <3>3, <3>4
  <2> QED
    BY <2>5 DEF first, last
<1>7. known \in Compiles /\ DOMAIN known = DOMAIN op.sources \cup {spec}
  <2>1. op.sources \in Compiles
    BY <1>1 DEF OpShape
  <2>2. DOMAIN op.sources \in SUBSET Key /\ op.sources \in [DOMAIN op.sources -> Text]
    BY <2>1, CompileFacts
  <2>3. known \in [DOMAIN op.sources \cup {spec} -> Text]
    BY <1>4, <2>2
  <2> QED
    BY <1>4, <2>2, <2>3, IsCompile
<1>8. /\ op'.phase = "walking" /\ op'.pending = waits /\ op'.sources = known
      /\ op'.outcome = op.outcome /\ op' \in OpShape
      /\ (op'.outcome = None) = (op'.phase # "done")
  <2> HIDE DEF known, waits
  <2>1. op' = [op EXCEPT !.sources = known, !.pending = waits]
    BY DEF known, waits
  <2> QED
    BY <1>1, <1>6, <1>7, <2>1 DEF OpShape, TypeInv
<1>9. Busy /\ Busy' /\ ~HasInput'
  BY <1>8 DEF Busy, HasInput
<1>10. TypeInv'
  BY <1>1, <1>8 DEF TypeInv
<1>11. known[spec] = disk[spec] /\ \A i \in DOMAIN op.sources : known[i] = op.sources[i]
  OBVIOUS
<1>12. FromTarget'
  <2>1. cached # None /\ cached.key \in DOMAIN op.sources \cup {spec}
    BY <1>2, <1>9 DEF ValidationInv, FromTarget
  <2> QED
    BY <1>7, <1>8, <2>1 DEF FromTarget
<1> HIDE DEF known, waits
<1>13. Reached'
  <2> SUFFICES ASSUME NEW S \in SUBSET (Key \cup {Outside}), cached.key \in S,
                      \A i \in S \cap DOMAIN known :
                        \A n \in 1..Len(imports[known[i]]) : imports[known[i]][n] \in S
               PROVE  /\ DOMAIN known \subseteq S
                      /\ \A m \in 1..Len(waits) : waits[m].spec \in S
    BY <1>8 DEF Reached
  <2>1. \A i \in S \cap DOMAIN op.sources :
          \A n \in 1..Len(imports[op.sources[i]]) : imports[op.sources[i]][n] \in S
    BY <1>7, <1>11
  <2>2. DOMAIN op.sources \subseteq S /\ \A m \in 1..Len(p) : p[m].spec \in S
    BY <1>9, <2>1 DEF ValidationInv, Reached
  <2>3. spec \in S
    BY <1>2, <2>2
  <2>4. \A n \in 1..Len(leads) : leads[n] \in S
    BY <1>7, <1>11, <2>3
  <2>5. ASSUME NEW m \in 1..Len(waits) PROVE waits[m].spec \in S
    <3>1. ASSUME NEW n \in 1..Len(Tail(p)), waits[m] = Tail(p)[n] PROVE waits[m].spec \in S
      BY <1>3, <2>2, <3>1
    <3>2. ASSUME NEW n \in 1..Len(leads), waits[m] = importsOfNext[n] PROVE waits[m].spec \in S
      BY <1>5, <2>4, <3>2
    <3> QED
      BY <1>6, <3>1, <3>2
  <2> QED
    BY <1>7, <2>2, <2>3, <2>5
<1>14. Covered'
  <2>1. ASSUME NEW i \in DOMAIN known, NEW n \in 1..Len(imports[known[i]]),
               imports[known[i]][n] \notin DOMAIN known
        PROVE  \E m \in 1..Len(waits) : waits[m].spec = imports[known[i]][n]
    <3>1. CASE i = spec
      <4>1. n \in 1..Len(leads) /\ imports[known[i]][n] = leads[n]
        BY <1>11, <3>1
      <4>2. PICK m \in 1..Len(waits) : waits[m] = importsOfNext[n]
        BY <1>6, <4>1
      <4> QED
        BY <1>5, <4>1, <4>2
    <3>2. CASE i # spec
      <4>1. /\ i \in DOMAIN op.sources /\ known[i] = op.sources[i]
            /\ imports[op.sources[i]][n] \notin DOMAIN op.sources /\ imports[op.sources[i]][n] # spec
        BY <1>7, <1>11, <2>1, <3>2
      <4>2. PICK m \in 1..Len(p) : p[m].spec = imports[op.sources[i]][n]
        BY <1>9, <4>1 DEF ValidationInv, Covered
      <4>3. m # 1
        BY <1>2, <4>1, <4>2
      <4>4. m - 1 \in 1..Len(Tail(p)) /\ Tail(p)[m - 1] = p[m]
        BY <1>2, <4>3
      <4>5. m - 1 \in 1..Len(waits) /\ waits[m - 1] = p[m]
        BY <1>6, <4>4
      <4> QED
        BY <4>1, <4>2, <4>5
    <3> QED
      BY <3>1, <3>2
  <2> SUFFICES ASSUME NEW i \in DOMAIN op'.sources, NEW n \in 1..Len(imports[op'.sources[i]])
                 PROVE  \/ imports[op'.sources[i]][n] \in DOMAIN op'.sources
                        \/ \E m \in 1..Len(op'.pending) :
                             op'.pending[m].spec = imports[op'.sources[i]][n]
    BY DEF Covered
  <2>2. op'.sources = known /\ op'.pending = waits
    BY <1>8
  <2>3. i \in DOMAIN known /\ n \in 1..Len(imports[known[i]])
    BY <2>2
  <2>4. \/ imports[known[i]][n] \in DOMAIN known
        \/ \E m \in 1..Len(waits) : waits[m].spec = imports[known[i]][n]
    BY <2>1, <2>3
  <2> QED
    BY <2>2, <2>4
<1> QED
  BY <1>9, <1>10, <1>12, <1>13, <1>14 DEF ValidationInv, WalkOver, InputOfRecord

\* One step of the walk.
LEMMA WalkStep == ASSUME ValidationInv, Walk PROVE ValidationInv'
<1>1. /\ op.phase = "walking" /\ op.pending # << >>
      /\ UNCHANGED <<host, disk, dir, artifact, compile, cached, steady>>
  BY DEF Walk
<1>2. TypeInv /\ next.spec \in Key \cup {Outside}
  <2>1. TypeInv /\ op.pending \in Seq(Want)
    BY DEF ValidationInv, TypeInv, OpShape
  <2>2. Head(op.pending) \in Want
    BY <1>1, <2>1
  <2> QED
    BY <2>1, <2>2 DEF next, Want
<1>3. CASE next.spec \in DOMAIN op.sources
  <2>1. op' = [op EXCEPT !.pending = Tail(op.pending)]
    BY <1>3 DEF Walk
  <2> QED
    BY <1>1, <1>3, <2>1, SkipStep
<1>4. CASE next.spec \notin DOMAIN op.sources /\ unwalkable # None
  <2>1. Done(dispose(unwalkable)) /\ unwalkable \in Causes
    BY <1>2, <1>4, Walkable DEF Walk
  <2> QED
    BY <1>1, <2>1, Refuses
<1>5. CASE next.spec \notin DOMAIN op.sources /\ unwalkable = None
  <2>1. op' = [op EXCEPT
            !.sources = [k \in DOMAIN op.sources \cup {next.spec} |->
                           IF k = next.spec THEN disk[k] ELSE op.sources[k]],
            !.pending = Tail(op.pending) \o importsOfNext]
    BY <1>5 DEF Walk
  <2> QED
    BY <1>1, <1>5, <2>1, ReadStep
<1> QED
  BY <1>3, <1>4, <1>5

\* A usable record gives its input, or the one refusal that follows its verification:
\* what is asserted of the input on the way out holds of it.
LEMMA RecordGives ==
  ASSUME TypeInv, cached \in Artifact, NEW c \in DOMAIN dir.files, NEW closure \in SUBSET Key,
         cached.key \in closure, usable(c, closure)
  PROVE  /\ freshArm(c, closure) \in {dispose("library-name-unsupported"), Proceed(c, closure)}
         /\ freshArm(c, closure) = dispose("library-name-unsupported") <=> libraryNameBand(c)
         /\ closure \subseteq DOMAIN c
         /\ Proceed(c, closure).kind = "input" /\ Proceed(c, closure).record = c
         /\ Proceed(c, closure).asts = [k \in closure |-> c[k]]
         /\ Proceed(c, closure).texts = c
         /\ Proceed(c, closure).notes = stateNamespaceShortfall(c, closure)
         /\ Proceed(c, closure) \in Judgements
<1>1. c \in Compiles /\ DOMAIN c \in SUBSET Key /\ c \in [DOMAIN c -> Text]
  <2>1. c \in Compiles
    BY DEF TypeInv
  <2> QED
    BY <2>1, CompileFacts
<1>2. located(c) /\ closure \subseteq astSources(c)
  BY DEF usable, projectBuildRecord
<1>3. closure \cap astSources(c) = closure /\ closure \subseteq DOMAIN c
  BY <1>2 DEF astSources
<1>4. Proceed(c, closure) = [kind |-> "input", record |-> c, asts |-> [k \in closure |-> c[k]],
                             texts |-> c, notes |-> stateNamespaceShortfall(c, closure)]
  BY <1>3 DEF Proceed, narrowRecordedInput
<1>5. Proceed(c, closure) \in Judgements
  <2>1. [k \in closure |-> c[k]] \in Compiles
    <3>1. [k \in closure |-> c[k]] \in [closure -> Text]
      BY <1>1, <1>3
    <3> QED
      BY <3>1, IsCompile
  <2>2. stateNamespaceShortfall(c, closure)
          \in SUBSET {"storage-layout-unavailable", "namespaced-ast-only"}
    BY DEF stateNamespaceShortfall
  <2> QED
    BY <1>1, <1>4, <2>1, <2>2 DEF Judgements
<1>6. assertInput(Proceed(c, closure), closure)
  <2>1. c[cached.key] \in Named
    BY <1>2 DEF located
  <2>2. DOMAIN c # {} /\ [k \in closure |-> c[k]][cached.key] \in Named
    BY <1>3, <2>1
  <2> QED
    BY <1>3, <1>4, <2>2 DEF assertInput
<1>7. freshArm(c, closure) = IF libraryNameBand(c) THEN dispose("library-name-unsupported")
                            ELSE Proceed(c, closure)
  BY <1>6 DEF freshArm
<1>8. dispose("library-name-unsupported").kind = "refused"
  BY Disposal DEF Causes
<1> QED
  BY <1>3, <1>4, <1>5, <1>7, <1>8

\* The walk is over: there is an input of a record whose code is the artifact's, or a
\* refusal.  The target is among the sources walked, so that nothing throws.
LEMMA ConsultStep == ASSUME ValidationInv, Consult PROVE ValidationInv'
<1> DEFINE closure == DOMAIN op.sources
<1>1. /\ op.phase = "walking" /\ op.pending = << >>
      /\ UNCHANGED <<host, disk, dir, artifact, compile, cached, steady>>
  BY DEF Consult
<1>2. TypeInv /\ closure \in SUBSET Key
  <2>1. TypeInv /\ op.sources \in Compiles
    BY DEF ValidationInv, TypeInv, OpShape
  <2> QED
    BY <2>1, CompileFacts
<1>3. Busy /\ cached # None /\ cached \in Artifact /\ cached.key \in closure
  <2>1. Busy
    BY <1>1 DEF Busy
  <2>2. cached # None /\ cached.key \in closure
    BY <1>1, <2>1 DEF ValidationInv, FromTarget
  <2> QED
    BY <2>1, <2>2 DEF ValidationInv, TypeInv
<1>4. \/ \E cause \in Causes : Done(dispose(cause))
      \/ \E c \in DOMAIN dir.files : usable(c, closure) /\ Done(freshArm(c, closure))
  <2>1. "build-record-absent" \in Causes /\ "build-record-stale" \in Causes
    BY DEF Causes
  <2> QED
    BY <1>3, <2>1 DEF Consult, cutPartition
<1>5. ASSUME NEW cause \in Causes, Done(dispose(cause)) PROVE ValidationInv'
  BY <1>1, <1>5, Refuses
<1>6. ASSUME NEW c \in DOMAIN dir.files, usable(c, closure), Done(freshArm(c, closure))
      PROVE  ValidationInv'
  <2> DEFINE input == Proceed(c, closure)
  <2>1. /\ freshArm(c, closure) \in {dispose("library-name-unsupported"), input}
        /\ closure \subseteq DOMAIN c /\ input.kind = "input" /\ input.record = c
        /\ input.asts = [k \in closure |-> c[k]] /\ input.texts = c
        /\ input.notes = stateNamespaceShortfall(c, closure) /\ input \in Judgements
    BY <1>2, <1>3, <1>6, RecordGives
  <2>2. CASE freshArm(c, closure) = dispose("library-name-unsupported")
    <3>1. "library-name-unsupported" \in Causes /\ Done(dispose("library-name-unsupported"))
      BY <1>6, <2>2 DEF Causes
    <3> QED
      BY <1>1, <3>1, Refuses
  <2>3. CASE freshArm(c, closure) = input
    <3> HIDE DEF input
    <3>1. Done(input)
      BY <1>6, <2>3
    <3>2. /\ op'.phase = "done" /\ op'.outcome = input /\ op'.pending = << >>
          /\ op'.sources = op.sources
          /\ op' \in OpShape /\ (op'.outcome = None) = (op'.phase # "done")
      BY <1>1, <1>2, <2>1, <3>1, Ends
    <3>3. HasInput' /\ Busy'
      BY <2>1, <3>2 DEF HasInput, Busy
    <3>4. TypeInv'
      BY <1>1, <1>2, <3>2 DEF TypeInv
    <3>5. FromTarget' /\ WalkOver'
      BY <1>1, <1>3, <3>2 DEF FromTarget, WalkOver
    <3>6. Reached'
      BY <1>1, <1>3, <3>2 DEF ValidationInv, Reached
    <3>7. Covered'
      BY <1>1, <1>3, <3>2 DEF ValidationInv, Covered
    <3>8. InputOfRecord'
      <4>1. Code(c, cached.key)' = Code(cached.built, cached.key)'
        <5>1. Code(c, cached.key) = Code(cached.built, cached.key)
          BY <1>6 DEF usable, verifyBuildRecordFreshness
        <5> QED
          BY <1>1, <5>1 DEF Code, ClosureOf
      <4> QED
        BY <2>1, <3>2, <4>1 DEF InputOfRecord, stateNamespaceShortfall, declaresNamespacedStorage
    <3> QED
      BY <3>4, <3>5, <3>6, <3>7, <3>8 DEF ValidationInv
  <2> QED
    BY <2>1, <2>2, <2>3
<1> QED
  BY <1>4, <1>5, <1>6

\* A source is edited.
LEMMA EditStep == ASSUME ValidationInv, NEW k \in Key, Edit(k) PROVE ValidationInv'
<1>1. TypeInv /\ Disturb /\ UNCHANGED <<host, dir, artifact, compile, cached>>
  BY DEF ValidationInv, Edit
<1>2. disk' \in [Key -> Text \cup {Missing, Unreadable}]
  <2>1. PICK t \in textsOf[k] : disk' = [disk EXCEPT ![k] = t]
    BY DEF Edit
  <2>2. t \in Text \cup {Missing, Unreadable}
    BY FilesAssumption
  <2> QED
    BY <1>1, <2>1, <2>2 DEF TypeInv
<1>3. /\ FromTarget' /\ WalkOver' /\ Reached' /\ Covered' /\ InputOfRecord'
      /\ op' \in OpShape /\ (op'.outcome = None) = (op'.phase # "done") /\ steady' \in BOOLEAN
  BY <1>1, Disturbed
<1>4. TypeInv'
  BY <1>1, <1>2, <1>3 DEF TypeInv
<1> QED
  BY <1>3, <1>4 DEF ValidationInv

\* A compile of sources that exist.
LEMMA StartCompileStep ==
  ASSUME ValidationInv, NEW S \in SUBSET Existing, StartCompile(S) PROVE ValidationInv'
<1> DEFINE c == [k \in S |-> disk[k]]
<1>1. TypeInv /\ Disturb /\ UNCHANGED <<host, disk, dir, artifact, cached>>
  BY DEF ValidationInv, StartCompile
<1>2. c \in Compiles
  BY <1>1, WhatIsCompiled DEF TypeInv
<1>3. /\ compile' = [texts |-> compile'.texts, left |-> compile'.left]
      /\ compile'.texts \in Compiles
  <2>1. compile' = [texts |-> c, left |-> {"open", "output", "pair", "artifact"}]
    BY DEF StartCompile
  <2> HIDE DEF c
  <2> QED
    BY <1>2, <2>1
<1>4. /\ FromTarget' /\ WalkOver' /\ Reached' /\ Covered' /\ InputOfRecord'
      /\ op' \in OpShape /\ (op'.outcome = None) = (op'.phase # "done") /\ steady' \in BOOLEAN
  BY <1>1, Disturbed
<1>5. TypeInv'
  BY <1>1, <1>3, <1>4 DEF TypeInv
<1> QED
  BY <1>4, <1>5 DEF ValidationInv

\* What a compile has written, it still compiles.
LEMMA Written ==
  ASSUME TypeInv, compile # None, NEW step, Wrote(step)
  PROVE  /\ compile.texts \in Compiles
         /\ compile' = [texts |-> compile'.texts, left |-> compile'.left]
         /\ compile'.texts \in Compiles
<1>1. compile = [texts |-> compile.texts, left |-> compile.left] /\ compile.texts \in Compiles
  BY DEF TypeInv
<1>2. compile' = [texts |-> compile.texts, left |-> compile.left \ {step}]
  BY <1>1 DEF Wrote
<1> QED
  BY <1>1, <1>2

\* A step of a compile's record.
LEMMA WriteRecordStep ==
  ASSUME ValidationInv, NEW step \in {"open", "output", "pair"}, WriteRecord(step)
  PROVE  ValidationInv'
<1>1. /\ TypeInv /\ Disturb /\ UNCHANGED <<host, disk, artifact, cached>>
      /\ compile # None /\ Wrote(step)
  BY DEF ValidationInv, WriteRecord
<1>2. /\ compile.texts \in Compiles /\ compile'.texts \in Compiles
      /\ compile' = [texts |-> compile'.texts, left |-> compile'.left]
  BY <1>1, Written
<1>3. /\ dir' = [status |-> dir'.status, files |-> dir'.files]
      /\ dir'.status = "listed" /\ DOMAIN dir'.files = DOMAIN dir.files \cup {compile.texts}
  BY DEF WriteRecord
<1>4. /\ FromTarget' /\ WalkOver' /\ Reached' /\ Covered' /\ InputOfRecord'
      /\ op' \in OpShape /\ (op'.outcome = None) = (op'.phase # "done") /\ steady' \in BOOLEAN
  BY <1>1, Disturbed
<1>5. TypeInv'
  BY <1>1, <1>2, <1>3, <1>4 DEF TypeInv
<1> QED
  BY <1>4, <1>5 DEF ValidationInv

\* The artifact is one of the compile's, or what it was.
LEMMA WriteArtifactStep == ASSUME ValidationInv, WriteArtifact PROVE ValidationInv'
<1>1. /\ TypeInv /\ Disturb /\ UNCHANGED <<host, disk, dir, cached>>
      /\ compile # None /\ Wrote("artifact")
  BY DEF ValidationInv, WriteArtifact
<1>2. /\ compile.texts \in Compiles /\ compile'.texts \in Compiles
      /\ compile' = [texts |-> compile'.texts, left |-> compile'.left]
  BY <1>1, Written
<1>3. artifact' \in {None} \cup Artifact
  <2>1. \/ artifact' = artifact
        \/ \E k \in DOMAIN compile.texts : artifact' = [key |-> k, built |-> compile.texts]
    BY DEF WriteArtifact
  <2>2. DOMAIN compile.texts \in SUBSET Key
    BY <1>2, CompileFacts
  <2> QED
    BY <1>1, <1>2, <2>1, <2>2 DEF TypeInv, Artifact
<1>4. /\ FromTarget' /\ WalkOver' /\ Reached' /\ Covered' /\ InputOfRecord'
      /\ op' \in OpShape /\ (op'.outcome = None) = (op'.phase # "done") /\ steady' \in BOOLEAN
  BY <1>1, Disturbed
<1>5. TypeInv'
  BY <1>1, <1>2, <1>3, <1>4 DEF TypeInv
<1> QED
  BY <1>4, <1>5 DEF ValidationInv

\* A compile ends or dies.
LEMMA EndCompileStep == ASSUME ValidationInv, EndCompile PROVE ValidationInv'
<1>1. FromTarget' /\ WalkOver' /\ Reached' /\ Covered' /\ InputOfRecord'
  BY OpKept DEF EndCompile
<1>2. compile' = None /\ steady' \in BOOLEAN /\ UNCHANGED <<disk, dir, artifact, cached, op>>
  BY DEF EndCompile
<1>3. TypeInv'
  BY <1>2 DEF ValidationInv, TypeInv
<1> QED
  BY <1>1, <1>3 DEF ValidationInv

\* Something in the build-info directory is damaged, or the directory is.
LEMMA DamageStep == ASSUME ValidationInv, Damage PROVE ValidationInv'
<1>1. TypeInv /\ Disturb /\ UNCHANGED <<host, disk, artifact, compile, cached>>
  BY DEF ValidationInv, Damage
<1>2. dir = [status |-> dir.status, files |-> dir.files] /\ dir.status = "listed"
  BY <1>1 DEF TypeInv, Damage
<1>3. /\ dir' = [status |-> dir'.status, files |-> dir'.files]
      /\ dir'.status \in {"listed", "absent", "unreadable"} /\ DOMAIN dir'.files \subseteq Compiles
  <2>1. CASE dir' = [status |-> "absent", files |-> << >>]
    BY <2>1, NothingRead
  <2>2. CASE dir' = [dir EXCEPT !.status = "unreadable"]
    <3>1. dir' = [status |-> "unreadable", files |-> dir.files]
      BY <1>2, <2>2
    <3> QED
      BY <1>1, <3>1 DEF TypeInv
  <2>3. ASSUME NEW c, NEW r, dir' = [dir EXCEPT !.files[c] = r]
        PROVE  /\ dir' = [status |-> dir'.status, files |-> dir'.files]
               /\ dir'.status = "listed" /\ DOMAIN dir'.files \subseteq Compiles
    <3> DEFINE new == [dir.files EXCEPT ![c] = r]
    <3>1. dir' = [status |-> dir.status, files |-> new]
      BY <1>2, <2>3
    <3>2. DOMAIN new = DOMAIN dir.files
      OBVIOUS
    <3> HIDE DEF new
    <3> QED
      BY <1>1, <1>2, <3>1, <3>2 DEF TypeInv
  <2> QED
    BY <2>1, <2>2, <2>3 DEF Damage
<1>4. /\ FromTarget' /\ WalkOver' /\ Reached' /\ Covered' /\ InputOfRecord'
      /\ op' \in OpShape /\ (op'.outcome = None) = (op'.phase # "done") /\ steady' \in BOOLEAN
  BY <1>1, Disturbed
<1>5. TypeInv'
  BY <1>1, <1>3, <1>4 DEF TypeInv
<1> QED
  BY <1>4, <1>5 DEF ValidationInv

-----------------------------------------------------------------------------
(* A settled project *)

\* What is judged of a project depends on its files, settings and records only.
LEMMA SameProject ==
  ASSUME UNCHANGED <<host, disk, dir>>
  PROVE  /\ indexed' = indexed /\ ambiguous' = ambiguous /\ StillDeclared' = StillDeclared
         /\ candidateSources' = candidateSources /\ Existing' = Existing /\ Whole' = Whole
         /\ Compilable(Existing)' = Compilable(Existing)
         /\ \A c, k : Code(c, k)' = Code(c, k)
<1>1. Existing' = Existing
  BY DEF Existing
<1>2. indexed' = indexed
  BY DEF indexed, readBuildInfo
<1>3. candidateSources' = candidateSources
  BY DEF candidateSources
<1>4. ambiguous' = ambiguous
  BY <1>2, <1>3 DEF ambiguous
<1>5. StillDeclared' = StillDeclared /\ Whole' = Whole /\ Compilable(Existing)' = Compilable(Existing)
  BY <1>1 DEF StillDeclared, Whole, Compilable
<1>6. \A c, k : Code(c, k)' = Code(c, k)
  BY DEF Code, ClosureOf
<1> QED
  BY <1>1, <1>2, <1>3, <1>4, <1>5, <1>6

\* A project that is left alone stays settled, and so does a compile.
LEMMA ProjectKept ==
  ASSUME CompileInv, SteadyInv, UNCHANGED <<host, disk, dir, artifact, compile, steady>>
  PROVE  CompileInv' /\ SteadyInv'
<1>1. \A c : BuiltBy(c)' = BuiltBy(c)
  BY DEF BuiltBy, Declares
<1>2. CompileInv'
  BY <1>1 DEF CompileInv, Declares
<1>3. SteadyInv'
  BY <1>1, SameProject DEF SteadyInv, Sound
<1> QED
  BY <1>2, <1>3

\* Whoever disturbs the project unsettles it.
LEMMA Unsettled ==
  ASSUME TypeInv, Disturb
  PROVE  ~steady' /\ SteadyInv' /\ SettledInv'
<1>1. op \in OpShape
  BY DEF TypeInv
<1>2. op'.settled = FALSE /\ steady' = FALSE
  BY <1>1 DEF Disturb, OpShape
<1> QED
  BY <1>2 DEF SteadyInv, SettledInv

\* In a settled project every source that declares the contract is a candidate, so that
\* two of them are one name too many.
LEMMA DeclaredSources ==
  ASSUME SteadyInv, steady, indexed, ~ambiguous
  PROVE  ~(Cardinality({k \in Existing : disk[k] \in Named}) > 1)
<1> DEFINE declared == {k \in Existing : disk[k] \in Named}
<1>1. declared \subseteq candidateSources
  <2> SUFFICES ASSUME NEW k \in declared PROVE k \in candidateSources
    OBVIOUS
  <2>1. Whole \in DOMAIN dir.files /\ k \in DOMAIN Whole /\ Whole[k] = disk[k] /\ k \in Key
    BY DEF SteadyInv, Whole, Existing
  <2> QED
    BY <2>1 DEF candidateSources
<1>2. IsFiniteSet(candidateSources)
  <2>1. candidateSources \subseteq Key
    BY DEF candidateSources
  <2> QED
    BY <2>1, FilesAssumption, FS_Subset
<1> HIDE DEF declared
<1>3. /\ Cardinality(declared) <= Cardinality(candidateSources)
      /\ Cardinality(declared) \in Nat /\ Cardinality(candidateSources) \in Nat
  BY <1>1, <1>2, FS_Subset, FS_CardinalityType
<1>4. ~(Cardinality(candidateSources) > 1)
  BY DEF ambiguous
<1>5. ~(Cardinality(declared) > 1)
  BY <1>3, <1>4
<1> QED
  BY <1>5 DEF declared

\* A project that was compiled once is settled; one that never was is not.
LEMMA InitProject == ASSUME Init PROVE ProjectInv
<1>1. compile = None /\ op = Idle /\ ~op.settled
  BY DEF Init, Idle
<1>2. SteadyInv
  <2> SUFFICES ASSUME steady PROVE /\ dir.status = "listed" /\ Whole \in DOMAIN dir.files
                                   /\ dir.files[Whole] = Sound /\ Compilable(Existing)
                                   /\ StillDeclared => BuiltBy(Whole)
    BY <1>1 DEF SteadyInv
  <2>1. dir.status = "listed" /\ Compilable(Existing)
    BY DEF Init
  <2>2. dir = [status |-> "listed", files |-> [f \in {Whole} |-> Sound]]
    BY <2>1 DEF Init, Whole, Sound
  <2>3. ASSUME StillDeclared PROVE BuiltBy(Whole)
    <3>1. PICK k \in Existing : disk[k] \in Named /\ artifact = [key |-> k, built |-> Whole]
      BY <2>3 DEF Init, StillDeclared, Whole
    <3>2. k \in DOMAIN Whole /\ Whole[k] = disk[k]
      BY DEF Whole
    <3> QED
      BY <3>1, <3>2 DEF BuiltBy, Declares
  <2> QED
    BY <2>1, <2>2, <2>3
<1> QED
  BY <1>1, <1>2 DEF ProjectInv, CompileInv, SettledInv

\* An edit does not reach a compile that has read its sources.
LEMMA EditProject ==
  ASSUME ValidationInv, ProjectInv, NEW k \in Key, Edit(k) PROVE ProjectInv'
<1>1. TypeInv /\ Disturb /\ UNCHANGED <<dir, artifact, compile>>
  BY DEF ValidationInv, Edit
<1>2. ~steady' /\ SteadyInv' /\ SettledInv'
  BY <1>1, Unsettled
<1>3. CompileInv'
  BY <1>1, <1>2 DEF ProjectInv, CompileInv, BuiltBy, Declares
<1> QED
  BY <1>2, <1>3 DEF ProjectInv

\* What is compiled together imports nothing else.
LEMMA StartCompileProject ==
  ASSUME ValidationInv, ProjectInv, NEW S \in SUBSET Existing, StartCompile(S) PROVE ProjectInv'
<1> DEFINE c == [k \in S |-> disk[k]]
<1>1. TypeInv /\ Disturb /\ Compilable(S)
  BY DEF ValidationInv, StartCompile
<1>2. ~steady' /\ SteadyInv' /\ SettledInv'
  BY <1>1, Unsettled
<1>3. compile' = [texts |-> c, left |-> {"open", "output", "pair", "artifact"}]
  BY DEF StartCompile
<1>4. compile'.texts = c /\ "open" \in compile'.left /\ "artifact" \in compile'.left
  BY <1>3
<1>5. \A k \in DOMAIN c : \A n \in 1..Len(imports[c[k]]) : imports[c[k]][n] \in DOMAIN c
  BY <1>1 DEF Compilable
<1> HIDE DEF c
<1>6. CompileInv'
  BY <1>2, <1>4, <1>5 DEF CompileInv
<1> QED
  BY <1>2, <1>6 DEF ProjectInv

\* A compile's record, once open, is listed as long as the directory is.
LEMMA WriteRecordProject ==
  ASSUME ValidationInv, ProjectInv, NEW step \in {"open", "output", "pair"}, WriteRecord(step)
  PROVE  ProjectInv'
<1>1. /\ TypeInv /\ Disturb /\ artifact' = artifact /\ compile # None
      /\ compile = [texts |-> compile.texts, left |-> compile.left]
  BY DEF ValidationInv, TypeInv, WriteRecord
<1>2. ~steady' /\ SteadyInv' /\ SettledInv'
  BY <1>1, Unsettled
<1>3. compile' = [texts |-> compile.texts, left |-> compile.left \ {step}]
  BY <1>1 DEF WriteRecord, Wrote
<1>4. /\ compile'.texts = compile.texts
      /\ "artifact" \notin compile'.left => "artifact" \notin compile.left
  BY <1>3
<1>5. compile.texts \in DOMAIN dir'.files
  BY DEF WriteRecord
<1>6. CompileInv'
  BY <1>1, <1>2, <1>4, <1>5 DEF ProjectInv, CompileInv, BuiltBy, Declares
<1> QED
  BY <1>2, <1>6 DEF ProjectInv

\* The artifact written is of a source that declares the contract, if there is one.
LEMMA WriteArtifactProject ==
  ASSUME ValidationInv, ProjectInv, WriteArtifact PROVE ProjectInv'
<1> DEFINE c == compile.texts
<1>1. /\ TypeInv /\ Disturb /\ dir' = dir /\ compile # None
      /\ compile = [texts |-> c, left |-> compile.left]
  BY DEF ValidationInv, TypeInv, WriteArtifact
<1>2. ~steady' /\ SteadyInv' /\ SettledInv'
  BY <1>1, Unsettled
<1>3. compile' = [texts |-> c, left |-> compile.left \ {"artifact"}]
  BY <1>1 DEF WriteArtifact, Wrote
<1>4. compile'.texts = c /\ ("open" \notin compile'.left => "open" \notin compile.left)
  BY <1>3
<1>5. ASSUME Declares(c) # {} PROVE artifact'.built = c /\ artifact'.key \in Declares(c)
  <2>1. PICK k \in Declares(c) : artifact' = [key |-> k, built |-> c]
    BY <1>5 DEF WriteArtifact, Declares
  <2> QED
    BY <2>1
<1> HIDE DEF c
<1>6. \A k \in DOMAIN c : \A n \in 1..Len(imports[c[k]]) : imports[c[k]][n] \in DOMAIN c
  BY <1>1 DEF ProjectInv, CompileInv, c
<1>7. "open" \notin compile.left /\ dir.status = "listed" => c \in DOMAIN dir.files
  BY <1>1 DEF ProjectInv, CompileInv, c
<1>8. Declares(compile.texts)' = Declares(c) /\ (BuiltBy(compile.texts)' <=>
        artifact'.built = c /\ artifact'.key \in Declares(c))
  BY <1>4 DEF Declares, BuiltBy
<1>9. CompileInv'
  BY <1>1, <1>2, <1>4, <1>5, <1>6, <1>7, <1>8 DEF CompileInv
<1> QED
  BY <1>2, <1>9 DEF ProjectInv

\* A project is settled by a compile of all that exists which wrote all it had to.
LEMMA EndCompileProject ==
  ASSUME ValidationInv, ProjectInv, EndCompile PROVE ProjectInv'
<1>1. /\ compile # None /\ compile' = None /\ UNCHANGED <<host, disk, dir, artifact, cached, op>>
      /\ ~steady
  BY DEF EndCompile, ProjectInv, CompileInv
<1>2. CompileInv' /\ SettledInv'
  BY <1>1 DEF ProjectInv, CompileInv, SettledInv
<1>3. SteadyInv'
  <2> SUFFICES ASSUME steady'
               PROVE  /\ dir.status = "listed" /\ Whole \in DOMAIN dir.files
                      /\ dir.files[Whole] = Sound /\ Compilable(Existing)
                      /\ StillDeclared => BuiltBy(Whole)
    <3>1. BuiltBy(Whole)' = BuiltBy(Whole)
      BY <1>1, SameProject DEF BuiltBy, Declares
    <3> QED
      BY <1>1, <3>1, SameProject DEF SteadyInv, Sound
  <2>1. /\ compile.left = {} /\ compile.texts = Whole /\ dir.status = "listed"
        /\ dir.files[Whole] = Sound
    BY DEF EndCompile, Whole, Sound
  <2>2. Whole \in DOMAIN dir.files
    BY <1>1, <2>1 DEF ProjectInv, CompileInv
  <2>3. Compilable(Existing)
    <3>1. DOMAIN Whole = Existing /\ \A k \in Existing : Whole[k] = disk[k] /\ disk[k] \in Text
      BY DEF Whole, Existing
    <3>2. \A k \in DOMAIN Whole : \A n \in 1..Len(imports[Whole[k]]) :
            imports[Whole[k]][n] \in DOMAIN Whole
      BY <1>1, <2>1 DEF ProjectInv, CompileInv
    <3> QED
      BY <3>1, <3>2 DEF Compilable
  <2>4. ASSUME StillDeclared PROVE BuiltBy(Whole)
    <3>1. PICK k \in Existing : disk[k] \in Named
      BY <2>4 DEF StillDeclared
    <3>2. k \in Declares(Whole)
      BY <3>1 DEF Declares, Whole
    <3> QED
      BY <1>1, <2>1, <3>2 DEF ProjectInv, CompileInv
  <2> QED
    BY <2>1, <2>2, <2>3, <2>4
<1> QED
  BY <1>2, <1>3 DEF ProjectInv

\* A record that is damaged is still listed.
LEMMA DamageProject == ASSUME ValidationInv, ProjectInv, Damage PROVE ProjectInv'
<1>1. TypeInv /\ Disturb /\ UNCHANGED <<artifact, compile>> /\ dir.status = "listed"
  BY DEF ValidationInv, Damage
<1>2. ~steady' /\ SteadyInv' /\ SettledInv'
  BY <1>1, Unsettled
<1>3. dir'.status = "listed" => DOMAIN dir'.files = DOMAIN dir.files
  <2>1. dir = [status |-> dir.status, files |-> dir.files]
    BY <1>1 DEF TypeInv
  <2>2. CASE dir' = [status |-> "absent", files |-> << >>]
    BY <2>2
  <2>3. CASE dir' = [dir EXCEPT !.status = "unreadable"]
    BY <2>1, <2>3
  <2>4. ASSUME NEW c, NEW r, dir' = [dir EXCEPT !.files[c] = r]
        PROVE  DOMAIN dir'.files = DOMAIN dir.files
    <3>1. dir' = [status |-> dir.status, files |-> [dir.files EXCEPT ![c] = r]]
      BY <2>1, <2>4
    <3>2. dir'.files = [dir.files EXCEPT ![c] = r]
      BY <3>1
    <3> QED
      BY <3>2
  <2> QED
    BY <2>2, <2>3, <2>4 DEF Damage
<1>4. CompileInv'
  BY <1>1, <1>2, <1>3 DEF ProjectInv, CompileInv, BuiltBy, Declares
<1> QED
  BY <1>2, <1>4 DEF ProjectInv

\* A new migration has no validation under way.
LEMMA NewRunProject == ASSUME ValidationInv, ProjectInv, NewRun PROVE ProjectInv'
<1>1. CompileInv' /\ SteadyInv'
  BY ProjectKept DEF ProjectInv, NewRun
<1>2. SettledInv'
  BY DEF NewRun, Idle, SettledInv
<1> QED
  BY <1>1, <1>2 DEF ProjectInv

\* The artifact of a settled project is of its record, which is sound.
LEMMA WholeIsBuilt ==
  ASSUME SteadyInv, steady, StillDeclared
  PROVE  /\ Whole \in DOMAIN dir.files /\ dir.files[Whole] = Sound
         /\ artifact.built = Whole /\ artifact.key \in Existing /\ Whole[artifact.key] \in Named
         /\ DOMAIN Whole = Existing
<1>1. BuiltBy(Whole) /\ DOMAIN Whole = Existing
  BY DEF SteadyInv, Whole
<1> QED
  BY <1>1 DEF SteadyInv, BuiltBy, Declares

\* What a validation is refused before it reads a source is what is due in a settled
\* project: two sources of one name, an artifact or a compiler too old.
LEMMA ResolveProject == ASSUME ValidationInv, ProjectInv, Resolve PROVE ProjectInv'
<1>1. UNCHANGED <<host, disk, dir, artifact, compile, steady>> /\ cached' = load
  BY DEF Resolve
<1>2. CompileInv' /\ SteadyInv' /\ SteadyInv
  BY <1>1, ProjectKept DEF ProjectInv
<1> DEFINE b == steady /\ cached = None
           first == [spec |-> load.key, imported |-> FALSE]
           refused(cause) == op' = [phase |-> "done", pending |-> << >>, sources |-> << >>,
                                    outcome |-> dispose(cause), settled |-> b]
           walking == op' = [phase |-> "walking", pending |-> <<first>>, sources |-> << >>,
                             outcome |-> None, settled |-> b]
<1>3. \/ load = None /\ refused("artifact-unresolved")
      \/ ambiguous /\ refused("artifact-name-ambiguous")
      \/ ~ambiguous /\ ~host.fields /\ refused("artifact-shape-unsupported")
      \/ ~ambiguous /\ host.fields /\ ~host.supported /\ refused("compiler-unsupported")
      \/ ~ambiguous /\ host.fields /\ host.supported /\ walking
  <2>1. CASE load = None
    BY <2>1 DEF Resolve, Idle
  <2>2. CASE load # None /\ ambiguous
    BY <2>2 DEF Resolve, Idle
  <2>3. CASE load # None /\ ~ambiguous /\ incomplete
    BY <2>3 DEF Resolve, Idle, incomplete
  <2>4. CASE load # None /\ ~ambiguous /\ ~incomplete /\ outOfRange
    BY <2>4 DEF Resolve, Idle, incomplete, outOfRange
  <2>5. CASE load # None /\ ~ambiguous /\ ~incomplete /\ ~outOfRange
    BY <2>5 DEF Resolve, Idle, incomplete, outOfRange
  <2> QED
    BY <2>1, <2>2, <2>3, <2>4, <2>5
<1>4. SettledInv'
  <2>1. op'.settled = b
    BY <1>3
  <2> SUFFICES ASSUME steady, cached = None
               PROVE  /\ cached' = artifact
                      /\ op'.phase = "walking" => WalksWhole'
                      /\ op'.phase = "done" => Exact'
    BY <1>1, <2>1 DEF SettledInv
  <2>2. cached' = artifact /\ load = artifact
    BY <1>1 DEF load
  <2>3. ASSUME NEW cause \in {"artifact-shape-unsupported", "compiler-unsupported"},
               ~ambiguous, refused(cause),
               cause = IF ~host.fields THEN "artifact-shape-unsupported" ELSE "compiler-unsupported",
               ~host.fields \/ ~host.supported
        PROVE  Exact'
    <3> SUFFICES ASSUME indexed, StillDeclared
                 PROVE  /\ ~(Cardinality({k \in Existing : disk[k] \in Named}) > 1)
                        /\ Whole \in Twins' /\ verdict' = Due(Whole)'
      BY <1>1, SameProject DEF Exact
    <3>1. ~(Cardinality({k \in Existing : disk[k] \in Named}) > 1)
      BY <1>2, <2>3, DeclaredSources
    <3>2. Whole \in DOMAIN dir.files /\ artifact.built = Whole
      BY <1>2, WholeIsBuilt
    <3>3. Whole \in Twins'
      BY <1>1, <2>2, <3>2, SameProject DEF Twins
    <3>4. op'.outcome = dispose(cause) /\ cause \in Causes
      BY <2>3 DEF Causes
    <3>5. verdict' = cause
      BY <3>4, Disposal DEF verdict
    <3>6. Due(Whole)' = cause
      BY <1>1, <2>3 DEF Due
    <3> QED
      BY <3>1, <3>3, <3>5, <3>6
  <2>4. CASE load = None /\ refused("artifact-unresolved")
    <3>1. cached' = None /\ op'.phase = "done"
      BY <1>1, <2>4
    <3> QED
      BY <2>2, <3>1 DEF Exact
  <2>5. CASE ambiguous /\ refused("artifact-name-ambiguous")
    <3>1. op'.outcome = dispose("artifact-name-ambiguous") /\ op'.phase = "done"
      BY <2>5
    <3>2. candidateSources # {cached'.key}
      <4>1. Cardinality({cached'.key}) = 1
        BY FS_Singleton
      <4>2. Cardinality(candidateSources) > 1
        BY <2>5 DEF ambiguous
      <4>3. ASSUME candidateSources = {cached'.key} PROVE FALSE
        <5>1. Cardinality(candidateSources) = 1
          BY <4>1, <4>3
        <5> QED
          BY <4>2, <5>1
      <4> QED
        BY <4>3
    <3>3. Exact'
      BY <1>1, <3>1, <3>2, SameProject DEF Exact
    <3> QED
      BY <2>2, <3>1, <3>3
  <2>6. CASE ~ambiguous /\ ~host.fields /\ refused("artifact-shape-unsupported")
    BY <2>2, <2>3, <2>6
  <2>7. CASE ~ambiguous /\ host.fields /\ ~host.supported /\ refused("compiler-unsupported")
    BY <2>2, <2>3, <2>7
  <2>8. CASE ~ambiguous /\ host.fields /\ host.supported /\ walking
    <3>1. /\ op'.phase = "walking" /\ op'.pending = <<first>> /\ op'.sources = << >>
          /\ DOMAIN op'.sources = {} /\ Len(op'.pending) = 1 /\ op'.pending[1].spec = load.key
      BY <2>8, NothingRead
    <3>2. StillDeclared => load.key \in Existing
      BY <1>2, <2>2, WholeIsBuilt
    <3>3. WalksWhole'
      BY <1>1, <2>8, <3>1, <3>2, SameProject DEF WalksWhole
    <3> QED
      BY <2>2, <3>1, <3>3
  <2> HIDE DEF refused, walking
  <2> QED
    BY <1>3, <2>4, <2>5, <2>6, <2>7, <2>8
<1> QED
  BY <1>2, <1>4 DEF ProjectInv

\* In a settled project nothing stops the walk: what a source imports exists.
LEMMA WalkProject == ASSUME ValidationInv, ProjectInv, Walk PROVE ProjectInv'
<1>1. /\ op.phase = "walking" /\ op.pending # << >>
      /\ UNCHANGED <<host, disk, dir, artifact, compile, cached, steady>>
  BY DEF Walk
<1>2. CompileInv' /\ SteadyInv' /\ SteadyInv /\ SettledInv
  BY <1>1, ProjectKept DEF ProjectInv
<1> DEFINE p == op.pending
<1>3. TypeInv /\ op \in OpShape /\ p \in Seq(Want)
  BY DEF ValidationInv, TypeInv, OpShape
<1>4. /\ 1 \in 1..Len(p) /\ next = p[1] /\ next \in Want /\ Tail(p) \in Seq(Want)
      /\ \A m \in 1..Len(Tail(p)) : m + 1 \in 1..Len(p) /\ Tail(p)[m] = p[m + 1]
  BY <1>1, <1>3, Shorter DEF next
<1>5. op'.settled = op.settled
  BY <1>3 DEF Walk, Done, OpShape
<1>6. SettledInv'
  <2> SUFFICES ASSUME op.settled
               PROVE  /\ op'.phase = "walking" => WalksWhole'
                      /\ op'.phase = "done" => Exact'
    BY <1>1, <1>2, <1>5 DEF SettledInv
  <2>1. steady /\ cached = artifact /\ WalksWhole
    BY <1>1, <1>2 DEF SettledInv
  <2>2. ASSUME StillDeclared, next.spec \notin DOMAIN op.sources
        PROVE  /\ unwalkable = None /\ next.spec \in Existing
               /\ \A n \in 1..Len(imports[disk[next.spec]]) : imports[disk[next.spec]][n] \in Existing
    <3>1. next.spec \in Existing
      BY <1>4, <2>1, <2>2 DEF WalksWhole
    <3>2. next.spec \in Key /\ disk[next.spec] \in Text
      BY <3>1 DEF Existing
    <3>3. \A n \in 1..Len(imports[disk[next.spec]]) : imports[disk[next.spec]][n] \in Existing
      BY <1>2, <2>1, <3>1 DEF SteadyInv, Compilable
    <3>4. ~hasNoKey(next.spec) /\ ~refusedImport(disk[next.spec])
      BY <3>2, <3>3, ImportsAssumption DEF hasNoKey, refusedImport, Existing
    <3>5. unwalkable = None
      BY <3>2, <3>4, FilesAssumption DEF unwalkable
    <3> QED
      BY <3>1, <3>3, <3>5
  <2>3. CASE next.spec \in DOMAIN op.sources
    <3>1. op' = [op EXCEPT !.pending = Tail(p)]
      BY <2>3 DEF Walk
    <3>2. op'.phase = "walking" /\ op'.pending = Tail(p) /\ op'.sources = op.sources
      BY <1>1, <1>3, <3>1 DEF OpShape
    <3>3. StillDeclared => \A m \in 1..Len(Tail(p)) : Tail(p)[m].spec \in Existing
      BY <1>4, <2>1 DEF WalksWhole
    <3> QED
      BY <1>1, <2>1, <3>2, <3>3, SameProject DEF WalksWhole
  <2>4. CASE next.spec \notin DOMAIN op.sources /\ unwalkable # None
    <3>1. ~StillDeclared
      BY <2>2, <2>4
    <3>2. op'.phase = "done"
      BY <1>3, <2>4 DEF Walk, Done, OpShape
    <3> QED
      BY <1>1, <3>1, <3>2, SameProject DEF Exact
  <2>5. CASE next.spec \notin DOMAIN op.sources /\ unwalkable = None
    <3> DEFINE s == [k \in DOMAIN op.sources \cup {next.spec} |->
                       IF k = next.spec THEN disk[k] ELSE op.sources[k]]
    <3>1. op' = [op EXCEPT !.sources = s, !.pending = Tail(p) \o importsOfNext]
      BY <2>5 DEF Walk
    <3>2. op'.phase = "walking" /\ op'.pending = Tail(p) \o importsOfNext /\ op'.sources = s
      BY <1>1, <1>3, <3>1 DEF OpShape
    <3>3. ASSUME StillDeclared
          PROVE  /\ \A i \in DOMAIN s : i \in Existing /\ s[i] = disk[i]
                 /\ \A m \in 1..Len(op'.pending) : op'.pending[m].spec \in Existing
      <4>1. \A i \in DOMAIN s : i \in Existing /\ s[i] = disk[i]
        BY <2>1, <2>2, <2>5, <3>3 DEF WalksWhole
      <4>2. /\ next.spec \in Key /\ disk[next.spec] \in Text
            /\ imports[disk[next.spec]] \in Seq(Key \cup {Outside})
        BY <1>3, <1>4, <2>5, Walkable DEF Want
      <4>3. /\ importsOfNext \in Seq(Want)
            /\ \A n \in 1..Len(importsOfNext) :
                 /\ n \in 1..Len(imports[disk[next.spec]])
                 /\ importsOfNext[n].spec = imports[disk[next.spec]][n]
        <5> DEFINE f == imports[disk[next.spec]]
        <5>1. Len(f) \in Nat /\ \A n \in 1..Len(f) : f[n] \in Key \cup {Outside}
          BY <4>2, ElementOfSeq
        <5>2. importsOfNext = [n \in 1..Len(f) |-> [spec |-> f[n], imported |-> TRUE]]
          BY DEF importsOfNext
        <5> HIDE DEF f
        <5>3. importsOfNext \in Seq(Want) /\ Len(importsOfNext) = Len(f)
          BY <5>1, <5>2 DEF Want
        <5> QED
          BY <5>1, <5>2, <5>3 DEF f
      <4>4. \A n \in 1..Len(importsOfNext) : importsOfNext[n].spec \in Existing
        BY <2>2, <2>5, <3>3, <4>3
      <4>5. \A m \in 1..Len(Tail(p)) : Tail(p)[m].spec \in Existing
        BY <1>4, <2>1, <3>3 DEF WalksWhole
      <4>6. \A m \in 1..Len(Tail(p) \o importsOfNext) :
              \/ \E n \in 1..Len(Tail(p)) : (Tail(p) \o importsOfNext)[m] = Tail(p)[n]
              \/ \E n \in 1..Len(importsOfNext) : (Tail(p) \o importsOfNext)[m] = importsOfNext[n]
        <5> DEFINE q == Tail(p)
                   r == importsOfNext
        <5>1. q \in Seq(Want) /\ r \in Seq(Want)
          BY <1>4, <4>3
        <5> HIDE DEF q, r
        <5>2. \A m \in 1..Len(q \o r) : \/ \E n \in 1..Len(q) : (q \o r)[m] = q[n]
                                        \/ \E n \in 1..Len(r) : (q \o r)[m] = r[n]
          BY ONLY <5>1, Appended
        <5> QED
          BY <5>2 DEF q, r
      <4>7. \A m \in 1..Len(op'.pending) : op'.pending[m].spec \in Existing
        <5> DEFINE q == Tail(p)
                   r == importsOfNext
        <5>1. op'.pending = q \o r
          BY <3>2
        <5> HIDE DEF q, r, s
        <5> SUFFICES ASSUME NEW m \in 1..Len(q \o r) PROVE (q \o r)[m].spec \in Existing
          BY <5>1
        <5>2. \/ \E n \in 1..Len(q) : (q \o r)[m] = q[n]
              \/ \E n \in 1..Len(r) : (q \o r)[m] = r[n]
          BY <4>6 DEF q, r
        <5> QED
          BY <4>4, <4>5, <5>2 DEF q, r
      <4> QED
        BY <4>1, <4>7
    <3> HIDE DEF s
    <3> QED
      BY <1>1, <2>1, <3>2, <3>3, SameProject DEF WalksWhole
  <2> QED
    BY <2>3, <2>4, <2>5
<1> QED
  BY <1>2, <1>6 DEF ProjectInv

\* In a settled project the record of all its sources can be used, unless its code or the
\* artifact's cannot be compared.
LEMMA WholeIsUsable ==
  ASSUME SteadyInv, steady, StillDeclared, cached = artifact, NEW closure, closure \subseteq Existing
  PROVE  /\ located(Whole)
         /\ \/ usable(Whole, closure)
            \/ cached.built[cached.key] \in Abstract
            \/ LinksOneOf(Corrupting, cached.built, cached.key)
<1>1. /\ Whole \in DOMAIN dir.files /\ dir.files[Whole] = Sound
      /\ cached.built = Whole /\ cached.key \in Existing /\ Whole[cached.key] \in Named
      /\ DOMAIN Whole = Existing
  BY WholeIsBuilt
<1>2. dir.files[Whole].output = "sound" /\ dir.files[Whole].pair = "sound"
  BY <1>1 DEF Sound
<1>3. located(Whole)
  BY <1>1, <1>2 DEF located
<1>4. projectBuildRecord(Whole, closure) /\ declaresTarget(Whole) /\ inputPairUsable(Whole)
  BY <1>1, <1>2 DEF projectBuildRecord, astSources, declaresTarget, inputPairUsable
<1>5. \/ verifyBuildRecordFreshness(Whole)
      \/ cached.built[cached.key] \in Abstract
      \/ LinksOneOf(Corrupting, cached.built, cached.key)
  BY <1>1 DEF verifyBuildRecordFreshness
<1> QED
  BY <1>3, <1>4, <1>5 DEF usable

\* The records say of a settled project what is due: its own is there to be used, and
\* any other that is used is of the artifact's code.
LEMMA ConsultProject == ASSUME ValidationInv, ProjectInv, Consult PROVE ProjectInv'
<1> DEFINE closure == DOMAIN op.sources
<1>1. /\ op.phase = "walking" /\ op.pending = << >>
      /\ UNCHANGED <<host, disk, dir, artifact, compile, cached, steady>>
  BY DEF Consult
<1>2. CompileInv' /\ SteadyInv' /\ SteadyInv /\ SettledInv
  BY <1>1, ProjectKept DEF ProjectInv
<1>3. /\ TypeInv /\ op \in OpShape /\ closure \in SUBSET Key
      /\ cached # None /\ cached \in Artifact /\ cached.key \in closure
  <2>1. TypeInv /\ op \in OpShape /\ op.sources \in Compiles
    BY DEF ValidationInv, TypeInv, OpShape
  <2>2. Busy
    BY <1>1 DEF Busy
  <2>3. cached # None /\ cached.key \in closure
    BY <1>1, <2>2 DEF ValidationInv, FromTarget
  <2> QED
    BY <2>1, <2>3, CompileFacts DEF TypeInv
<1>4. op'.settled = op.settled /\ op'.phase = "done"
  BY <1>3 DEF Consult, Done, OpShape
<1>5. ASSUME op.settled, indexed, StillDeclared
      PROVE  /\ ~(Cardinality({k \in Existing : disk[k] \in Named}) > 1)
             /\ \E c \in Twins : verdict' = Due(c)
  <2>1. /\ steady /\ cached = artifact /\ ~ambiguous /\ host.fields /\ host.supported
        /\ closure \subseteq Existing
    BY <1>1, <1>2, <1>5 DEF SettledInv, WalksWhole
  <2>2. ~(Cardinality({k \in Existing : disk[k] \in Named}) > 1)
    BY <1>2, <1>5, <2>1, DeclaredSources
  <2>3. Whole \in DOMAIN dir.files /\ cached.built = Whole
    BY <1>2, <1>5, <2>1, WholeIsBuilt
  <2>4. /\ located(Whole)
        /\ \/ usable(Whole, closure)
           \/ cached.built[cached.key] \in Abstract
           \/ LinksOneOf(Corrupting, cached.built, cached.key)
    BY <1>2, <1>5, <2>1, WholeIsUsable
  <2>5. readBuildInfo = "files"
    BY <1>5 DEF indexed
  <2>6. CASE \E c \in DOMAIN dir.files : usable(c, closure)
    <3>1. PICK c \in DOMAIN dir.files : usable(c, closure) /\ Done(freshArm(c, closure))
      BY <1>3, <2>5, <2>6 DEF Consult, cutPartition
    <3>2. op'.outcome = freshArm(c, closure)
      BY <1>3, <3>1 DEF Done, OpShape
    <3>3. /\ Code(c, cached.key) = Code(cached.built, cached.key)
          /\ cached.built[cached.key] \notin Abstract
          /\ ~LinksOneOf(Corrupting, cached.built, cached.key)
      BY <3>1 DEF usable, verifyBuildRecordFreshness
    <3>4. /\ freshArm(c, closure) \in {dispose("library-name-unsupported"), Proceed(c, closure)}
          /\ freshArm(c, closure) = dispose("library-name-unsupported") <=> libraryNameBand(c)
          /\ Proceed(c, closure).kind = "input"
      BY <1>3, <3>1, RecordGives
    <3>5. verdict' = IF libraryNameBand(c) THEN "library-name-unsupported" ELSE "input"
      <4>1. /\ dispose("library-name-unsupported").kind = "refused"
            /\ dispose("library-name-unsupported").cause = "library-name-unsupported"
        BY Disposal DEF Causes
      <4> QED
        BY <3>2, <3>4, <4>1 DEF verdict
    <3>6. Due(c) = IF libraryNameBand(c) THEN "library-name-unsupported" ELSE "input"
      BY <2>1, <3>3 DEF Due, libraryNameBand
    <3> QED
      BY <2>2, <3>1, <3>3, <3>5, <3>6 DEF Twins
  <2>7. CASE ~\E c \in DOMAIN dir.files : usable(c, closure)
    <3>1. Done(dispose("build-record-stale"))
      BY <1>3, <2>3, <2>4, <2>5, <2>7 DEF Consult, cutPartition
    <3>2. op'.outcome = dispose("build-record-stale")
      BY <1>3, <3>1 DEF Done, OpShape
    <3>3. verdict' = "build-record-stale"
      BY <3>2, Disposal DEF verdict, Causes
    <3>4. Due(Whole) = "build-record-stale"
      BY <2>1, <2>3, <2>4, <2>7 DEF Due
    <3>5. Whole \in Twins
      BY <2>3 DEF Twins
    <3> QED
      BY <2>2, <3>3, <3>4, <3>5
  <2> QED
    BY <2>6, <2>7
<1>6. Twins' = Twins /\ \A c : Due(c)' = Due(c)
  BY <1>1, SameProject DEF Twins, Due
<1>7. op.settled => Exact'
  BY <1>1, <1>5, <1>6, SameProject DEF Exact
<1>8. SettledInv'
  BY <1>1, <1>2, <1>4, <1>7 DEF SettledInv
<1> QED
  BY <1>2, <1>8 DEF ProjectInv

-----------------------------------------------------------------------------
(* The theorems *)

\* The invariant of the validation: its types, and what the walk has read and an input
\* was taken from (import-graph.ts:219, pipeline.ts:571).
THEOREM ValidationInvariant == Spec => []ValidationInv
<1>1. Init => ValidationInv
  BY InitValidation
<1>2. ValidationInv /\ [Next]_vars => ValidationInv'
  <2> SUFFICES ASSUME ValidationInv, [Next]_vars PROVE ValidationInv'
    OBVIOUS
  <2>1. CASE Resolve
    BY <2>1, ResolveStep
  <2>2. CASE Walk
    BY <2>2, WalkStep
  <2>3. CASE Consult
    BY <2>3, ConsultStep
  <2>4. CASE NewRun
    BY <2>4, NewRunStep
  <2>5. CASE \E k \in Key : Edit(k)
    BY <2>5, EditStep
  <2>6. CASE \E S \in SUBSET Existing : StartCompile(S)
    BY <2>6, StartCompileStep
  <2>7. CASE \E step \in {"open", "output", "pair"} : WriteRecord(step)
    BY <2>7, WriteRecordStep
  <2>8. CASE WriteArtifact
    BY <2>8, WriteArtifactStep
  <2>9. CASE EndCompile
    BY <2>9, EndCompileStep
  <2>10. CASE Damage
    BY <2>10, DamageStep
  <2>11. CASE UNCHANGED vars
    <3>1. FromTarget' /\ WalkOver' /\ Reached' /\ Covered' /\ InputOfRecord'
      BY <2>11, OpKept DEF vars
    <3>2. TypeInv'
      BY <2>11 DEF vars, ValidationInv, TypeInv
    <3> QED
      BY <3>1, <3>2 DEF ValidationInv
  <2> QED
    BY <2>1, <2>2, <2>3, <2>4, <2>5, <2>6, <2>7, <2>8, <2>9, <2>10, <2>11 DEF Next
<1> QED
  BY <1>1, <1>2, PTL DEF Spec

\* An outcome is an input or a refusal: no assertion of the pipeline ever fires
\* (pipeline.ts:345).
THEOREM ValidationTypes == Spec => []TypeOK
<1>1. ValidationInv => TypeOK
  BY DEF ValidationInv, TypeInv, TypeOK, OpShape, Artifact
<1> QED
  BY <1>1, ValidationInvariant, PTL

\* What is validated is the program that is deployed: the record's compiled code is the
\* loaded artifact's, with the metadata hash on from the same sources (identity.ts:145).
THEOREM ValidationJudgesTheDeployed == Spec => []ValidatesWhatDeploys
<1>1. ValidationInv => ValidatesWhatDeploys
  <2> SUFFICES ASSUME ValidationInv, HasInput PROVE ValidatesWhatDeploys
    BY DEF ValidatesWhatDeploys
  <2> DEFINE c == op.outcome.record
             d == cached.built
             k == cached.key
  <2>1. Code(c, k) = Code(d, k)
    BY DEF ValidationInv, InputOfRecord
  <2> HIDE DEF c, d, k
  <2>2. /\ ClosureOf(c, k) = ClosureOf(d, k)
        /\ \A j \in ClosureOf(d, k) : body[c[j]] = body[d[j]] /\ (host.metadata => c[j] = d[j])
    BY <2>1, SameCode
  <2> QED
    BY <2>2 DEF ValidatesWhatDeploys, c, d, k
<1> QED
  BY <1>1, ValidationInvariant, PTL

\* As long as the sources read are those compiled, the walk has read exactly what the
\* artifact's contract is compiled from.
LEMMA WalkIsTheClosure ==
  ASSUME ValidationInv, HasInput, Undrifted
  PROVE  ClosureOf(cached.built, cached.key) = DOMAIN op.sources
<1> DEFINE d == cached.built
           k == cached.key
           closure == DOMAIN op.sources
           leads(i) == {s \in DOMAIN d : \E n \in 1..Len(imports[d[i]]) : imports[d[i]][n] = s}
<1>1. Busy /\ op.pending = << >> /\ Len(op.pending) = 0 /\ k \in closure
  <2>1. Busy /\ op.pending = << >>
    BY DEF ValidationInv, WalkOver, Busy
  <2> QED
    BY <2>1 DEF ValidationInv, FromTarget
<1>2. closure \subseteq DOMAIN d /\ \A i \in closure : op.sources[i] = d[i]
  BY DEF Undrifted
<1>3. \A i \in closure : \A n \in 1..Len(imports[d[i]]) : imports[d[i]][n] \in closure
  <2>1. \A i \in closure : \A n \in 1..Len(imports[op.sources[i]]) :
          imports[op.sources[i]][n] \in closure
    BY <1>1 DEF ValidationInv, Covered
  <2> QED
    BY <1>2, <2>1
<1>4. ClosureOf(d, k) = {j \in DOMAIN d : \A S \in SUBSET DOMAIN d :
                           k \in S /\ (\A i \in S : leads(i) \subseteq S) => j \in S}
  BY DEF ClosureOf
<1>5. ASSUME NEW j \in ClosureOf(d, k) PROVE j \in closure
  <2>1. \A i \in closure : leads(i) \subseteq closure
    BY <1>3
  <2> HIDE DEF leads
  <2> QED
    BY <1>1, <1>2, <1>4, <2>1
<1>6. ASSUME NEW j \in closure PROVE j \in ClosureOf(d, k)
  <2>1. ASSUME NEW S \in SUBSET DOMAIN d, k \in S, \A i \in S : leads(i) \subseteq S
        PROVE  j \in S
    <3> DEFINE T == S \cap closure
    <3>1. T \in SUBSET (Key \cup {Outside}) /\ k \in T
      <4>1. op.sources \in Compiles
        BY DEF ValidationInv, TypeInv, OpShape
      <4>2. closure \in SUBSET Key
        BY <4>1, CompileFacts
      <4> QED
        BY <1>1, <2>1, <4>2
    <3>2. ASSUME NEW i \in T, NEW n \in 1..Len(imports[op.sources[i]])
          PROVE  imports[op.sources[i]][n] \in T
      <4>1. op.sources[i] = d[i] /\ imports[d[i]][n] \in closure
        BY <1>2, <1>3
      <4>2. imports[d[i]][n] \in leads(i)
        BY <1>2, <4>1
      <4> QED
        BY <2>1, <4>1, <4>2
    <3> HIDE DEF T
    <3>3. closure \subseteq T
      BY <1>1, <3>1, <3>2 DEF ValidationInv, Reached
    <3> QED
      BY <3>3 DEF T
  <2> HIDE DEF leads
  <2> QED
    BY <1>2, <1>4, <2>1
<1> QED
  BY <1>5, <1>6

\* Each AST of an input has its own text beside it, and while the sources read are
\* those compiled there is one of each source the contract is compiled from, with its
\* namespaces stated (pipeline.ts:100).
THEOREM ValidationOutputSelfContained == Spec => []OutputIsSelfContained
<1>1. ValidationInv => OutputIsSelfContained
  <2> SUFFICES ASSUME ValidationInv, HasInput PROVE OutputIsSelfContained
    BY DEF OutputIsSelfContained
  <2> DEFINE out == op.outcome
             c == out.record
             closure == DOMAIN op.sources
             compiled == ClosureOf(cached.built, cached.key)
  <2>1. /\ closure \subseteq DOMAIN c /\ out.asts = [k \in closure |-> c[k]] /\ out.texts = c
        /\ out.notes = stateNamespaceShortfall(c, closure)
    BY DEF ValidationInv, InputOfRecord
  <2>2. \A k \in DOMAIN out.asts : k \in DOMAIN out.texts /\ out.asts[k] = out.texts[k]
    BY <2>1
  <2>3. ASSUME Undrifted
        PROVE  /\ compiled = DOMAIN out.asts
               /\ ("namespaced-ast-only" \in out.notes)
                    <=> \E k \in compiled : c[k] \in Namespaced
    <3>1. compiled = closure /\ DOMAIN out.asts = closure
      BY <2>1, <2>3, WalkIsTheClosure
    <3>2. ("namespaced-ast-only" \in out.notes) <=> \E k \in closure : c[k] \in Namespaced
      BY <2>1 DEF stateNamespaceShortfall, declaresNamespacedStorage
    <3> QED
      BY <3>1, <3>2
  <2> QED
    BY <2>2, <2>3 DEF OutputIsSelfContained
<1> QED
  BY <1>1, ValidationInvariant, PTL

\* What a compile leaves to be written, what makes a project settled, and what a
\* validation that began in one has come to (artifacts.ts:239, pipeline.ts:678).
THEOREM ProjectInvariant == Spec => []ProjectInv
<1>1. Init => ProjectInv
  BY InitProject
<1>2. ValidationInv /\ ProjectInv /\ [Next]_vars => ProjectInv'
  <2> SUFFICES ASSUME ValidationInv, ProjectInv, [Next]_vars PROVE ProjectInv'
    OBVIOUS
  <2>1. CASE Resolve
    BY <2>1, ResolveProject
  <2>2. CASE Walk
    BY <2>2, WalkProject
  <2>3. CASE Consult
    BY <2>3, ConsultProject
  <2>4. CASE NewRun
    BY <2>4, NewRunProject
  <2>5. CASE \E k \in Key : Edit(k)
    BY <2>5, EditProject
  <2>6. CASE \E S \in SUBSET Existing : StartCompile(S)
    BY <2>6, StartCompileProject
  <2>7. CASE \E step \in {"open", "output", "pair"} : WriteRecord(step)
    BY <2>7, WriteRecordProject
  <2>8. CASE WriteArtifact
    BY <2>8, WriteArtifactProject
  <2>9. CASE EndCompile
    BY <2>9, EndCompileProject
  <2>10. CASE Damage
    BY <2>10, DamageProject
  <2>11. CASE UNCHANGED vars
    <3>1. CompileInv' /\ SteadyInv'
      BY <2>11, ProjectKept DEF ProjectInv, vars
    <3>2. /\ UNCHANGED <<host, disk, dir>> /\ cached' = cached /\ op' = op
          /\ artifact' = artifact /\ steady' = steady
      BY <2>11 DEF vars
    <3>3. Twins' = Twins /\ verdict' = verdict /\ \A c : Due(c)' = Due(c)
      BY <3>2, SameProject DEF Twins, Due, verdict
    <3>4. Exact' = Exact /\ WalksWhole' = WalksWhole
      BY <3>2, <3>3, SameProject DEF Exact, WalksWhole
    <3>5. SettledInv'
      BY <3>2, <3>4 DEF ProjectInv, SettledInv
    <3> QED
      BY <3>1, <3>5 DEF ProjectInv
  <2> QED
    BY <2>1, <2>2, <2>3, <2>4, <2>5, <2>6, <2>7, <2>8, <2>9, <2>10, <2>11 DEF Next
<1> QED
  BY <1>1, <1>2, ValidationInvariant, PTL DEF Spec

\* Right after a complete compile every validation ends in what is due: its input, or the
\* refusal that names its own trouble, whatever else lies in the directory
\* (pipeline.ts:678, ambiguity.ts:370).
THEOREM ValidationJudgesExactly == Spec => []SettledProjectsAreJudgedExactly
<1>1. TypeOK /\ ProjectInv => SettledProjectsAreJudgedExactly
  BY DEF ProjectInv, SettledInv, Exact, SettledProjectsAreJudgedExactly
<1> QED
  BY <1>1, ProjectInvariant, ValidationTypes, PTL

\* With the metadata hash on, an older record with the artifact's code cannot make it
\* judged by other library names than its own (identity.ts:61).
THEOREM ValidationJudgesItsOwn == Spec => []JudgedByItsOwn
<1>1. ProjectInv => JudgedByItsOwn
  <2> SUFFICES ASSUME ProjectInv, op.phase = "done", op.settled, cached # None, indexed, StillDeclared,
                      host.metadata, candidateSources = {cached.key}
               PROVE  verdict = Due(cached.built)
    BY DEF JudgedByItsOwn
  <2>1. SteadyInv /\ steady /\ Exact
    BY DEF ProjectInv, SettledInv
  <2>2. ~ambiguous
    <3>1. Cardinality({cached.key}) = 1
      BY FS_Singleton
    <3>2. ~(Cardinality(candidateSources) > 1)
      BY <3>1
    <3> QED
      BY <3>2 DEF ambiguous
  <2>3. ~(Cardinality({k \in Existing : disk[k] \in Named}) > 1)
    BY <2>1, <2>2, DeclaredSources
  <2>4. PICK c \in Twins : verdict = Due(c)
    BY <2>1, <2>3 DEF Exact
  <2>5. /\ ClosureOf(c, cached.key) = ClosureOf(cached.built, cached.key)
        /\ \A j \in ClosureOf(cached.built, cached.key) : c[j] = cached.built[j]
    BY SameCode DEF Twins
  <2>6. \A S : LinksOneOf(S, c, cached.key) = LinksOneOf(S, cached.built, cached.key)
    BY <2>5 DEF LinksOneOf
  <2> QED
    BY <2>4, <2>6 DEF Due
<1> QED
  BY <1>1, ProjectInvariant, PTL
==============================================================================
