----------------------- MODULE HardhatOperationsProofs -----------------------
(***************************************************************************)
(* Proofs about HardhatOperations, for any contracts, any number of calls  *)
(* that overlap at every leg and any number of dead processes: nothing is  *)
(* lost from the manifest, because a section writes what it read under its *)
(* lock, and what a call has read without the lock it may rely on, because *)
(* it is of the things that never change back.                             *)
(***************************************************************************)
EXTENDS HardhatOperations, SequenceTheorems, TLAPS

-----------------------------------------------------------------------------
(* The legs a call still has ahead of it *)

\* The legs that end a section of the manifest, and all that run inside one.
Writing == {"rewrite", "fetch", "record", "recordImpl", "remove"}
Holding == Writing \cup {"deploy", "store"}
Storing == {"fetch", "deploy", "store"}

\* The order of the code; the legs every operation repeats are left out of it.
Stage(l) ==
  CASE l \in {"kind", "lookup"} -> 1
    [] l \in {"check", "inspect"} -> 2
    [] l \in {"fetch", "deploy", "store", "mine", "remove"} -> 3
    [] l \in {"recordImpl", "create", "send"} -> 4
    [] l = "verify" -> 5
    [] l \in {"record?", "record"} -> 6
    [] OTHER -> 0
Before(l, m) == Stage(l) # 0 /\ Stage(m) # 0 => Stage(l) <= Stage(m)

\* A section is entered where it is needed and nowhere else; what the engine does inside
\* one is never ahead of another leg; a record is looked up in a file that was looked over.
WellFormed(s) ==
  /\ \A k \in DOMAIN s : s[k] = "enter" => k + 1 \in DOMAIN s /\ s[k + 1] \in Writing
  /\ \A k \in DOMAIN s : k > 1 =>
       /\ s[k] \in Writing => s[k - 1] = "enter"
       /\ s[k] \notin {"deploy", "store"}
       /\ s[k] = "lookup" => s[k - 1] \in {"scan", "rewrite"}
  /\ \A j, k \in DOMAIN s : j < k => Before(s[j], s[k])

\* What a leg may put in front of the rest.
Detours(leg) ==
  CASE leg = "scan" -> {<< >>, <<"enter", "rewrite">>}
    [] leg = "fetch" -> {<< >>, <<"mine">>, <<"deploy">>}
    [] leg = "deploy" -> {<<"store", "mine">>}
    [] leg = "mine" -> {<< >>, <<"enter", "remove">>}
    [] leg = "remove" -> {<<"enter", "fetch">>}
    [] leg = "record?" -> {<< >>, <<"enter", "record">>}
    [] OTHER -> {<< >>}

\* The sequence with its head replaced, by its places.
LEMMA Replaced ==
  ASSUME NEW s \in Seq(Leg), s # << >>, NEW more \in Seq(Leg), Len(more) \in 0..2
  PROVE  LET d == more \o Tail(s)
             n == Len(more)
         IN  /\ d \in Seq(Leg)
             /\ Len(s) \in Nat /\ Len(s) >= 1 /\ Len(d) = Len(s) + n - 1
             /\ DOMAIN s = 1..Len(s) /\ DOMAIN d = 1..(Len(s) + n - 1)
             /\ \A k \in 1..n : d[k] = more[k]
             /\ \A k \in (n + 1)..(Len(s) + n - 1) : d[k] = s[k - n + 1]
             /\ Elements(d) \subseteq Elements(s) \cup Elements(more)
             /\ Elements(s) \subseteq Elements(d) \cup {Head(s)}
             /\ Elements(more) \subseteq Elements(d)
             /\ Head(s) = s[1]
<1> DEFINE d == more \o Tail(s)
           n == Len(more)
<1>1. /\ Tail(s) \in Seq(Leg) /\ Len(Tail(s)) = Len(s) - 1 /\ Len(s) \in Nat /\ Len(s) >= 1 /\ n \in Nat
      /\ Head(s) = s[1] /\ \A k \in 1..(Len(s) - 1) : Tail(s)[k] = s[k + 1]
  BY HeadTailProperties, EmptySeq, LenProperties
<1>2. d \in Seq(Leg) /\ Len(d) = Len(s) + n - 1
  BY <1>1, ConcatProperties
<1>3. DOMAIN s = 1..Len(s) /\ DOMAIN d = 1..(Len(s) + n - 1) /\ DOMAIN more = 1..n
  BY <1>1, <1>2, LenProperties
<1>4. \A k \in 1..n : d[k] = more[k]
  BY <1>1, ConcatProperties
<1>5. ASSUME NEW k \in (n + 1)..(Len(s) + n - 1) PROVE d[k] = s[k - n + 1]
  <2>1. d[k] = Tail(s)[k - n]
    BY <1>1, ConcatProperties
  <2>2. k - n \in 1..(Len(s) - 1) /\ (k - n) + 1 = k - n + 1
    BY <1>1
  <2> QED
    BY <1>1, <2>1, <2>2
<1>6. Elements(d) \subseteq Elements(s) \cup Elements(more)
  <2> SUFFICES ASSUME NEW k \in DOMAIN d PROVE d[k] \in Elements(s) \cup Elements(more)
    BY DEF Elements
  <2>1. CASE k \in 1..n
    BY <1>3, <1>4, <2>1 DEF Elements
  <2>2. CASE k \in (n + 1)..(Len(s) + n - 1)
    <3>1. k - n + 1 \in DOMAIN s
      BY <1>1, <1>3, <2>2
    <3> QED
      BY <1>5, <2>2, <3>1 DEF Elements
  <2> QED
    BY <1>1, <1>3, <2>1, <2>2
<1>7. Elements(more) \subseteq Elements(d)
  <2> SUFFICES ASSUME NEW k \in DOMAIN more PROVE more[k] \in Elements(d)
    BY DEF Elements
  <2>1. k \in DOMAIN d /\ d[k] = more[k]
    BY <1>1, <1>3, <1>4
  <2> QED
    BY <2>1 DEF Elements
<1>8. Elements(s) \subseteq Elements(d) \cup {Head(s)}
  <2> SUFFICES ASSUME NEW k \in DOMAIN s, k # 1 PROVE s[k] \in Elements(d)
    BY <1>1 DEF Elements
  <2>1. k + n - 1 \in (n + 1)..(Len(s) + n - 1) /\ (k + n - 1) - n + 1 = k
    BY <1>1, <1>3
  <2>2. k + n - 1 \in DOMAIN d /\ d[k + n - 1] = s[k]
    BY <1>1, <1>3, <1>5, <2>1
  <2> QED
    BY <2>2 DEF Elements
<1> QED
  BY <1>1, <1>2, <1>3, <1>4, <1>5, <1>6, <1>7, <1>8

\* The detours are short, and go through no leg that is out of order.
LEMMA DetourFacts ==
  ASSUME NEW leg \in Leg, NEW more \in Detours(leg)
  PROVE  /\ more \in Seq(Leg) /\ Len(more) \in 0..2
         /\ Len(more) = 1 => more[1] \in {"mine", "deploy"} /\ leg = "fetch"
         /\ Len(more) = 2 =>
              \/ leg = "scan" /\ more[1] = "enter" /\ more[2] = "rewrite"
              \/ leg = "deploy" /\ more[1] = "store" /\ more[2] = "mine"
              \/ leg = "mine" /\ more[1] = "enter" /\ more[2] = "remove"
              \/ leg = "remove" /\ more[1] = "enter" /\ more[2] = "fetch"
              \/ leg = "record?" /\ more[1] = "enter" /\ more[2] = "record"
         /\ Elements(more) \subseteq
              CASE leg = "scan" -> {"enter", "rewrite"}
                [] leg \in {"fetch", "deploy", "mine", "remove"} ->
                     {"enter", "fetch", "deploy", "store", "mine", "remove"}
                [] leg = "record?" -> {"enter", "record"}
                [] OTHER -> {}
         /\ leg = "deploy" => "store" \in Elements(more)
         /\ leg = "remove" => "fetch" \in Elements(more)
         /\ leg \notin {"scan", "fetch", "deploy", "mine", "remove", "record?"} => more = << >>
<1>1. leg \in {"scan", "enter", "rewrite", "fetch", "deploy", "store", "mine", "remove", "kind", "lookup",
        "check", "create", "record", "send", "verify", "record?", "inspect", "recordImpl"}
  BY DEF Leg
<1>2. CASE more = << >>
  BY <1>2 DEF Detours, Elements
<1>3. CASE more = <<"enter", "rewrite">> /\ leg = "scan"
  BY <1>3 DEF Elements, Leg
<1>4. CASE more = <<"mine">> /\ leg = "fetch"
  BY <1>4 DEF Elements, Leg
<1>5. CASE more = <<"deploy">> /\ leg = "fetch"
  BY <1>5 DEF Elements, Leg
<1>6. CASE more = <<"store", "mine">> /\ leg = "deploy"
  BY <1>6 DEF Elements, Leg
<1>7. CASE more = <<"enter", "remove">> /\ leg = "mine"
  BY <1>7 DEF Elements, Leg
<1>8. CASE more = <<"enter", "fetch">> /\ leg = "remove"
  BY <1>8 DEF Elements, Leg
<1>9. CASE more = <<"enter", "record">> /\ leg = "record?"
  BY <1>9 DEF Elements, Leg
<1> QED
  BY <1>2, <1>3, <1>4, <1>5, <1>6, <1>7, <1>8, <1>9 DEF Detours

\* What is ahead keeps its form when a leg is done.
LEMMA StaysWellFormed ==
  ASSUME NEW s \in Seq(Leg), s # << >>, WellFormed(s), NEW more \in Detours(Head(s))
  PROVE  WellFormed(more \o Tail(s))
<1> DEFINE d == more \o Tail(s)
           n == Len(more)
<1>0. Head(s) = s[1] /\ Head(s) \in Leg
  BY HeadTailProperties, EmptySeq
<1>1. /\ more \in Seq(Leg) /\ n \in 0..2
      /\ n = 1 => more[1] \in {"mine", "deploy"} /\ s[1] = "fetch"
      /\ n = 2 => \/ s[1] = "scan" /\ more[1] = "enter" /\ more[2] = "rewrite"
                  \/ s[1] = "deploy" /\ more[1] = "store" /\ more[2] = "mine"
                  \/ s[1] = "mine" /\ more[1] = "enter" /\ more[2] = "remove"
                  \/ s[1] = "remove" /\ more[1] = "enter" /\ more[2] = "fetch"
                  \/ s[1] = "record?" /\ more[1] = "enter" /\ more[2] = "record"
  BY <1>0, DetourFacts
<1>2. /\ Len(s) \in Nat /\ Len(s) >= 1 /\ DOMAIN s = 1..Len(s) /\ DOMAIN d = 1..(Len(s) + n - 1)
      /\ \A k \in 1..n : d[k] = more[k]
      /\ \A k \in (n + 1)..(Len(s) + n - 1) : d[k] = s[k - n + 1]
  BY <1>1, Replaced
<1>3. \A k \in (n + 1)..(Len(s) + n - 1) : k - n + 1 \in DOMAIN s /\ k - n + 1 > 1 /\ d[k] = s[k - n + 1]
  BY <1>1, <1>2
<1> HIDE DEF d, n
<1>4. ASSUME NEW k \in DOMAIN d, d[k] = "enter" PROVE k + 1 \in DOMAIN d /\ d[k + 1] \in Writing
  <2>1. CASE k \in 1..n
    BY <1>1, <1>2, <1>4, <2>1 DEF Writing
  <2>2. CASE k \in (n + 1)..(Len(s) + n - 1)
    <3>1. PICK m \in DOMAIN s : m = k - n + 1 /\ s[m] = "enter"
      BY <1>3, <1>4, <2>2
    <3>2. m + 1 \in DOMAIN s /\ s[m + 1] \in Writing
      BY <3>1 DEF WellFormed
    <3>3. m \in Int /\ n \in Nat /\ k \in Int /\ m + 1 <= Len(s) /\ Len(s) \in Int /\ k >= n + 1
      BY <1>1, <1>2, <2>2, <3>2
    <3>4. k + 1 \in (n + 1)..(Len(s) + n - 1) /\ (k + 1) - n + 1 = m + 1
      BY <3>1, <3>3
    <3>5. d[k + 1] = s[m + 1]
      BY <1>2, <3>4
    <3>6. k + 1 \in 1..(Len(s) + n - 1)
      BY <3>3, <3>4
    <3>7. k + 1 \in DOMAIN d
      BY <1>2, <3>6
    <3> QED
      BY <3>2, <3>5, <3>7
  <2> QED
    BY <1>1, <1>2, <2>1, <2>2
<1>5. ASSUME NEW k \in DOMAIN d, k > 1
      PROVE  /\ d[k] \in Writing => d[k - 1] = "enter"
             /\ d[k] \notin {"deploy", "store"}
             /\ d[k] = "lookup" => d[k - 1] \in {"scan", "rewrite"}
  <2>1. CASE k \in 1..n
    <3>1. n = 2 /\ k = 2 /\ d[1] = more[1] /\ d[2] = more[2]
      BY <1>1, <1>2, <1>5, <2>1
    <3> QED
      BY <1>1, <3>1 DEF Writing
  <2>2. CASE k \in (n + 1)..(Len(s) + n - 1)
    <3>1. PICK m \in DOMAIN s : m = k - n + 1 /\ m > 1 /\ s[m] = d[k]
      BY <1>3, <2>2
    <3>2. /\ s[m] \in Writing => s[m - 1] = "enter"
          /\ s[m] \notin {"deploy", "store"}
          /\ s[m] = "lookup" => s[m - 1] \in {"scan", "rewrite"}
      BY <3>1 DEF WellFormed
    <3>3. CASE m > 2
      <4>1. k - 1 \in (n + 1)..(Len(s) + n - 1) /\ (k - 1) - n + 1 = m - 1
        BY <1>1, <1>2, <2>2, <3>1, <3>3
      <4>2. d[k - 1] = s[m - 1]
        BY <1>3, <4>1
      <4> QED
        BY <3>1, <3>2, <4>2
    <3>4. CASE m = 2
      <4>1. m - 1 = 1 /\ k = n + 1 /\ n \in {1, 2}
        BY <1>1, <1>2, <1>5, <3>1, <3>4
      <4>2. s[1] \in {"scan", "fetch", "deploy", "mine", "remove", "record?"}
        BY <1>1, <4>1
      <4>3. s[m] \notin Writing
        BY <3>2, <4>1, <4>2
      <4>4. s[m] = "lookup" => n = 2 /\ more[2] = "rewrite"
        BY <1>1, <3>2, <4>1
      <4>5. s[m] = "lookup" => d[k - 1] = "rewrite"
        BY <1>2, <4>1, <4>4
      <4> QED
        BY <3>1, <3>2, <4>3, <4>5
    <3> QED
      BY <1>2, <3>1, <3>3, <3>4
  <2> QED
    BY <1>1, <1>2, <2>1, <2>2
<1>6. ASSUME NEW j \in DOMAIN d, NEW k \in DOMAIN d, j < k PROVE Before(d[j], d[k])
  <2>0. 1 \in DOMAIN s
    BY <1>2
  <2>1. CASE j \in (n + 1)..(Len(s) + n - 1)
    <3>1. k \in (n + 1)..(Len(s) + n - 1)
      BY <1>1, <1>2, <1>6, <2>1
    <3>2. PICK l \in DOMAIN s : l = j - n + 1 /\ d[j] = s[l]
      BY <1>3, <2>1
    <3>3. PICK m \in DOMAIN s : m = k - n + 1 /\ d[k] = s[m]
      BY <1>3, <3>1
    <3>4. l < m
      BY <1>1, <1>2, <1>6, <3>2, <3>3
    <3> QED
      BY <3>2, <3>3, <3>4 DEF WellFormed
  <2>2. CASE j \in 1..n /\ k \in (n + 1)..(Len(s) + n - 1)
    <3>1. PICK m \in DOMAIN s : m = k - n + 1 /\ m > 1 /\ s[m] = d[k]
      BY <1>3, <2>2
    <3>2. Before(s[1], s[m])
      BY <2>0, <3>1 DEF WellFormed
    <3>3. d[j] = more[j] /\ (j = 1 \/ j = 2)
      BY <1>1, <1>2, <2>2
    <3>4. Stage(more[j]) = 0 \/ Stage(more[j]) = Stage(s[1])
      <4>1. /\ Stage("enter") = 0 /\ Stage("rewrite") = 0 /\ Stage("record?") = 6 /\ Stage("record") = 6
            /\ \A l \in {"fetch", "deploy", "store", "mine", "remove"} : Stage(l) = 3
        BY DEF Stage
      <4>2. CASE j = 1
        BY <1>1, <2>2, <4>1, <4>2
      <4>3. CASE j = 2
        BY <1>1, <2>2, <4>1, <4>3
      <4> QED
        BY <3>3, <4>2, <4>3
    <3> QED
      BY <3>1, <3>2, <3>3, <3>4 DEF Before
  <2>3. CASE j \in 1..n /\ k \in 1..n
    <3>1. n = 2 /\ j = 1 /\ k = 2 /\ d[1] = more[1] /\ d[2] = more[2]
      BY <1>1, <1>2, <1>6, <2>3
    <3> QED
      BY <1>1, <3>1 DEF Before, Stage
  <2> QED
    BY <1>1, <1>2, <2>1, <2>2, <2>3
<1>7. \A j, k \in DOMAIN d : j < k => Before(d[j], d[k])
  BY <1>6
<1> QED
  BY <1>4, <1>5, <1>7 DEF WellFormed, d

\* The operations a leg belongs to.
Deploying == {"deployProxy", "deployBeacon", "deployImplementation"}
Fetching == Operation \ {"deployBeaconProxy", "validateUpgrade", "forceImport"}
Owners(l) ==
  CASE l = "kind" -> {"deployProxy"}
    [] l = "lookup" -> {"upgradeProxy", "prepareUpgrade", "validateUpgrade"}
    [] l = "check" -> {"upgradeProxy", "prepareUpgrade", "validateUpgrade", "upgradeBeacon"}
    [] l \in {"fetch", "deploy", "store", "mine", "remove"} -> Fetching
    [] l = "create" -> {"deployProxy", "deployBeacon", "deployBeaconProxy"}
    [] l \in {"send", "verify"} -> {"upgradeProxy", "upgradeBeacon"}
    [] l \in {"inspect", "recordImpl"} -> {"forceImport"}
    [] l = "record?" -> {"upgradeProxy", "forceImport"}
    [] l = "record" -> {"deployProxy", "deployBeaconProxy", "upgradeProxy", "forceImport"}
    [] OTHER -> Operation

Ahead(name, s) ==
  s \in Seq(Leg) /\ s # << >> /\ WellFormed(s) /\ \A l \in Elements(s) : name \in Owners(l)

\* A new call begins by looking the manifest over, with every leg it is known by ahead.
LEMMA Pipelines ==
  ASSUME NEW n \in Operation
  PROVE  LET s == Pipeline[n]
             legs == Elements(s)
         IN  /\ Ahead(n, s) /\ Head(s) = "scan" /\ "store" \notin legs
             /\ n \in Fetching => "fetch" \in legs
             /\ n = "deployProxy" => {"kind", "create"} \subseteq legs
             /\ n = "deployBeaconProxy" => "create" \in legs
             /\ n = "upgradeProxy" => {"lookup", "send"} \subseteq legs
             /\ n = "upgradeBeacon" => "check" \in legs
             /\ n = "forceImport" => {"inspect", "recordImpl"} \subseteq legs /\ "record" \notin legs
<1>1. Operation = {"deployProxy", "upgradeProxy", "deployBeacon", "deployBeaconProxy", "upgradeBeacon",
                   "deployImplementation", "prepareUpgrade", "validateUpgrade", "forceImport"}
  BY DEF Operation, Pipeline
<1>2. CASE n = "deployProxy"
  <2>1. Pipeline[n] = <<"scan", "kind", "scan", "enter", "fetch", "create", "enter", "record">>
    BY <1>2 DEF Pipeline
  <2>2. Elements(Pipeline[n]) = {"scan", "kind", "enter", "fetch", "create", "record"}
    BY <2>1 DEF Elements
  <2>3. Pipeline[n] \in Seq(Leg) /\ Head(Pipeline[n]) = "scan" /\ Pipeline[n] # << >>
    BY <2>1 DEF Leg
  <2>4. WellFormed(Pipeline[n])
    BY <2>1 DEF WellFormed, Before, Stage, Writing
  <2> QED
    BY <1>1, <1>2, <2>2, <2>3, <2>4 DEF Ahead, Owners, Fetching
<1>3. CASE n = "upgradeProxy"
  <2>1. Pipeline[n] = <<"scan", "lookup", "check", "scan", "enter", "fetch", "send", "verify", "record?">>
    BY <1>3 DEF Pipeline
  <2>2. Elements(Pipeline[n]) = {"scan", "lookup", "check", "enter", "fetch", "send", "verify", "record?"}
    BY <2>1 DEF Elements
  <2>3. Pipeline[n] \in Seq(Leg) /\ Head(Pipeline[n]) = "scan" /\ Pipeline[n] # << >>
    BY <2>1 DEF Leg
  <2>4. WellFormed(Pipeline[n])
    BY <2>1 DEF WellFormed, Before, Stage, Writing
  <2> QED
    BY <1>1, <1>3, <2>2, <2>3, <2>4 DEF Ahead, Owners, Fetching
<1>4. CASE n = "deployBeacon"
  <2>1. Pipeline[n] = <<"scan", "scan", "enter", "fetch", "create">>
    BY <1>4 DEF Pipeline
  <2>2. Elements(Pipeline[n]) = {"scan", "enter", "fetch", "create"}
    BY <2>1 DEF Elements
  <2>3. Pipeline[n] \in Seq(Leg) /\ Head(Pipeline[n]) = "scan" /\ Pipeline[n] # << >>
    BY <2>1 DEF Leg
  <2>4. WellFormed(Pipeline[n])
    BY <2>1 DEF WellFormed, Before, Stage, Writing
  <2> QED
    BY <1>1, <1>4, <2>2, <2>3, <2>4 DEF Ahead, Owners, Fetching
<1>5. CASE n = "deployBeaconProxy"
  <2>1. Pipeline[n] = <<"scan", "create", "enter", "record">>
    BY <1>5 DEF Pipeline
  <2>2. Elements(Pipeline[n]) = {"scan", "create", "enter", "record"}
    BY <2>1 DEF Elements
  <2>3. Pipeline[n] \in Seq(Leg) /\ Head(Pipeline[n]) = "scan" /\ Pipeline[n] # << >>
    BY <2>1 DEF Leg
  <2>4. WellFormed(Pipeline[n])
    BY <2>1 DEF WellFormed, Before, Stage, Writing
  <2> QED
    BY <1>1, <1>5, <2>2, <2>3, <2>4 DEF Ahead, Owners, Fetching
<1>6. CASE n = "upgradeBeacon"
  <2>1. Pipeline[n] = <<"scan", "check", "scan", "enter", "fetch", "send", "verify">>
    BY <1>6 DEF Pipeline
  <2>2. Elements(Pipeline[n]) = {"scan", "check", "enter", "fetch", "send", "verify"}
    BY <2>1 DEF Elements
  <2>3. Pipeline[n] \in Seq(Leg) /\ Head(Pipeline[n]) = "scan" /\ Pipeline[n] # << >>
    BY <2>1 DEF Leg
  <2>4. WellFormed(Pipeline[n])
    BY <2>1 DEF WellFormed, Before, Stage, Writing
  <2> QED
    BY <1>1, <1>6, <2>2, <2>3, <2>4 DEF Ahead, Owners, Fetching
<1>7. CASE n = "deployImplementation"
  <2>1. Pipeline[n] = <<"scan", "enter", "fetch">>
    BY <1>7 DEF Pipeline
  <2>2. Elements(Pipeline[n]) = {"scan", "enter", "fetch"}
    BY <2>1 DEF Elements
  <2>3. Pipeline[n] \in Seq(Leg) /\ Head(Pipeline[n]) = "scan" /\ Pipeline[n] # << >>
    BY <2>1 DEF Leg
  <2>4. WellFormed(Pipeline[n])
    BY <2>1 DEF WellFormed, Before, Stage, Writing
  <2> QED
    BY <1>1, <1>7, <2>2, <2>3, <2>4 DEF Ahead, Owners, Fetching
<1>8. CASE n = "prepareUpgrade"
  <2>1. Pipeline[n] = <<"scan", "lookup", "check", "scan", "enter", "fetch">>
    BY <1>8 DEF Pipeline
  <2>2. Elements(Pipeline[n]) = {"scan", "lookup", "check", "enter", "fetch"}
    BY <2>1 DEF Elements
  <2>3. Pipeline[n] \in Seq(Leg) /\ Head(Pipeline[n]) = "scan" /\ Pipeline[n] # << >>
    BY <2>1 DEF Leg
  <2>4. WellFormed(Pipeline[n])
    BY <2>1 DEF WellFormed, Before, Stage, Writing
  <2> QED
    BY <1>1, <1>8, <2>2, <2>3, <2>4 DEF Ahead, Owners, Fetching
<1>9. CASE n = "validateUpgrade"
  <2>1. Pipeline[n] = <<"scan", "lookup", "check">>
    BY <1>9 DEF Pipeline
  <2>2. Elements(Pipeline[n]) = {"scan", "lookup", "check"}
    BY <2>1 DEF Elements
  <2>3. Pipeline[n] \in Seq(Leg) /\ Head(Pipeline[n]) = "scan" /\ Pipeline[n] # << >>
    BY <2>1 DEF Leg
  <2>4. WellFormed(Pipeline[n])
    <3> DEFINE s == Pipeline[n]
    <3>1. DOMAIN s = {1, 2, 3} /\ s[1] = "scan" /\ s[2] = "lookup" /\ s[3] = "check"
      BY <2>1
    <3> HIDE DEF s
    <3>2. WellFormed(s)
      BY <3>1 DEF WellFormed, Before, Stage, Writing
    <3> QED
      BY <3>2 DEF s
  <2> QED
    BY <1>1, <1>9, <2>2, <2>3, <2>4 DEF Ahead, Owners, Fetching
<1>10. CASE n = "forceImport"
  <2>1. Pipeline[n] = <<"scan", "inspect", "enter", "recordImpl", "record?">>
    BY <1>10 DEF Pipeline
  <2>2. Elements(Pipeline[n]) = {"scan", "inspect", "enter", "recordImpl", "record?"}
    BY <2>1 DEF Elements
  <2>3. Pipeline[n] \in Seq(Leg) /\ Head(Pipeline[n]) = "scan" /\ Pipeline[n] # << >>
    BY <2>1 DEF Leg
  <2>4. WellFormed(Pipeline[n])
    BY <2>1 DEF WellFormed, Before, Stage, Writing
  <2> QED
    BY <1>1, <1>10, <2>2, <2>3, <2>4 DEF Ahead, Owners, Fetching
<1> QED
  BY <1>1, <1>2, <1>3, <1>4, <1>5, <1>6, <1>7, <1>8, <1>9, <1>10

-----------------------------------------------------------------------------
(* The inductive invariant *)

Legs(i) == Elements(calls[i].todo)

\* Where an implementation runs behind an address of its own.
Fronts == Kind \cup {"beacon"}

\* An implementation the manifest holds, or has lost with a judged entry; a proxy or a
\* beacon over one, unless somebody else moved it.
Kept(a) == a \in Remembered(manifest) \cup dropped
Covered(a) == Kept(chain[a].points) \/ (project.start = "drifted" /\ chain[a].points = 3)

\* What is deployed points at what is deployed, the manifest remembers what is, and the
\* implementations behind this plugin's proxies and the recorded ones are kept.
ChainInv ==
  /\ \A a \in DOMAIN chain :
       /\ chain[a].what \in Fronts => chain[a].points \in DOMAIN chain
       /\ chain[a].what = "beacon-proxy" =>
            chain[a].points \in DOMAIN chain /\ chain[chain[a].points].what = "beacon"
       /\ chain[a].what \in Fronts /\ (chain[a].by # 0 \/ Recorded(manifest, a)) => Covered(a)
  /\ Remembered(manifest) \subseteq DOMAIN chain

World ==
  /\ project \in Projects
  /\ chain \in Seq(Code) /\ Len(chain) <= project.codes
  /\ manifest \in Manifest
  /\ dropped \subseteq DOMAIN chain
  /\ crashes \in 0..project.crashes
  /\ ChainInv

\* What call c knows when these legs are ahead of it.
Facts(c, legs) ==
  /\ c.name \notin Deploying => c.target \in DOMAIN chain
  /\ c.new # 0 => c.new \in DOMAIN chain /\ chain[c.new].by # 0
  /\ c.name \in Fetching /\ Storing \cap legs = {} => Kept(c.impl)
  /\ "store" \in legs => c.impl \in DOMAIN chain
  /\ c.name = "deployProxy" /\ "kind" \notin legs => c.kind \in Kind
  /\ c.name \in {"deployProxy", "deployBeaconProxy"} /\ "create" \notin legs => c.new # 0 /\ c.kind # "-"
  /\ c.name = "upgradeProxy" /\ "lookup" \notin legs => chain[c.target].what \in Kind /\ c.kind \in Kind
  /\ c.name = "upgradeBeacon" /\ "check" \notin legs => chain[c.target].what = "beacon"
  /\ c.name = "upgradeProxy" /\ "send" \notin legs => Covered(c.target)
  /\ c.name = "forceImport" /\ "inspect" \notin legs =>
       /\ c.impl \in DOMAIN chain
       /\ chain[c.target].what \in Fronts => chain[c.target].points = c.impl \/ Covered(c.target)
  /\ c.name = "forceImport" /\ {"inspect", "recordImpl"} \cap legs = {} => Kept(c.impl)
  /\ c.name = "forceImport" /\ "record" \in legs => c.kind # "-"
  /\ c.name = "forceImport" /\ "inspect" \in legs => "recordImpl" \in legs /\ "record" \notin legs

\* What a call does next: inside a section it holds the lock, and what it read there is
\* what the manifest holds; it deploys what it did not find; it looks a proxy up when no
\* stored address has a casing the engine would miss.
Poised(i) ==
  LET c == calls[i]
      leg == Head(c.todo)
  IN /\ leg \in Holding => lock = i /\ c.seen = manifest
     /\ leg = "deploy" /\ c.redeploy # "always" => c.seen.impls[c.contract] = << >>
     /\ leg = "lookup" => manifest.lower = {}

CallInv ==
  \A i \in DOMAIN calls : ~Settled(i) =>
    Ahead(calls[i].name, calls[i].todo) /\ Facts(calls[i], Legs(i)) /\ Poised(i)

PluginInv ==
  /\ World /\ CallInv
  /\ calls \in Seq(Call) /\ Len(calls) <= project.calls
  /\ lock \in 0..Len(calls)

-----------------------------------------------------------------------------
(* What never changes back *)

\* Code stays where it is, what is moved is moved onto something kept, what the manifest
\* held it holds or has dropped, and no stored address goes back to its old casing.
Grows ==
  /\ DOMAIN chain \subseteq DOMAIN chain'
  /\ \A a \in DOMAIN chain :
       /\ chain'[a].what = chain[a].what /\ chain'[a].by = chain[a].by
       /\ chain'[a].points = chain[a].points \/ chain'[a].points \in Remembered(manifest') \cup dropped'
  /\ Remembered(manifest) \cup dropped \subseteq Remembered(manifest') \cup dropped'
  /\ {p.at : p \in manifest.proxies} \subseteq {p.at : p \in manifest'.proxies}
  /\ manifest'.lower \subseteq manifest.lower
  /\ project' = project

\* A kept implementation stays kept.
LEMMA KeptStays == ASSUME Grows, NEW a, Kept(a) PROVE Kept(a)'
BY DEF Grows, Kept

\* What is over a kept implementation stays over one.
LEMMA CoveredStays == ASSUME Grows, NEW a \in DOMAIN chain, Covered(a) PROVE Covered(a)'
<1>1. CASE chain'[a].points # chain[a].points
  BY <1>1 DEF Grows, Covered, Kept
<1>2. CASE chain'[a].points = chain[a].points
  BY <1>2 DEF Grows, Covered, Kept
<1> QED
  BY <1>1, <1>2

\* What a call knows stays true, whatever others do.
LEMMA FactsStay ==
  ASSUME Grows, NEW c, NEW legs, Facts(c, legs)
  PROVE  Facts(c, legs)'
<1>1. /\ \A a \in DOMAIN chain : a \in DOMAIN chain' /\ chain'[a].what = chain[a].what /\ chain'[a].by = chain[a].by
      /\ \A a : Kept(a) => Kept(a)'
      /\ \A a \in DOMAIN chain : Covered(a) => Covered(a)'
  BY KeptStays, CoveredStays DEF Grows
<1>2. c.target \in DOMAIN chain /\ chain[c.target].points = c.impl =>
        chain'[c.target].points = c.impl \/ Covered(c.target)'
  BY DEF Grows, Covered, Kept
<1>3. c.name \in {"upgradeProxy", "upgradeBeacon", "forceImport"} => c.name \notin Deploying
  BY DEF Deploying
<1> QED
  BY <1>1, <1>2, <1>3 DEF Facts

\* What a call is remains; what a leg sets it sets as it was.
Same(d, c) ==
  /\ d.name = c.name /\ d.contract = c.contract /\ d.asked = c.asked /\ d.redeploy = c.redeploy
  /\ d.target = c.target
Carried(d, c) == d.kind = c.kind /\ d.impl = c.impl /\ d.new = c.new

\* The legs that find something out, or change what is to be known.
Telling == {"fetch", "deploy", "store", "kind", "create", "lookup", "check", "send", "inspect", "recordImpl",
            "record?"}

\* What a call knows it still knows behind a leg that tells it nothing.
LEMMA FactsOn ==
  ASSUME NEW c, NEW legs, Facts(c, legs), NEW d, Same(d, c), Carried(d, c), NEW leg, NEW more,
         leg \notin Telling, legs \subseteq more \cup {leg},
         more \subseteq legs \cup {"enter", "rewrite", "remove", "fetch"}
  PROVE  Facts(d, more)
BY DEF Facts, Same, Carried, Telling, Storing

\* The types of what a step reads.
LEMMA Typed ==
  ASSUME PluginInv
  PROVE  /\ calls \in Seq(Call) /\ Len(calls) \in Nat /\ DOMAIN calls = 1..Len(calls)
         /\ chain \in Seq(Code) /\ Len(chain) \in Nat /\ DOMAIN chain = 1..Len(chain)
         /\ \A i \in DOMAIN calls : calls[i] \in Call /\ i \in Nat /\ i # 0
         /\ \A a \in DOMAIN chain : chain[a] \in Code /\ a \in Nat /\ a # 0
         /\ manifest \in Manifest /\ manifest.impls \in [Contracts -> Seq(Address)]
         /\ project \in Project
<1>1. calls \in Seq(Call) /\ chain \in Seq(Code) /\ manifest \in Manifest /\ project \in Project
  BY ProjectsAssumption DEF PluginInv, World
<1>2. Len(calls) \in Nat /\ DOMAIN calls = 1..Len(calls) /\ Len(chain) \in Nat /\ DOMAIN chain = 1..Len(chain)
  BY <1>1, LenProperties
<1>3. manifest.impls \in [Contracts -> Seq(Address)]
  BY <1>1 DEF Manifest
<1> QED
  BY <1>1, <1>2, <1>3, ElementOfSeq

\* The call that is at a leg, and the legs behind that one.
LEMMA AtLeg ==
  ASSUME PluginInv, NEW i, NEW leg, At(i, leg)
  PROVE  /\ i \in DOMAIN calls /\ ~Settled(i) /\ calls[i] \in Call /\ i \in Nat /\ i # 0
         /\ calls[i].name \in Operation /\ calls[i].contract \in Contracts
         /\ Ahead(calls[i].name, calls[i].todo) /\ Facts(calls[i], Legs(i)) /\ Poised(i)
         /\ calls[i].todo \in Seq(Leg) /\ calls[i].todo # << >> /\ Head(calls[i].todo) = leg
         /\ leg \in Leg /\ leg \in Legs(i)
         /\ \A l \in Legs(i) : calls[i].name \in Owners(l) /\ Before(leg, l)
<1>1. /\ i \in DOMAIN calls /\ ~Settled(i) /\ calls[i] \in Call /\ i \in Nat /\ i # 0
      /\ Head(calls[i].todo) = leg
  BY Typed DEF At
<1>2. Ahead(calls[i].name, calls[i].todo) /\ Facts(calls[i], Legs(i)) /\ Poised(i)
  BY <1>1 DEF PluginInv, CallInv
<1>3. calls[i].name \in Operation /\ calls[i].contract \in Contracts
  BY <1>1 DEF Call
<1> DEFINE s == calls[i].todo
<1>4. /\ s \in Seq(Leg) /\ s # << >> /\ WellFormed(s)
      /\ \A l \in Legs(i) : calls[i].name \in Owners(l)
  BY <1>2 DEF Ahead, Legs
<1>5. Head(s) = s[1] /\ 1 \in DOMAIN s /\ s[1] \in Leg
  BY <1>4, HeadTailProperties, EmptySeq, LenProperties, ElementOfSeq
<1>6. leg \in Legs(i)
  BY <1>1, <1>5 DEF Legs, Elements
<1>7. \A l \in Legs(i) : Before(leg, l)
  <2> SUFFICES ASSUME NEW k \in DOMAIN s PROVE Before(s[1], s[k])
    BY <1>1, <1>5 DEF Legs, Elements
  <2>1. CASE k = 1
    <3>1. Stage(s[1]) \in Nat
      BY DEF Stage
    <3> QED
      BY <2>1, <3>1 DEF Before
  <2>2. CASE k # 1
    <3>1. DOMAIN s = 1..Len(s) /\ Len(s) \in Nat
      BY <1>4, LenProperties
    <3>2. 1 < k
      BY <2>2, <3>1
    <3> QED
      BY <1>4, <1>5, <3>2 DEF WellFormed
  <2> QED
    BY <2>1, <2>2
<1> QED
  BY <1>1, <1>2, <1>3, <1>4, <1>5, <1>6, <1>7

\* A call that took a step: what it is and what is ahead of it.
Moves(i) ==
  /\ i \in DOMAIN calls /\ ~Settled(i)
  /\ calls' \in Seq(Call) /\ Len(calls') = Len(calls) /\ DOMAIN calls' = DOMAIN calls
  /\ \A j \in DOMAIN calls : j # i => calls'[j] = calls[j]
  /\ Same(calls'[i], calls[i])
  /\ ~Settled(i)' => Ahead(calls'[i].name, calls'[i].todo)

\* What is known of a call that has become c.
LEMMA NowKnows ==
  ASSUME NEW i, NEW c, NEW legs, calls'[i] = c, Legs(i)' = legs, Facts(c, legs)'
  PROVE  Facts(calls[i], Legs(i))'
BY DEF Facts, Kept, Covered

\* A step that leaves the other calls where they were.
Steps(i) ==
  /\ Moves(i) /\ Grows /\ World'
  /\ UNCHANGED <<manifest, lock>> \/ lock \in {0, i}
  /\ lock' \in {0, i, lock}
  /\ ~Settled(i)' => Facts(calls[i], Legs(i))' /\ Poised(i)'

\* Such a step keeps the invariant.
LEMMA StepKeeps == ASSUME PluginInv, NEW i, Steps(i) PROVE PluginInv'
<1>1. Moves(i) /\ Grows /\ World' /\ i \in DOMAIN calls
  BY DEF Steps, Moves
<1>2. calls' \in Seq(Call) /\ Len(calls') <= project'.calls /\ lock' \in 0..Len(calls')
  <2>1. Len(calls) \in Nat /\ i \in 1..Len(calls) /\ lock \in 0..Len(calls) /\ Len(calls) <= project.calls
    BY <1>1, Typed DEF PluginInv
  <2> QED
    BY <1>1, <2>1 DEF Steps, Moves, Grows
<1>3. ASSUME NEW j \in DOMAIN calls', ~Settled(j)'
      PROVE  Ahead(calls[j].name, calls[j].todo)' /\ Facts(calls[j], Legs(j))' /\ Poised(j)'
  <2>1. CASE j = i
    BY <1>1, <1>3, <2>1 DEF Steps, Moves
  <2>2. CASE j # i
    <3>1. j \in DOMAIN calls /\ calls'[j] = calls[j] /\ ~Settled(j) /\ Legs(j)' = Legs(j)
      BY <1>1, <1>3, <2>2 DEF Moves, Settled, Legs
    <3>2. Ahead(calls[j].name, calls[j].todo) /\ Facts(calls[j], Legs(j)) /\ Poised(j)
      BY <3>1 DEF PluginInv, CallInv
    <3>3. PICK c : c = calls[j]
      OBVIOUS
    <3>4. PICK legs : legs = Legs(j)
      OBVIOUS
    <3>5. Facts(c, legs)
      BY <3>2, <3>3, <3>4
    <3>6. Facts(c, legs)'
      BY <1>1, <3>5, FactsStay
    <3>7. Facts(calls[j], Legs(j))'
      BY <3>1, <3>3, <3>4, <3>6, NowKnows
    <3>8. Poised(j)'
      <4>1. CASE Head(calls[j].todo) \in Holding
        <5>1. lock = j /\ calls[j].seen = manifest /\ j # 0
          BY <3>1, <3>2, <4>1, Typed DEF Poised
        <5>2. UNCHANGED <<manifest, lock>>
          BY <2>2, <5>1 DEF Steps
        <5> QED
          BY <3>1, <3>2, <5>2 DEF Poised
      <4>2. CASE Head(calls[j].todo) \notin Holding
        BY <1>1, <3>1, <3>2, <4>2 DEF Poised, Grows, Holding
      <4> QED
        BY <4>1, <4>2
    <3> QED
      BY <3>1, <3>2, <3>7, <3>8
  <2> QED
    BY <2>1, <2>2
<1>4. CallInv'
  BY <1>3 DEF CallInv
<1> QED
  BY <1>1, <1>2, <1>4 DEF PluginInv

-----------------------------------------------------------------------------
(* A call goes on, or ends *)

\* The leg a call comes to.
Comes(leg, more, h) ==
  /\ more # << >> => h = more[1]
  /\ more = << >> /\ leg = "enter" => h \in Writing
  /\ more = << >> /\ leg # "enter" => h \notin Holding
  /\ more = << >> /\ leg \notin {"scan", "rewrite"} => h # "lookup"

\* The head of what is ahead, when a leg is done.
LEMMA NextLeg ==
  ASSUME NEW s \in Seq(Leg), s # << >>, WellFormed(s), NEW more \in Detours(Head(s)), more \o Tail(s) # << >>
  PROVE  Comes(Head(s), more, Head(more \o Tail(s)))
<1> DEFINE d == more \o Tail(s)
           n == Len(more)
           leg == Head(s)
<1>0. leg = s[1] /\ leg \in Leg
  BY HeadTailProperties, EmptySeq
<1>1. more \in Seq(Leg) /\ n \in 0..2 /\ d \in Seq(Leg)
  BY <1>0, DetourFacts, Replaced
<1>2. /\ Len(s) \in Nat /\ Len(s) >= 1 /\ DOMAIN s = 1..Len(s) /\ DOMAIN d = 1..(Len(s) + n - 1)
      /\ \A k \in 1..n : d[k] = more[k]
      /\ \A k \in (n + 1)..(Len(s) + n - 1) : d[k] = s[k - n + 1]
      /\ Len(d) = Len(s) + n - 1
  BY <1>1, Replaced
<1>3. d # << >> /\ Head(d) = d[1] /\ 1 \in DOMAIN d
  BY <1>1, HeadTailProperties, EmptySeq, LenProperties, ElementOfSeq
<1> HIDE DEF d
<1>4. CASE more # << >>
  <2>1. 1 \in 1..n
    BY <1>1, <1>4, EmptySeq
  <2> QED
    BY <1>2, <1>3, <1>4, <2>1 DEF Comes, d
<1>5. CASE more = << >>
  <2>1. n = 0 /\ 2 \in DOMAIN s /\ Head(d) = s[2] /\ 1 \in DOMAIN s
    <3>1. n = 0
      BY <1>5, EmptySeq
    <3>2. 1 \in (n + 1)..(Len(s) + n - 1) /\ 1 - n + 1 = 2
      BY <1>2, <1>3, <3>1
    <3> QED
      BY <1>2, <1>3, <3>1, <3>2
  <2>2. /\ s[1] = "enter" => s[2] \in Writing
        /\ s[2] \in Writing => s[1] = "enter"
        /\ s[2] \notin {"deploy", "store"}
        /\ s[2] = "lookup" => s[1] \in {"scan", "rewrite"}
    <3>1. 1 + 1 = 2 /\ 2 - 1 = 1 /\ 2 > 1
      OBVIOUS
    <3> QED
      BY <2>1, <3>1 DEF WellFormed
  <2> QED
    BY <1>0, <1>5, <2>1, <2>2 DEF Comes, Holding, d
<1> QED
  BY <1>4, <1>5

\* A sequence with one place set anew.
LEMMA Excepted ==
  ASSUME NEW S, NEW s \in Seq(S), NEW i \in DOMAIN s, NEW e \in S, NEW t, t = [s EXCEPT ![i] = e]
  PROVE  /\ t \in Seq(S) /\ Len(t) = Len(s) /\ DOMAIN t = DOMAIN s /\ t[i] = e
         /\ \A j \in DOMAIN s : j # i => t[j] = s[j]
<1>1. DOMAIN s = 1..Len(s)
  BY LenProperties
<1>2. t \in Seq(S) /\ Len(t) = Len(s)
  BY <1>1, ExceptSeq
<1> QED
  BY <1>1, <1>2

\* What a step of a call makes of it.
Advance(i, leg, c, more) ==
  /\ calls'[i].seen = c.seen /\ Carried(calls'[i], c)
  /\ Legs(i) \subseteq Legs(i)' \cup {leg} /\ Legs(i)' \subseteq Legs(i) \cup Elements(more)
  /\ Elements(more) \subseteq Legs(i)'
  /\ ~Settled(i)' => Comes(leg, more, Head(calls'[i].todo)) /\ Head(calls'[i].todo) \in Legs(i)'

\* A call that goes on has its next legs ahead of it, in good form.
LEMMA GoesOn ==
  ASSUME PluginInv, NEW i, NEW leg, At(i, leg), NEW c \in Call, Same(c, calls[i]), c.todo = calls[i].todo,
         NEW more \in Detours(leg), Goes(i, c, more)
  PROVE  Moves(i) /\ Advance(i, leg, c, more)
<1> DEFINE s == calls[i].todo
           d == more \o Tail(s)
           e == [c EXCEPT !.todo = d, !.outcome = IF d = << >> THEN "ok" ELSE ""]
<1>1. /\ i \in DOMAIN calls /\ ~Settled(i) /\ leg \in Leg /\ Head(s) = leg /\ leg \in Legs(i)
      /\ s \in Seq(Leg) /\ s # << >> /\ Ahead(calls[i].name, s)
      /\ calls[i].name \in Operation /\ calls[i].name \in Owners(leg)
  BY AtLeg
<1>2. /\ more \in Seq(Leg) /\ Len(more) \in 0..2
      /\ Elements(more) \subseteq
           CASE leg = "scan" -> {"enter", "rewrite"}
             [] leg \in {"fetch", "deploy", "mine", "remove"} ->
                  {"enter", "fetch", "deploy", "store", "mine", "remove"}
             [] leg = "record?" -> {"enter", "record"}
             [] OTHER -> {}
  BY <1>1, DetourFacts
<1>3. /\ d \in Seq(Leg) /\ Elements(d) \subseteq Elements(s) \cup Elements(more)
      /\ Elements(s) \subseteq Elements(d) \cup {leg} /\ Elements(more) \subseteq Elements(d)
  BY <1>1, <1>2, Replaced
<1>4. WellFormed(d)
  BY <1>1, StaysWellFormed DEF Ahead
<1>5. ASSUME NEW l \in Elements(more) PROVE calls[i].name \in Owners(l)
  <2>1. CASE leg = "scan"
    BY <1>1, <1>2, <1>5, <2>1 DEF Owners
  <2>2. CASE leg \in {"fetch", "deploy", "mine", "remove"}
    BY <1>1, <1>2, <1>5, <2>2 DEF Owners
  <2>3. CASE leg = "record?"
    BY <1>1, <1>2, <1>5, <2>3 DEF Owners
  <2> QED
    BY <1>2, <1>5, <2>1, <2>2, <2>3
<1>6. d # << >> => Ahead(calls[i].name, d)
  BY <1>1, <1>3, <1>4, <1>5 DEF Ahead
<1>7. e \in Call /\ Same(e, calls[i]) /\ Carried(e, c) /\ e.seen = c.seen /\ e.todo = d
      /\ (e.outcome = "" <=> d # << >>)
  <2>1. DOMAIN c = {"name", "contract", "asked", "redeploy", "target", "todo", "outcome", "seen", "kind",
                    "known", "impl", "new", "retried"}
    BY DEF Call
  <2> QED
    BY <1>3, <2>1 DEF Call, Same, Carried
<1>8. calls' = [calls EXCEPT ![i] = e]
  BY DEF Goes
<1> HIDE DEF e
<1>9. /\ calls' \in Seq(Call) /\ Len(calls') = Len(calls) /\ DOMAIN calls' = DOMAIN calls
      /\ \A j \in DOMAIN calls : j # i => calls'[j] = calls[j]
      /\ calls'[i] = e
  <2>1. calls \in Seq(Call) /\ i \in DOMAIN calls /\ e \in Call
    BY <1>1, <1>7, Typed
  <2> QED
    BY <1>8, <2>1, Excepted
<1>10. Moves(i)
  BY <1>1, <1>6, <1>7, <1>9 DEF Moves, Settled, Same
<1>11. Legs(i)' = Elements(d) /\ Legs(i) = Elements(s)
  BY <1>7, <1>9 DEF Legs
<1>12. ASSUME d # << >> PROVE Comes(leg, more, Head(d)) /\ Head(d) \in Elements(d)
  <2>1. Comes(leg, more, Head(d))
    BY <1>1, <1>12, NextLeg DEF Ahead
  <2>2. Head(d) = d[1] /\ 1 \in DOMAIN d
    BY <1>3, <1>12, HeadTailProperties, EmptySeq, LenProperties, ElementOfSeq
  <2> QED
    BY <2>1, <2>2 DEF Elements
<1>13. ~Settled(i)' => d # << >>
  BY <1>7, <1>9 DEF Settled
<1>14. Advance(i, leg, c, more)
  BY <1>3, <1>7, <1>9, <1>11, <1>12, <1>13 DEF Advance
<1> QED
  BY <1>10, <1>14

\* A call that ends, however it ends, has nothing ahead.
LEMMA Stops ==
  ASSUME PluginInv, NEW i \in DOMAIN calls, ~Settled(i), NEW outcome \in {"refused", "crashed"}, Ends(i, outcome)
  PROVE  Moves(i) /\ Settled(i)' /\ calls'[i].outcome = outcome
<1> DEFINE e == [calls[i] EXCEPT !.todo = << >>, !.outcome = outcome, !.seen = blank]
<1>1. calls \in Seq(Call) /\ calls[i] \in Call
  BY Typed
<1>2. blank \in Manifest
  BY DEF blank, Manifest, Address
<1>3. e \in Call /\ Same(e, calls[i]) /\ e.outcome = outcome
  <2>1. DOMAIN calls[i] = {"name", "contract", "asked", "redeploy", "target", "todo", "outcome", "seen", "kind",
                           "known", "impl", "new", "retried"}
    BY <1>1 DEF Call
  <2>2. << >> \in Seq(Leg) /\ outcome \in {"", "ok", "refused", "crashed"}
    BY EmptySeq
  <2>3. e \in Call
    BY <1>1, <1>2, <2>1, <2>2 DEF Call
  <2> QED
    BY <2>1, <2>3 DEF Same
<1>4. calls' = [calls EXCEPT ![i] = e]
  BY DEF Ends
<1> HIDE DEF e
<1>5. /\ calls' \in Seq(Call) /\ Len(calls') = Len(calls) /\ DOMAIN calls' = DOMAIN calls
      /\ \A j \in DOMAIN calls : j # i => calls'[j] = calls[j]
      /\ calls'[i] = e
  BY <1>1, <1>3, <1>4, Excepted
<1> QED
  BY <1>3, <1>5 DEF Moves, Settled, Same

-----------------------------------------------------------------------------
(* The legs that change a call only *)

\* Nothing but calls and the lock changed.
Unmoved == UNCHANGED <<chain, manifest, dropped, crashes, project>>
\* Whose the lock is, and what becomes of it.
Frees(i) == (lock' = lock \/ lock \in {0, i}) /\ lock' \in {0, i, lock}

\* The world as it was.
LEMMA StillWorld == ASSUME PluginInv, Unmoved PROVE Grows /\ World'
<1>1. World
  BY DEF PluginInv
<1>2. Grows
  BY DEF Grows, Unmoved
<1>3. World'
  BY <1>1 DEF World, Unmoved, ChainInv, Covered, Kept
<1> QED
  BY <1>2, <1>3

\* A refusal, a failure of a section or a death that changes nothing else.
LEMMA RefuseStep ==
  ASSUME PluginInv, NEW i, NEW leg, At(i, leg), Refuse(i), Grows, World', UNCHANGED manifest, Frees(i)
  PROVE  Steps(i)
<1>1. i \in DOMAIN calls /\ ~Settled(i)
  BY AtLeg
<1>2. Moves(i) /\ Settled(i)'
  BY <1>1, Stops DEF Refuse
<1> QED
  BY <1>2 DEF Steps, Frees

\* A call knows what it knew, of what is still so.
LEMMA KnowsNext ==
  ASSUME Grows, NEW i, NEW d, NEW legs, calls'[i] = d, Legs(i)' = legs, Facts(d, legs)
  PROVE  Facts(calls[i], Legs(i))'
BY FactsStay, NowKnows

\* A leg that finds nothing out.
LEMMA SilentFacts ==
  ASSUME PluginInv, Grows, NEW i, NEW leg \in Leg \ Telling, At(i, leg), NEW c, Same(c, calls[i]),
         Carried(c, calls[i]), NEW more \in Detours(leg), Moves(i), Advance(i, leg, c, more)
  PROVE  Facts(calls[i], Legs(i))'
<1>1. PICK d : d = calls'[i]
  OBVIOUS
<1>2. PICK legs : legs = Legs(i)'
  OBVIOUS
<1>3. Facts(calls[i], Legs(i))
  BY AtLeg
<1>4. Elements(more) \subseteq {"enter", "rewrite", "remove", "fetch"}
  <2>1. leg \in {"scan", "mine", "remove"} \/ more = << >>
    BY DetourFacts DEF Telling
  <2>2. leg \in {"scan", "mine", "remove"} =>
          more \in {<< >>, <<"enter", "rewrite">>, <<"enter", "remove">>, <<"enter", "fetch">>}
    BY DEF Detours
  <2> QED
    BY <2>1, <2>2 DEF Elements
<1>5. Legs(i) \subseteq legs \cup {leg} /\ legs \subseteq Legs(i) \cup {"enter", "rewrite", "remove", "fetch"}
  BY <1>2, <1>4 DEF Advance
<1>6. Same(d, calls[i]) /\ Carried(d, calls[i])
  BY <1>1 DEF Moves, Advance, Carried
<1>7. Facts(d, legs)
  BY <1>3, <1>5, <1>6, FactsOn
<1> QED
  BY <1>1, <1>2, <1>7, KnowsNext

\* Nothing is asked of a call that comes to an ordinary leg.
LEMMA Ordinary ==
  ASSUME NEW i, Head(calls'[i].todo) \notin Holding \cup {"lookup"}
  PROVE  Poised(i)'
BY DEF Poised, Holding

\* Behind all but three legs, when no section begins, a call comes to an ordinary one.
LEMMA ComesToOrdinary ==
  ASSUME NEW i, NEW leg, NEW c, NEW more \in Detours(leg), Advance(i, leg, c, more), ~Settled(i)',
         leg \notin {"scan", "rewrite", "enter", "deploy"} \/ more # << >>, more # <<"deploy">>, leg # "deploy"
  PROVE  Poised(i)'
<1>1. Comes(leg, more, Head(calls'[i].todo))
  BY DEF Advance
<1>2. CASE more = << >>
  BY <1>1, <1>2, Ordinary DEF Comes
<1>3. CASE more # << >>
  <2>1. more \in {<<"mine">>, <<"enter", "rewrite">>, <<"enter", "remove">>, <<"enter", "fetch">>,
                  <<"enter", "record">>}
    BY <1>3 DEF Detours
  <2>2. more[1] \in {"enter", "mine"}
    BY <2>1
  <2> QED
    BY <1>1, <1>3, <2>2, Ordinary DEF Comes, Holding, Writing
<1> QED
  BY <1>2, <1>3

\* Looking the manifest over, without its lock.
LEMMA ScanStep == ASSUME PluginInv, NEW i, Scan(i) PROVE Steps(i)
<1> DEFINE c == calls[i]
           e == [c EXCEPT !.seen = manifest]
<1>1. At(i, "scan") /\ Unmoved /\ lock' = lock
  BY DEF Scan, Unmoved
<1>2. /\ i \in DOMAIN calls /\ c \in Call /\ "scan" \in Leg \ Telling /\ manifest \in Manifest
  BY <1>1, AtLeg, Typed DEF Telling
<1>3. Grows /\ World' /\ UNCHANGED manifest /\ Frees(i)
  BY <1>1, StillWorld DEF Unmoved, Frees
<1>4. CASE rewritten(manifest) = manifest /\ Goes(i, c, << >>)
  <2>1. << >> \in Detours("scan") /\ Same(c, calls[i]) /\ Carried(c, calls[i])
    BY DEF Detours, Same, Carried
  <2>2. Moves(i) /\ Advance(i, "scan", c, << >>)
    BY <1>1, <1>2, <1>4, <2>1, GoesOn
  <2>3. Facts(calls[i], Legs(i))'
    BY <1>1, <1>2, <1>3, <2>1, <2>2, SilentFacts
  <2>4. manifest'.lower = {}
    BY <1>2, <1>3, <1>4 DEF rewritten, Manifest
  <2>5. ~Settled(i)' => Poised(i)'
    BY <2>2, <2>4 DEF Advance, Comes, Poised, Holding
  <2> QED
    BY <1>3, <2>2, <2>3, <2>5 DEF Steps, Frees
<1>5. CASE Goes(i, e, <<"enter", "rewrite">>)
  <2>1. /\ <<"enter", "rewrite">> \in Detours("scan") /\ <<"enter", "rewrite">> # << >>
        /\ e \in Call /\ Same(e, c) /\ Carried(e, c) /\ e.todo = c.todo
    BY <1>2 DEF Detours, Call, Same, Carried
  <2> HIDE DEF e
  <2>2. Moves(i) /\ Advance(i, "scan", e, <<"enter", "rewrite">>)
    BY <1>1, <1>5, <2>1, GoesOn
  <2>3. Facts(calls[i], Legs(i))'
    BY <1>1, <1>2, <1>3, <2>1, <2>2, SilentFacts
  <2>4. ~Settled(i)' => Poised(i)'
    <3>1. <<"enter", "rewrite">> # <<"deploy">>
      OBVIOUS
    <3> QED
      BY <2>1, <2>2, <3>1, ComesToOrdinary
  <2> QED
    BY <1>3, <2>2, <2>3, <2>4 DEF Steps, Frees
<1>6. CASE Refuse(i)
  BY <1>1, <1>3, <1>6, RefuseStep
<1> QED
  BY <1>4, <1>5, <1>6 DEF Scan

\* Taking the lock and reading under it.
LEMMA EnterStep == ASSUME PluginInv, NEW i, Enter(i) PROVE Steps(i)
<1> DEFINE c == calls[i]
           e == [c EXCEPT !.seen = manifest]
<1>1. At(i, "enter") /\ Unmoved
  BY DEF Enter, Unmoved
<1>2. /\ i \in DOMAIN calls /\ c \in Call /\ "enter" \in Leg \ Telling /\ manifest \in Manifest
  BY <1>1, AtLeg, Typed DEF Telling
<1>3. Grows /\ World' /\ UNCHANGED manifest
  BY <1>1, StillWorld DEF Unmoved
<1>4. CASE lock = 0 /\ lock' = i /\ Goes(i, e, << >>)
  <2>1. /\ << >> \in Detours("enter") /\ e.seen = manifest
        /\ e \in Call /\ Same(e, c) /\ Carried(e, c) /\ e.todo = c.todo
    BY <1>2 DEF Detours, Call, Same, Carried
  <2> HIDE DEF e
  <2>2. Moves(i) /\ Advance(i, "enter", e, << >>)
    BY <1>1, <1>4, <2>1, GoesOn
  <2>3. Facts(calls[i], Legs(i))'
    BY <1>1, <1>2, <1>3, <2>1, <2>2, SilentFacts
  <2>4. ~Settled(i)' => Poised(i)'
    BY <1>3, <1>4, <2>1, <2>2 DEF Advance, Comes, Poised, Writing
  <2> QED
    BY <1>3, <1>4, <2>2, <2>3, <2>4 DEF Steps
<1>5. CASE Refuse(i) /\ UNCHANGED lock
  BY <1>1, <1>3, <1>5, RefuseStep DEF Frees
<1> QED
  BY <1>4, <1>5 DEF Enter, free, freshRead

\* A leg that reads, and goes on with what it found.
LEMMA ReadStep ==
  ASSUME PluginInv, NEW i, NEW leg, At(i, leg), Unmoved, lock' = lock,
         NEW e \in Call, Same(e, calls[i]), e.todo = calls[i].todo, NEW more \in Detours(leg),
         more # <<"deploy">>, leg \notin {"scan", "rewrite", "enter", "deploy"}, Goes(i, e, more),
         \A legs : Legs(i) \subseteq legs \cup {leg} /\ legs \subseteq Legs(i) \cup Elements(more) => Facts(e, legs)
  PROVE  Steps(i)
<1>1. Grows /\ World' /\ UNCHANGED manifest /\ Frees(i)
  BY StillWorld DEF Unmoved, Frees
<1>2. Moves(i) /\ Advance(i, leg, e, more)
  BY GoesOn
<1>3. Facts(calls[i], Legs(i))'
  <2>1. PICK d : d = calls'[i]
    OBVIOUS
  <2>2. PICK legs : legs = Legs(i)'
    OBVIOUS
  <2>3. Facts(e, legs) /\ Same(d, e) /\ Carried(d, e)
    BY <1>2, <2>1, <2>2 DEF Advance, Moves, Same, Carried
  <2>4. Facts(d, legs)
    <3>1. "verify" \notin Telling
      BY DEF Telling
    <3> QED
      BY <2>3, <3>1, FactsOn
  <2> QED
    BY <1>1, <2>1, <2>2, <2>4, KnowsNext
<1>4. ~Settled(i)' => Poised(i)'
  BY <1>2, ComesToOrdinary
<1> QED
  BY <1>1, <1>2, <1>3, <1>4 DEF Steps, Frees

\* One that reads and sets nothing.
LEMMA PlainStep ==
  ASSUME PluginInv, NEW i, NEW leg \in {"mine", "verify"}, At(i, leg), Unmoved, lock' = lock,
         NEW more \in Detours(leg), Goes(i, calls[i], more)
  PROVE  Steps(i)
<1>1. calls[i] \in Call /\ leg \in Leg /\ Facts(calls[i], Legs(i))
  BY AtLeg
<1>2. Elements(more) \subseteq {"enter", "remove"} /\ more # <<"deploy">>
  <2>1. more \in {<< >>, <<"enter", "remove">>}
    BY DEF Detours
  <2> QED
    BY <2>1 DEF Elements
<1>3. ASSUME NEW legs, Legs(i) \subseteq legs \cup {leg}, legs \subseteq Legs(i) \cup Elements(more)
      PROVE  Facts(calls[i], legs)
  <2>1. leg \notin Telling /\ Same(calls[i], calls[i]) /\ Carried(calls[i], calls[i])
    BY DEF Telling, Same, Carried
  <2>2. legs \subseteq Legs(i) \cup {"enter", "rewrite", "remove", "fetch"}
    BY <1>2, <1>3
  <2> QED
    BY <1>1, <1>3, <2>1, <2>2, FactsOn
<1>4. Same(calls[i], calls[i]) /\ leg \notin {"scan", "rewrite", "enter", "deploy"}
  BY DEF Same
<1> QED
  BY <1>1, <1>2, <1>3, <1>4, ReadStep

\* The wait for a deployment.
LEMMA MineStep == ASSUME PluginInv, NEW i, Mine(i) PROVE Steps(i)
<1>1. At(i, "mine") /\ Unmoved /\ lock' = lock
  BY DEF Mine, Unmoved
<1>2. << >> \in Detours("mine") /\ <<"enter", "remove">> \in Detours("mine")
  BY DEF Detours
<1>3. CASE Goes(i, calls[i], << >>) \/ Goes(i, calls[i], <<"enter", "remove">>)
  BY <1>1, <1>2, <1>3, PlainStep
<1>4. CASE Refuse(i)
  BY <1>1, <1>4, StillWorld, RefuseStep DEF Unmoved, Frees
<1> QED
  BY <1>3, <1>4 DEF Mine

\* The second look at an upgraded slot.
LEMMA VerifyStep == ASSUME PluginInv, NEW i, Verify(i) PROVE Steps(i)
<1>1. At(i, "verify") /\ Unmoved /\ lock' = lock
  BY DEF Verify, Unmoved
<1>2. << >> \in Detours("verify")
  BY DEF Detours
<1>3. CASE Goes(i, calls[i], << >>)
  BY <1>1, <1>2, <1>3, PlainStep
<1>4. CASE Refuse(i)
  BY <1>1, <1>4, StillWorld, RefuseStep DEF Unmoved, Frees
<1> QED
  BY <1>3, <1>4 DEF Verify

\* The kind a call asks for is one.
LEMMA AskedKind == ASSUME NEW c \in Call PROVE asks(c) \in Kind
BY DEF asks, inferred, Call, Kind

\* deployProxy settles its kind.
LEMMA DecideStep == ASSUME PluginInv, NEW i, Decide(i) PROVE Steps(i)
<1> DEFINE c == calls[i]
           e == [c EXCEPT !.kind = asks(c)]
<1>1. At(i, "kind") /\ Unmoved /\ lock' = lock
  BY DEF Decide, Unmoved
<1>2. c \in Call /\ Facts(c, Legs(i)) /\ asks(c) \in Kind /\ "kind" \in Leg
  BY <1>1, AtLeg, AskedKind
<1>3. CASE Goes(i, e, << >>)
  <2>1. e \in Call /\ Same(e, c) /\ e.todo = c.todo /\ e.kind \in Kind /\ e.impl = c.impl /\ e.new = c.new
    BY <1>2 DEF Call, Same, Kind
  <2> HIDE DEF e
  <2>2. << >> \in Detours("kind") /\ Elements(<< >>) = {} /\ << >> # <<"deploy">>
    BY DEF Detours, Elements
  <2>3. "beacon" # "-" /\ "-" \notin Kind
    BY DEF Kind
  <2>4. ASSUME NEW legs, Legs(i) \subseteq legs \cup {"kind"}, legs \subseteq Legs(i) \cup Elements(<< >>)
        PROVE  Facts(e, legs)
    BY <1>2, <2>1, <2>2, <2>3, <2>4 DEF Facts, Same, Storing
  <2> QED
    BY <1>1, <1>3, <2>1, <2>2, <2>4, ReadStep
<1>4. CASE Refuse(i)
  BY <1>1, <1>4, StillWorld, RefuseStep DEF Unmoved, Frees
<1> QED
  BY <1>3, <1>4 DEF Decide

\* The record and the kind of an upgrade.
LEMMA LookupStep == ASSUME PluginInv, NEW i, Lookup(i) PROVE Steps(i)
<1> DEFINE c == calls[i]
           e(kind) == [c EXCEPT !.kind = kind, !.known = Recorded(manifest, c.target)]
<1>1. At(i, "lookup") /\ Unmoved /\ lock' = lock
  BY DEF Lookup, Unmoved
<1>2. /\ c \in Call /\ Facts(c, Legs(i)) /\ asks(c) \in Kind
      /\ c.name \in {"upgradeProxy", "prepareUpgrade", "validateUpgrade"}
  BY <1>1, AtLeg, AskedKind DEF Owners
<1>3. ASSUME NEW kind \in Kind \cup {"beacon"}, Goes(i, e(kind), << >>),
             c.name = "upgradeProxy" => Is(c.target, Kind) /\ kind \in Kind
      PROVE  Steps(i)
  <2>1. PICK d : d = e(kind)
    OBVIOUS
  <2>2. /\ d \in Call /\ Same(d, c) /\ d.todo = c.todo /\ d.kind = kind /\ d.impl = c.impl /\ d.new = c.new
    <3>1. Recorded(manifest, c.target) \in BOOLEAN
      BY DEF Recorded
    <3> QED
      BY <1>2, <1>3, <2>1, <3>1 DEF Call, Same
  <2>3. << >> \in Detours("lookup") /\ Elements(<< >>) = {} /\ << >> # <<"deploy">>
    BY DEF Detours, Elements
  <2>4. ASSUME NEW legs, Legs(i) \subseteq legs \cup {"lookup"}, legs \subseteq Legs(i) \cup Elements(<< >>)
        PROVE  Facts(d, legs)
    <3>1. c.name = "upgradeProxy" => chain[c.target].what \in Kind
      BY <1>3 DEF Is
    <3> QED
      BY <1>2, <1>3, <2>2, <2>3, <2>4, <3>1 DEF Facts, Same, Storing
  <2>5. Goes(i, d, << >>)
    BY <1>3, <2>1
  <2> QED
    BY <1>1, <2>2, <2>3, <2>4, <2>5, ReadStep
<1>4. CASE Is(c.target, Kind) /\ Goes(i, e(asks(c)), << >>)
  BY <1>2, <1>3, <1>4
<1>5. CASE c.name # "upgradeProxy" /\ Goes(i, e("beacon"), << >>)
  BY <1>3, <1>5
<1>6. CASE c.name # "upgradeProxy" /\ c.asked # "infer" /\ Goes(i, e(c.asked), << >>)
  <2>1. c.asked \in Kind
    BY <1>2, <1>6 DEF Call
  <2> QED
    BY <1>3, <1>6, <2>1
<1>7. CASE Refuse(i)
  BY <1>1, <1>7, StillWorld, RefuseStep DEF Unmoved, Frees
<1> QED
  BY <1>4, <1>5, <1>6, <1>7 DEF Lookup

\* What runs now.
LEMMA CheckStep == ASSUME PluginInv, NEW i, Check(i) PROVE Steps(i)
<1> DEFINE c == calls[i]
<1>1. At(i, "check") /\ Unmoved /\ lock' = lock
  BY DEF Check, Unmoved
<1>2. c \in Call /\ Facts(c, Legs(i)) /\ Same(c, c)
  BY <1>1, AtLeg DEF Same
<1>3. CASE Goes(i, c, << >>) /\ Is(c.target, IF c.name = "upgradeBeacon" THEN {"beacon"} ELSE What)
  <2>1. << >> \in Detours("check") /\ Elements(<< >>) = {} /\ << >> # <<"deploy">>
    BY DEF Detours, Elements
  <2>2. ASSUME NEW legs, Legs(i) \subseteq legs \cup {"check"}, legs \subseteq Legs(i) \cup Elements(<< >>)
        PROVE  Facts(c, legs)
    <3>1. c.name = "upgradeBeacon" => chain[c.target].what = "beacon"
      BY <1>3 DEF Is
    <3> QED
      BY <1>2, <2>1, <2>2, <3>1 DEF Facts, Storing
  <2> QED
    BY <1>1, <1>2, <1>3, <2>1, <2>2, ReadStep
<1>4. CASE Refuse(i)
  BY <1>1, <1>4, StillWorld, RefuseStep DEF Unmoved, Frees
<1> QED
  BY <1>3, <1>4 DEF Check

\* What runs behind a contract is deployed; behind a proxy or a beacon it is what it points at.
LEMMA BehindDeployed ==
  ASSUME PluginInv, NEW a \in DOMAIN chain
  PROVE  /\ Behind(a) \in DOMAIN chain
         /\ chain[a].what \in Fronts => Behind(a) = chain[a].points
<1>1. ChainInv
  BY DEF PluginInv, World
<1>2. CASE chain[a].what \in Fronts
  BY <1>1, <1>2 DEF ChainInv, Behind, Fronts, Kind
<1>3. CASE chain[a].what = "beacon-proxy"
  <2>1. chain[a].points \in DOMAIN chain /\ chain[chain[a].points].what \in Fronts
    BY <1>1, <1>3 DEF ChainInv, Fronts
  <2>2. Behind(a) = chain[chain[a].points].points /\ chain[a].what \notin Fronts
    BY <1>3 DEF Behind, Fronts, Kind
  <2> QED
    BY <1>1, <2>1, <2>2 DEF ChainInv
<1>4. CASE chain[a].what \notin Fronts \cup {"beacon-proxy"}
  BY <1>4 DEF Behind, Fronts
<1> QED
  BY <1>2, <1>3, <1>4

\* What is to be adopted.
LEMMA InspectStep == ASSUME PluginInv, NEW i, Inspect(i) PROVE Steps(i)
<1> DEFINE c == calls[i]
           what == chain[c.target].what
           kind == CASE what = "beacon-proxy" /\ c.asked = "infer" -> "beacon"
                     [] what \in Kind \cup {"beacon-proxy"} -> asks(c)
                     [] OTHER -> "-"
           e == [c EXCEPT !.kind = kind, !.impl = Behind(c.target)]
<1>1. At(i, "inspect") /\ Unmoved /\ lock' = lock
  BY DEF Inspect, Unmoved
<1>2. /\ c \in Call /\ Facts(c, Legs(i)) /\ asks(c) \in Kind /\ c.name = "forceImport"
      /\ "record" \notin Legs(i) \/ c.kind # "-"
  <2>1. c \in Call /\ Facts(c, Legs(i)) /\ c.name = "forceImport"
    BY <1>1, AtLeg DEF Owners
  <2> QED
    BY <2>1, AskedKind DEF Facts
<1>3. kind \in Kind \cup {"beacon", "-"}
  BY <1>2
<1>4. CASE Goes(i, e, << >>) /\ Is(c.target, What)
  <2>1. /\ Behind(c.target) \in DOMAIN chain /\ Behind(c.target) \in Nat
        /\ chain[c.target].what \in Fronts => Behind(c.target) = chain[c.target].points
    BY <1>4, BehindDeployed, Typed DEF Is
  <2>2. /\ e \in Call /\ Same(e, c) /\ e.todo = c.todo /\ e.impl = Behind(c.target) /\ e.new = c.new
        /\ e.kind = kind
    BY <1>2, <1>3, <2>1 DEF Call, Same, Address
  <2> HIDE DEF e
  <2>3. << >> \in Detours("inspect") /\ Elements(<< >>) = {} /\ << >> # <<"deploy">>
    BY DEF Detours, Elements
  <2>4. "recordImpl" \in Legs(i) /\ "record" \notin Legs(i)
    BY <1>1, <1>2, AtLeg DEF Facts
  <2>5. ASSUME NEW legs, Legs(i) \subseteq legs \cup {"inspect"}, legs \subseteq Legs(i) \cup Elements(<< >>)
        PROVE  Facts(e, legs)
    BY <1>2, <2>1, <2>2, <2>3, <2>4, <2>5 DEF Facts, Same, Storing, Fetching
  <2> QED
    BY <1>1, <1>4, <2>2, <2>3, <2>5, ReadStep
<1>5. CASE Refuse(i)
  BY <1>1, <1>5, StillWorld, RefuseStep DEF Unmoved, Frees
<1> QED
  BY <1>4, <1>5 DEF Inspect

\* Whether the proxy is still to be recorded.
LEMMA RecordIfNeededStep == ASSUME PluginInv, NEW i, RecordIfNeeded(i) PROVE Steps(i)
<1> DEFINE c == calls[i]
           needed == IF c.name = "upgradeProxy" THEN ~c.known ELSE c.kind # "-"
<1>1. At(i, "record?") /\ Unmoved /\ lock' = lock /\ Goes(i, c, IF needed THEN <<"enter", "record">> ELSE << >>)
  BY DEF RecordIfNeeded, Unmoved
<1>2. /\ c \in Call /\ Facts(c, Legs(i)) /\ Same(c, c) /\ c.name \in {"upgradeProxy", "forceImport"}
      /\ "inspect" \notin Legs(i)
  BY <1>1, AtLeg DEF Same, Owners, Before, Stage
<1>3. ASSUME NEW more \in Detours("record?"), more # << >> => needed,
             more \in {<< >>, <<"enter", "record">>}, Goes(i, c, more)
      PROVE  Steps(i)
  <2>1. Elements(more) \subseteq {"enter", "record"} /\ (~needed => Elements(more) = {}) /\ more # <<"deploy">>
    BY <1>3 DEF Elements
  <2>2. ASSUME NEW legs, Legs(i) \subseteq legs \cup {"record?"}, legs \subseteq Legs(i) \cup Elements(more)
        PROVE  Facts(c, legs)
    BY <1>2, <2>1, <2>2 DEF Facts, Storing
  <2> QED
    BY <1>1, <1>2, <1>3, <2>1, <2>2, ReadStep
<1>4. << >> \in Detours("record?") /\ <<"enter", "record">> \in Detours("record?")
  BY DEF Detours
<1> QED
  BY <1>1, <1>3, <1>4

-----------------------------------------------------------------------------
(* The legs that write the manifest *)

\* What is remembered is under some contract.
LEMMA RememberedUnder ==
  ASSUME NEW m, NEW a
  PROVE  a \in Remembered(m) <=> \E c \in Contracts : a \in Elements(m.impls[c])
BY DEF Remembered

\* A call that ends its section held the lock, and read what the manifest still holds.
LEMMA InSection ==
  ASSUME PluginInv, NEW i, NEW leg \in Holding, At(i, leg)
  PROVE  /\ lock = i /\ calls[i].seen = manifest /\ calls[i].contract \in Contracts
         /\ leg = "deploy" /\ calls[i].redeploy # "always" => manifest.impls[calls[i].contract] = << >>
BY AtLeg DEF Poised

\* A manifest written back with nothing lost, nothing but what is deployed in it, and a
\* proxy recorded only over what is kept.
LEMMA ManifestStep ==
  ASSUME PluginInv, manifest' \in Manifest, UNCHANGED <<chain, crashes, project>>,
         Remembered(manifest) \cup dropped \subseteq Remembered(manifest') \cup dropped',
         {p.at : p \in manifest.proxies} \subseteq {p.at : p \in manifest'.proxies},
         manifest'.lower \subseteq manifest.lower,
         dropped' \subseteq DOMAIN chain, Remembered(manifest') \subseteq DOMAIN chain,
         \A a \in DOMAIN chain : chain[a].what \in Fronts /\ Recorded(manifest', a) =>
           Recorded(manifest, a) \/ chain[a].by # 0 \/ Covered(a)
  PROVE  Grows /\ World'
<1>1. World /\ ChainInv
  BY DEF PluginInv, World
<1>2. Grows
  BY DEF Grows
<1>3. \A a \in DOMAIN chain : Covered(a) => Covered(a)'
  BY <1>2, CoveredStays
<1>4. ChainInv'
  BY <1>1, <1>3 DEF ChainInv
<1> QED
  BY <1>1, <1>2, <1>4 DEF World

\* Writing back what was read, in the casing the engine finds.
LEMMA RewriteStep == ASSUME PluginInv, NEW i, Rewrite(i) PROVE Steps(i)
<1> DEFINE c == calls[i]
           e == [c EXCEPT !.seen = blank]
<1>1. At(i, "rewrite") /\ UNCHANGED <<chain, dropped, crashes, project>> /\ Goes(i, e, << >>)
      /\ manifest' = rewritten(c.seen) /\ lock' = 0
  BY DEF Rewrite, Writes
<1>2. lock = i /\ c.seen = manifest /\ c \in Call /\ "rewrite" \in Leg \ Telling /\ i \in DOMAIN calls
  BY <1>1, AtLeg, InSection DEF Holding, Writing, Telling
<1>3. manifest' = [manifest EXCEPT !.lower = {}] /\ manifest \in Manifest /\ dropped \subseteq DOMAIN chain
      /\ Remembered(manifest) \subseteq DOMAIN chain
  BY <1>1, <1>2 DEF rewritten, PluginInv, World, ChainInv
<1>4. /\ manifest' \in Manifest /\ manifest'.impls = manifest.impls /\ manifest'.proxies = manifest.proxies
      /\ manifest'.lower = {}
  BY <1>3 DEF Manifest
<1>5. Remembered(manifest') = Remembered(manifest) /\ \A a : Recorded(manifest', a) <=> Recorded(manifest, a)
  BY <1>4 DEF Remembered, Recorded
<1>6. Grows /\ World'
  BY <1>1, <1>3, <1>4, <1>5, ManifestStep
<1>7. << >> \in Detours("rewrite") /\ e \in Call /\ Same(e, c) /\ Carried(e, c) /\ e.todo = c.todo
  <2>1. blank \in Manifest
    BY DEF blank, Manifest, Address
  <2> QED
    BY <1>2, <2>1 DEF Detours, Call, Same, Carried
<1> HIDE DEF e
<1>8. Moves(i) /\ Advance(i, "rewrite", e, << >>)
  BY <1>1, <1>7, GoesOn
<1>9. Facts(calls[i], Legs(i))'
  BY <1>1, <1>2, <1>6, <1>7, <1>8, SilentFacts
<1>10. ~Settled(i)' => Poised(i)'
  BY <1>4, <1>8 DEF Advance, Comes, Poised, Holding
<1> QED
  BY <1>1, <1>2, <1>6, <1>8, <1>9, <1>10 DEF Steps

\* A section that fails.
LEMMA FailsStep ==
  ASSUME PluginInv, NEW i, NEW leg \in Holding, At(i, leg), Fails(i), UNCHANGED <<chain, dropped, crashes, project>>
  PROVE  Steps(i)
<1>1. Unmoved /\ lock' = 0 /\ lock = i /\ Refuse(i)
  BY InSection DEF Fails, Unmoved
<1> QED
  BY <1>1, StillWorld, RefuseStep DEF Unmoved, Frees


\* A section that ends, with what its call knows of the world it leaves.
LEMMA EndsSection ==
  ASSUME PluginInv, NEW i, NEW leg \in Holding, At(i, leg), leg \notin {"rewrite", "deploy"},
         NEW e \in Call, Same(e, calls[i]), e.todo = calls[i].todo, NEW more \in Detours(leg),
         more # <<"deploy">>, Goes(i, e, more), lock' = 0, Grows, World',
         \A d, legs : Same(d, calls[i]) /\ Carried(d, e) /\ Legs(i) \subseteq legs \cup {leg}
                      /\ legs \subseteq Legs(i) \cup Elements(more) => Facts(d, legs)'
  PROVE  Steps(i)
<1>1. Moves(i) /\ Advance(i, leg, e, more)
  BY GoesOn
<1>2. Facts(calls[i], Legs(i))'
  <2>1. PICK d : d = calls'[i]
    OBVIOUS
  <2>2. PICK legs : legs = Legs(i)'
    OBVIOUS
  <2>3. /\ Same(d, calls[i]) /\ Carried(d, e) /\ Legs(i) \subseteq legs \cup {leg}
        /\ legs \subseteq Legs(i) \cup Elements(more)
    BY <1>1, <2>1, <2>2 DEF Moves, Advance
  <2>4. Facts(d, legs)'
    BY <2>3
  <2> QED
    BY <2>1, <2>2, <2>4, NowKnows
<1>3. ~Settled(i)' => Poised(i)'
  <2>1. leg \notin {"scan", "rewrite", "enter", "deploy"}
    BY DEF Holding, Writing
  <2> QED
    BY <1>1, <2>1, ComesToOrdinary
<1>4. lock = i
  BY InSection
<1> QED
  BY <1>1, <1>2, <1>3, <1>4 DEF Steps

\* What a call knew it knows of the next world too.
LEMMA KnownNext ==
  ASSUME PluginInv, Grows, NEW i, NEW leg, At(i, leg), NEW d, Same(d, calls[i]), Carried(d, calls[i])
  PROVE  \A legs : legs = Legs(i) => Facts(d, legs)'
<1> SUFFICES ASSUME NEW legs, legs = Legs(i) PROVE Facts(d, legs)'
  OBVIOUS
<1>1. Facts(calls[i], legs)
  BY AtLeg
<1>2. Facts(d, legs)
  <2>1. "verify" \notin Telling
    BY DEF Telling
  <2> QED
    BY <1>1, <2>1, FactsOn
<1> QED
  BY <1>2, FactsStay

\* The addresses of a version with one more.
LEMMA OneMore ==
  ASSUME NEW s \in Seq(Address), NEW a \in Address
  PROVE  /\ Append(s, a) \in Seq(Address) /\ Elements(Append(s, a)) = Elements(s) \cup {a}
         /\ merged(s, a) \in Seq(Address) /\ Elements(merged(s, a)) = Elements(s) \cup {a}
<1> DEFINE t == Append(s, a)
<1>1. /\ t \in Seq(Address) /\ Len(t) = Len(s) + 1 /\ Len(s) \in Nat
      /\ \A k \in 1..Len(s) : t[k] = s[k]
      /\ t[Len(s) + 1] = a
  BY AppendProperties, LenProperties
<1>2. DOMAIN t = 1..(Len(s) + 1) /\ DOMAIN s = 1..Len(s)
  BY <1>1, LenProperties
<1> HIDE DEF t
<1>3. Elements(t) \subseteq Elements(s) \cup {a}
  <2> SUFFICES ASSUME NEW k \in DOMAIN t PROVE t[k] \in Elements(s) \cup {a}
    BY DEF Elements
  <2>1. k \in 1..Len(s) \/ k = Len(s) + 1
    BY <1>1, <1>2
  <2> QED
    BY <1>1, <1>2, <2>1 DEF Elements
<1>4. Elements(s) \cup {a} \subseteq Elements(t)
  <2>1. Len(s) + 1 \in DOMAIN t
    BY <1>1, <1>2
  <2>2. \A k \in DOMAIN s : k \in DOMAIN t /\ t[k] = s[k]
    BY <1>1, <1>2
  <2> QED
    BY <1>1, <2>1, <2>2 DEF Elements
<1> QED
  BY <1>1, <1>3, <1>4 DEF merged, t

\* The manifest with one more address of a version.
LEMMA StoresOne ==
  ASSUME PluginInv, NEW v \in Contracts, NEW a \in DOMAIN chain, NEW t \in Seq(Address),
         Elements(t) = Elements(manifest.impls[v]) \cup {a},
         manifest' = [manifest EXCEPT !.impls[v] = t], UNCHANGED <<chain, dropped, crashes, project>>
  PROVE  Grows /\ World' /\ Kept(a)'
<1>1. /\ manifest \in Manifest /\ dropped \subseteq DOMAIN chain /\ Remembered(manifest) \subseteq DOMAIN chain
      /\ manifest.impls \in [Contracts -> Seq(Address)]
  BY Typed DEF PluginInv, World, ChainInv
<1>2. /\ manifest' \in Manifest /\ manifest'.proxies = manifest.proxies /\ manifest'.lower = manifest.lower
      /\ manifest'.impls = [manifest.impls EXCEPT ![v] = t]
  BY <1>1 DEF Manifest
<1>3. Remembered(manifest') = Remembered(manifest) \cup {a}
  <2>1. \A b : b \in Remembered(manifest') <=> \E c \in Contracts : b \in Elements(manifest'.impls[c])
    BY RememberedUnder
  <2>2. \A b : b \in Remembered(manifest) <=> \E c \in Contracts : b \in Elements(manifest.impls[c])
    BY RememberedUnder
  <2>3. manifest'.impls[v] = t /\ \A c \in Contracts : c # v => manifest'.impls[c] = manifest.impls[c]
    BY <1>1, <1>2
  <2>4. ASSUME NEW b \in Remembered(manifest') PROVE b \in Remembered(manifest) \cup {a}
    BY <2>1, <2>2, <2>3, <2>4
  <2>5. ASSUME NEW b \in Remembered(manifest) \cup {a} PROVE b \in Remembered(manifest')
    BY <2>1, <2>2, <2>3, <2>5
  <2> QED
    BY <2>4, <2>5
<1>4. \A b : Recorded(manifest', b) <=> Recorded(manifest, b)
  BY <1>2 DEF Recorded
<1>5. Grows /\ World'
  BY <1>1, <1>2, <1>3, <1>4, ManifestStep
<1> QED
  BY <1>3, <1>5 DEF Kept

\* The deployed implementation is stored.
LEMMA StoreStep == ASSUME PluginInv, NEW i, Store(i) PROVE Steps(i)
<1> DEFINE c == calls[i]
           e == [c EXCEPT !.seen = blank]
<1>1. At(i, "store") /\ UNCHANGED <<chain, dropped, crashes, project>>
  BY DEF Store
<1>2. /\ lock = i /\ c.seen = manifest /\ c \in Call /\ "store" \in Holding /\ c.contract \in Contracts
      /\ Facts(c, Legs(i)) /\ "store" \in Legs(i) /\ i \in DOMAIN calls
  BY <1>1, AtLeg, InSection DEF Holding
<1>3. CASE Fails(i)
  BY <1>1, <1>2, <1>3, FailsStep
<1>4. CASE Writes(i, [c.seen EXCEPT !.impls[c.contract] = Append(@, c.impl)], << >>)
  <2>1. PICK v \in Contracts : v = c.contract
    BY <1>2
  <2>2. PICK a \in DOMAIN chain : a = c.impl
    BY <1>2 DEF Facts
  <2>3. PICK t : t = Append(manifest.impls[v], a)
    OBVIOUS
  <2>4. t \in Seq(Address) /\ Elements(t) = Elements(manifest.impls[v]) \cup {a}
    BY <2>3, OneMore, Typed DEF Address
  <2>5. manifest' = [manifest EXCEPT !.impls[v] = t] /\ lock' = 0 /\ Goes(i, e, << >>)
    BY <1>2, <1>4, <2>1, <2>2, <2>3 DEF Writes
  <2>6. Grows /\ World' /\ Kept(a)'
    BY <1>1, <2>4, <2>5, StoresOne
  <2>7. << >> \in Detours("store") /\ << >> # <<"deploy">> /\ Elements(<< >>) = {}
    BY DEF Detours, Elements
  <2>8. e \in Call /\ Same(e, c) /\ Carried(e, c) /\ e.todo = c.todo
    <3>1. blank \in Manifest
      BY DEF blank, Manifest, Address
    <3> QED
      BY <1>2, <3>1 DEF Call, Same, Carried
  <2> HIDE DEF e
  <2>9. ASSUME NEW d, NEW legs, Same(d, c), Carried(d, e), Legs(i) \subseteq legs \cup {"store"},
               legs \subseteq Legs(i) \cup Elements(<< >>)
        PROVE  Facts(d, legs)'
    <3>1. Carried(d, c) /\ d.impl = a
      BY <2>2, <2>8, <2>9 DEF Carried
    <3>2. PICK old : old = Legs(i)
      OBVIOUS
    <3>3. Facts(d, old)'
      BY <1>1, <2>6, <2>9, <3>1, <3>2, KnownNext
    <3>4. Kept(d.impl)'
      BY <2>6, <3>1 DEF Kept
    <3> QED
      BY <2>7, <2>9, <3>2, <3>3, <3>4 DEF Facts, Storing
  <2> QED
    BY <1>1, <1>2, <2>5, <2>6, <2>7, <2>8, <2>9, EndsSection
<1> QED
  BY <1>3, <1>4 DEF Store

\* An adoption's implementation is merged into its version.
LEMMA RecordImplStep == ASSUME PluginInv, NEW i, RecordImpl(i) PROVE Steps(i)
<1> DEFINE c == calls[i]
           e == [c EXCEPT !.seen = blank]
<1>1. At(i, "recordImpl") /\ UNCHANGED <<chain, dropped, crashes, project>>
  BY DEF RecordImpl
<1>2. /\ lock = i /\ c.seen = manifest /\ c \in Call /\ "recordImpl" \in Holding /\ c.contract \in Contracts
      /\ Facts(c, Legs(i)) /\ i \in DOMAIN calls
      /\ c.name = "forceImport" /\ "inspect" \notin Legs(i)
  BY <1>1, AtLeg, InSection DEF Holding, Writing, Owners, Before, Stage
<1>3. CASE Fails(i)
  BY <1>1, <1>2, <1>3, FailsStep
<1>4. CASE Writes(i, [c.seen EXCEPT !.impls[c.contract] = merged(@, c.impl)], << >>)
  <2>1. PICK v \in Contracts : v = c.contract
    BY <1>2
  <2>2. PICK a \in DOMAIN chain : a = c.impl
    BY <1>2 DEF Facts
  <2>3. PICK t : t = merged(manifest.impls[v], a)
    OBVIOUS
  <2>4. t \in Seq(Address) /\ Elements(t) = Elements(manifest.impls[v]) \cup {a}
    BY <2>3, OneMore, Typed DEF Address
  <2>5. manifest' = [manifest EXCEPT !.impls[v] = t] /\ lock' = 0 /\ Goes(i, e, << >>)
    BY <1>2, <1>4, <2>1, <2>2, <2>3 DEF Writes
  <2>6. Grows /\ World' /\ Kept(a)'
    BY <1>1, <2>4, <2>5, StoresOne
  <2>7. << >> \in Detours("recordImpl") /\ << >> # <<"deploy">> /\ Elements(<< >>) = {}
    BY DEF Detours, Elements
  <2>8. e \in Call /\ Same(e, c) /\ Carried(e, c) /\ e.todo = c.todo
    <3>1. blank \in Manifest
      BY DEF blank, Manifest, Address
    <3> QED
      BY <1>2, <3>1 DEF Call, Same, Carried
  <2> HIDE DEF e
  <2>9. ASSUME NEW d, NEW legs, Same(d, c), Carried(d, e), Legs(i) \subseteq legs \cup {"recordImpl"},
               legs \subseteq Legs(i) \cup Elements(<< >>)
        PROVE  Facts(d, legs)'
    <3>1. Carried(d, c) /\ d.impl = a /\ d.name = "forceImport"
      BY <1>2, <2>2, <2>8, <2>9 DEF Carried, Same
    <3>2. PICK old : old = Legs(i)
      OBVIOUS
    <3>3. Facts(d, old)'
      BY <1>1, <2>6, <2>9, <3>1, <3>2, KnownNext
    <3>4. Kept(d.impl)'
      BY <2>6, <3>1 DEF Kept
    <3> QED
      BY <1>2, <2>7, <2>9, <3>1, <3>2, <3>3, <3>4 DEF Facts, Storing, Fetching
  <2> QED
    BY <1>1, <1>2, <2>5, <2>6, <2>7, <2>8, <2>9, EndsSection
<1> QED
  BY <1>3, <1>4 DEF RecordImpl

\* The proxy, or what it was before, is recorded.
LEMMA RecordProxyStep == ASSUME PluginInv, NEW i, RecordProxy(i) PROVE Steps(i)
<1> DEFINE c == calls[i]
           e == [c EXCEPT !.seen = blank]
           same == {p \in c.seen.proxies : p.at = subject(c) /\ p.at \notin c.seen.lower}
           new == [at |-> subject(c), kind |-> c.kind]
<1>1. At(i, "record") /\ UNCHANGED <<chain, dropped, crashes, project>>
  BY DEF RecordProxy
<1>2. /\ lock = i /\ c.seen = manifest /\ c \in Call /\ "record" \in Holding /\ "record" \in Leg \ Telling
      /\ Facts(c, Legs(i)) /\ "record" \in Legs(i) /\ i \in DOMAIN calls /\ manifest \in Manifest
      /\ c.name \in {"deployProxy", "deployBeaconProxy", "upgradeProxy", "forceImport"}
      /\ {"lookup", "inspect", "send", "create", "recordImpl"} \cap Legs(i) = {}
  <2>1. /\ Stage("record") = 6
        /\ \A l \in {"lookup", "inspect", "send", "create", "recordImpl"} : Stage(l) \in 1..5
    BY DEF Stage
  <2>2. \A l \in {"lookup", "inspect", "send", "create", "recordImpl"} : ~Before("record", l)
    BY <2>1 DEF Before
  <2> QED
    BY <1>1, <2>2, AtLeg, InSection, Typed DEF Holding, Writing, Owners, Telling
<1>3. CASE Fails(i)
  BY <1>1, <1>2, <1>3, FailsStep
<1>4. CASE Writes(i, [c.seen EXCEPT !.proxies = (@ \ same) \cup {new}], << >>)
  <2>1. c.kind \in Kind \cup {"beacon"}
    BY <1>2 DEF Facts, Call, Kind
  <2>2. new \in [at : Address, kind : Kind \cup {"beacon"}] /\ new.at = subject(c)
    BY <1>2, <2>1 DEF Call, subject
  <2>3. PICK ps : ps = (manifest.proxies \ same) \cup {new}
    OBVIOUS
  <2>4. manifest' = [manifest EXCEPT !.proxies = ps] /\ lock' = 0 /\ Goes(i, e, << >>)
    BY <1>2, <1>4, <2>3 DEF Writes
  <2>5. /\ manifest' \in Manifest /\ manifest'.proxies = ps /\ manifest'.lower = manifest.lower
        /\ manifest'.impls = manifest.impls
    <3>1. ps \subseteq [at : Address, kind : Kind \cup {"beacon"}]
      BY <1>2, <2>2, <2>3 DEF Manifest
    <3> QED
      BY <1>2, <2>4, <3>1 DEF Manifest
  <2>6. Remembered(manifest') = Remembered(manifest)
    BY <2>5 DEF Remembered
  <2>7. {p.at : p \in manifest.proxies} \subseteq {p.at : p \in manifest'.proxies}
    <3> SUFFICES ASSUME NEW p \in manifest.proxies PROVE \E q \in ps : q.at = p.at
      BY <2>5
    <3>1. CASE p \in same
      BY <2>2, <2>3, <3>1
    <3>2. CASE p \notin same
      BY <2>3, <3>2
    <3> QED
      BY <3>1, <3>2
  <2>8. ASSUME NEW a \in DOMAIN chain, chain[a].what \in Fronts, Recorded(manifest', a)
        PROVE  Recorded(manifest, a) \/ chain[a].by # 0 \/ Covered(a)
    <3>1. Recorded(manifest, a) \/ a = subject(c)
      BY <2>2, <2>3, <2>5, <2>8 DEF Recorded
    <3>2. CASE c.new # 0
      BY <1>2, <3>1, <3>2 DEF Facts, subject
    <3>3. ASSUME c.new = 0, a = c.target PROVE Covered(a)
      <4>1. CASE c.name = "upgradeProxy"
        BY <1>2, <3>3, <4>1 DEF Facts
      <4>2. CASE c.name = "forceImport"
        <5>1. Kept(c.impl) /\ (chain[c.target].points = c.impl \/ Covered(c.target))
          BY <1>2, <2>8, <3>3, <4>2 DEF Facts
        <5> QED
          BY <3>3, <5>1 DEF Covered
      <4>3. CASE c.name \in {"deployProxy", "deployBeaconProxy"}
        BY <1>2, <3>3, <4>3 DEF Facts
      <4> QED
        BY <1>2, <4>1, <4>2, <4>3
    <3> QED
      BY <3>1, <3>2, <3>3 DEF subject
  <2>9. Grows /\ World'
    <3>1. dropped \subseteq DOMAIN chain /\ Remembered(manifest) \subseteq DOMAIN chain
      BY DEF PluginInv, World, ChainInv
    <3> QED
      BY <1>1, <2>5, <2>6, <2>7, <2>8, <3>1, ManifestStep
  <2>10. << >> \in Detours("record") /\ << >> # <<"deploy">>
    BY DEF Detours
  <2>11. e \in Call /\ Same(e, c) /\ Carried(e, c) /\ e.todo = c.todo
    <3>1. blank \in Manifest
      BY DEF blank, Manifest, Address
    <3> QED
      BY <1>2, <3>1 DEF Call, Same, Carried
  <2> HIDE DEF e
  <2>12. Moves(i) /\ Advance(i, "record", e, << >>)
    BY <1>1, <2>4, <2>10, <2>11, GoesOn
  <2>13. Facts(calls[i], Legs(i))'
    BY <1>1, <1>2, <2>9, <2>10, <2>11, <2>12, SilentFacts
  <2>14. ~Settled(i)' => Poised(i)'
    BY <2>10, <2>12, ComesToOrdinary
  <2> QED
    BY <1>2, <2>4, <2>9, <2>12, <2>13, <2>14 DEF Steps
<1> QED
  BY <1>3, <1>4 DEF RecordProxy

\* What the engine judges invalid leaves the manifest, with what was merged into its version.
LEMMA RemoveStep == ASSUME PluginInv, NEW i, Remove(i) PROVE Steps(i)
<1> DEFINE c == calls[i]
           e == [c EXCEPT !.retried = TRUE, !.seen = blank]
           entry == c.seen.impls[c.contract]
           judged == entry # << >> /\ Head(entry) = c.impl
           retries == ~c.retried /\ c.redeploy # "never"
<1>1. /\ At(i, "remove") /\ UNCHANGED <<chain, crashes, project>> /\ lock' = 0
      /\ manifest' = IF judged THEN [c.seen EXCEPT !.impls[c.contract] = << >>] ELSE c.seen
      /\ dropped' = IF judged THEN dropped \cup Elements(entry) ELSE dropped
      /\ IF retries THEN Goes(i, e, <<"enter", "fetch">>) ELSE Refuse(i)
  BY DEF Remove
<1>2. /\ lock = i /\ c.seen = manifest /\ c \in Call /\ "remove" \in Holding /\ "remove" \in Leg \ Telling
      /\ i \in DOMAIN calls /\ manifest \in Manifest /\ c.contract \in Contracts
      /\ manifest.impls \in [Contracts -> Seq(Address)]
  BY <1>1, AtLeg, InSection, Typed DEF Holding, Writing, Telling
<1>3. Grows /\ World'
  <2>0. dropped \subseteq DOMAIN chain /\ Remembered(manifest) \subseteq DOMAIN chain
    BY DEF PluginInv, World, ChainInv
  <2>1. CASE ~judged
    <3>1. manifest' = manifest /\ Unmoved
      BY <1>1, <1>2, <2>1 DEF Unmoved
    <3> QED
      BY <3>1, StillWorld
  <2>2. CASE judged
    <3>1. PICK v \in Contracts : v = c.contract
      BY <1>2
    <3>2. manifest' = [manifest EXCEPT !.impls[v] = << >>] /\ dropped' = dropped \cup Elements(manifest.impls[v])
      BY <1>1, <1>2, <2>2, <3>1
    <3>3. /\ manifest' \in Manifest /\ manifest'.proxies = manifest.proxies /\ manifest'.lower = manifest.lower
          /\ manifest'.impls = [manifest.impls EXCEPT ![v] = << >>]
      <4>1. << >> \in Seq(Address)
        BY EmptySeq
      <4> QED
        BY <1>2, <3>2, <4>1 DEF Manifest
    <3>4. /\ manifest'.impls[v] = << >> /\ \A u \in Contracts : u # v => manifest'.impls[u] = manifest.impls[u]
          /\ Elements(<< >>) = {}
      BY <1>2, <3>3 DEF Elements
    <3>5. Remembered(manifest') \subseteq Remembered(manifest)
      BY <3>4, RememberedUnder
    <3>6. Remembered(manifest) \cup dropped \subseteq Remembered(manifest') \cup dropped'
      <4> SUFFICES ASSUME NEW a \in Remembered(manifest) PROVE a \in Remembered(manifest') \cup dropped'
        BY <3>2
      <4>1. PICK u \in Contracts : a \in Elements(manifest.impls[u])
        BY RememberedUnder
      <4>2. CASE u = v
        BY <3>2, <4>1, <4>2
      <4>3. CASE u # v
        BY <3>4, <4>1, <4>3, RememberedUnder
      <4> QED
        BY <4>2, <4>3
    <3>7. Elements(manifest.impls[v]) \subseteq Remembered(manifest)
      BY RememberedUnder
    <3>8. \A b : Recorded(manifest', b) <=> Recorded(manifest, b)
      BY <3>3 DEF Recorded
    <3> QED
      BY <1>1, <2>0, <3>2, <3>3, <3>5, <3>6, <3>7, <3>8, ManifestStep
  <2> QED
    BY <2>1, <2>2
<1>4. CASE ~retries
  <2>1. Moves(i) /\ Settled(i)'
    BY <1>1, <1>2, <1>4, AtLeg, Stops DEF Refuse
  <2> QED
    BY <1>1, <1>2, <1>3, <2>1 DEF Steps
<1>5. CASE retries
  <2>1. e \in Call /\ Same(e, c) /\ Carried(e, c) /\ e.todo = c.todo
    <3>1. blank \in Manifest
      BY DEF blank, Manifest, Address
    <3> QED
      BY <1>2, <3>1 DEF Call, Same, Carried
  <2>2. /\ <<"enter", "fetch">> \in Detours("remove")
        /\ <<"enter", "fetch">> # <<"deploy">> /\ <<"enter", "fetch">> # << >>
    BY DEF Detours
  <2>3. Goes(i, e, <<"enter", "fetch">>)
    BY <1>1, <1>5
  <2> HIDE DEF e
  <2>4. Moves(i) /\ Advance(i, "remove", e, <<"enter", "fetch">>)
    BY <1>1, <2>1, <2>2, <2>3, GoesOn
  <2>5. Facts(calls[i], Legs(i))'
    BY <1>1, <1>2, <1>3, <2>1, <2>2, <2>4, SilentFacts
  <2>6. ~Settled(i)' => Poised(i)'
    BY <2>2, <2>4, ComesToOrdinary
  <2> QED
    BY <1>1, <1>2, <1>3, <2>4, <2>5, <2>6 DEF Steps
<1> QED
  BY <1>4, <1>5

\* What is first under a version is remembered.
LEMMA HeadIsKept ==
  ASSUME PluginInv, NEW v \in Contracts, manifest.impls[v] # << >>
  PROVE  Head(manifest.impls[v]) \in Address /\ Kept(Head(manifest.impls[v]))
<1> DEFINE s == manifest.impls[v]
<1>1. s \in Seq(Address)
  BY Typed
<1>2. Head(s) = s[1] /\ Head(s) \in Address /\ 1 \in DOMAIN s
  BY <1>1, HeadTailProperties, EmptySeq, LenProperties
<1>3. Head(s) \in Elements(s)
  BY <1>2 DEF Elements
<1>4. Head(s) \in Remembered(manifest)
  BY <1>3, RememberedUnder
<1> QED
  BY <1>2, <1>4 DEF Kept

\* The record's implementation, or none.
LEMMA FetchStep == ASSUME PluginInv, NEW i, Fetch(i) PROVE Steps(i)
<1> DEFINE c == calls[i]
           entry == c.seen.impls[c.contract]
           held == entry # << >>
           live == held /\ chain[Head(entry)].live
           e == [[c EXCEPT !.seen = blank] EXCEPT !.impl = Head(entry)]
<1>1. At(i, "fetch") /\ Unmoved
  BY DEF Fetch, Unmoved
<1>2. /\ lock = i /\ c.seen = manifest /\ c \in Call /\ "fetch" \in Holding /\ c.contract \in Contracts
      /\ Facts(c, Legs(i)) /\ i \in DOMAIN calls /\ c.name \in Fetching
  BY <1>1, AtLeg, InSection DEF Holding, Writing, Owners
<1>3. Grows /\ World' /\ UNCHANGED manifest
  BY <1>1, StillWorld DEF Unmoved
<1>4. ASSUME NEW more \in {<< >>, <<"mine">>}, held, lock' = 0, Goes(i, e, more) PROVE Steps(i)
  <2>1. PICK a : a = Head(entry)
    OBVIOUS
  <2>2. a \in Address /\ Kept(a)
    BY <1>2, <1>4, <2>1, HeadIsKept
  <2>3. e \in Call /\ Same(e, c) /\ e.todo = c.todo /\ e.impl = a /\ e.kind = c.kind /\ e.new = c.new
    <3>1. blank \in Manifest
      BY DEF blank, Manifest, Address
    <3> QED
      BY <1>2, <2>1, <2>2, <3>1 DEF Call, Same
  <2> HIDE DEF e
  <2>4. more \in Detours("fetch") /\ more # <<"deploy">> /\ Elements(more) \subseteq {"mine"}
    BY <1>4 DEF Detours, Elements
  <2>5. ASSUME NEW d, NEW legs, Same(d, c), Carried(d, e), Legs(i) \subseteq legs \cup {"fetch"},
               legs \subseteq Legs(i) \cup Elements(more)
        PROVE  Facts(d, legs)'
    <3>1. d.name \in Fetching /\ d.impl = a /\ d.kind = c.kind /\ d.new = c.new
      BY <1>2, <2>3, <2>5 DEF Same, Carried
    <3>2. a \in DOMAIN chain
      BY <2>2 DEF Kept, PluginInv, World, ChainInv
    <3>3. Facts(d, legs)
      BY <1>2, <2>2, <2>4, <2>5, <3>1, <3>2 DEF Facts, Same, Storing, Fetching
    <3> QED
      BY <1>3, <3>3, FactsStay
  <2> QED
    BY <1>1, <1>2, <1>3, <1>4, <2>3, <2>4, <2>5, EndsSection
<1>5. CASE /\ IF held THEN live /\ c.redeploy = "always" ELSE c.redeploy # "never"
           /\ Goes(i, c, <<"deploy">>) /\ UNCHANGED lock
  <2>1. c.redeploy # "always" => entry = << >>
    BY <1>5
  <2>2. /\ <<"deploy">> \in Detours("fetch") /\ Elements(<<"deploy">>) = {"deploy"}
        /\ <<"deploy">> # << >> /\ <<"deploy">>[1] = "deploy" /\ Same(c, c)
    BY DEF Detours, Elements, Same
  <2>3. Moves(i) /\ Advance(i, "fetch", c, <<"deploy">>)
    BY <1>1, <1>2, <1>5, <2>2, GoesOn
  <2>4. Facts(calls[i], Legs(i))'
    <3>1. PICK d : d = calls'[i]
      OBVIOUS
    <3>2. PICK legs : legs = Legs(i)'
      OBVIOUS
    <3>3. /\ Same(d, c) /\ Carried(d, c) /\ Legs(i) \subseteq legs \cup {"fetch"}
          /\ legs \subseteq Legs(i) \cup {"deploy"} /\ "deploy" \in legs
      BY <2>2, <2>3, <3>1, <3>2 DEF Moves, Advance
    <3>4. Facts(d, legs)
      BY <1>2, <3>3 DEF Facts, Same, Carried, Storing, Fetching
    <3> QED
      BY <1>3, <3>1, <3>2, <3>4, KnowsNext
  <2>5. ~Settled(i)' => Poised(i)'
    <3>1. calls'[i].seen = c.seen /\ calls'[i].redeploy = c.redeploy /\ calls'[i].contract = c.contract
      BY <2>3 DEF Moves, Advance, Same
    <3>2. ~Settled(i)' => Head(calls'[i].todo) = "deploy"
      BY <2>2, <2>3 DEF Advance, Comes
    <3> QED
      BY <1>2, <1>3, <1>5, <2>1, <3>1, <3>2 DEF Poised
  <2> QED
    BY <1>2, <1>3, <1>5, <2>3, <2>4, <2>5 DEF Steps
<1>6. CASE Refuse(i) /\ lock' = 0
  BY <1>1, <1>2, <1>3, <1>6, RefuseStep DEF Frees
<1> QED
  BY <1>4, <1>5, <1>6 DEF Fetch

-----------------------------------------------------------------------------
(* The legs that change the chain *)

\* Code that is deployed over what is kept, or over a beacon.
LEMMA ChainAppends ==
  ASSUME PluginInv, NEW code \in Code, chain' = Append(chain, code), Len(chain) < project.codes,
         UNCHANGED <<manifest, dropped, crashes, project>>,
         code.what \in Fronts => Kept(code.points),
         code.what = "beacon-proxy" => Is(code.points, {"beacon"})
  PROVE  /\ Grows /\ World'
         /\ Len(chain) + 1 \in DOMAIN chain' /\ chain'[Len(chain) + 1] = code
         /\ DOMAIN chain' = DOMAIN chain \cup {Len(chain) + 1} /\ Len(chain) + 1 \notin DOMAIN chain
<1>1. /\ chain \in Seq(Code) /\ Len(chain) \in Nat /\ DOMAIN chain = 1..Len(chain) /\ ChainInv
      /\ project.codes \in Nat
  BY Typed DEF PluginInv, World, Project
<1>2. /\ chain' \in Seq(Code) /\ Len(chain') = Len(chain) + 1
      /\ \A a \in 1..Len(chain) : chain'[a] = chain[a]
      /\ chain'[Len(chain) + 1] = code
  BY <1>1, AppendProperties
<1>3. /\ DOMAIN chain' = DOMAIN chain \cup {Len(chain) + 1} /\ Len(chain) + 1 \notin DOMAIN chain
      /\ \A a \in DOMAIN chain : chain'[a] = chain[a]
  <2>1. DOMAIN chain' = 1..(Len(chain) + 1)
    BY <1>2, LenProperties
  <2> QED
    BY <1>1, <1>2, <2>1
<1>4. Grows
  BY <1>3 DEF Grows
<1>5. \A a : Kept(a) => a \in DOMAIN chain
  BY DEF Kept, PluginInv, World, ChainInv
<1>6. ASSUME NEW a \in DOMAIN chain'
      PROVE  /\ chain'[a].what \in Fronts => chain'[a].points \in DOMAIN chain'
             /\ chain'[a].what = "beacon-proxy" =>
                  chain'[a].points \in DOMAIN chain' /\ chain'[chain'[a].points].what = "beacon"
             /\ chain'[a].what \in Fronts /\ (chain'[a].by # 0 \/ Recorded(manifest', a)) => Covered(a)'
  <2>1. CASE a \in DOMAIN chain
    <3>1. Covered(a) => Covered(a)'
      BY <1>4, <2>1, CoveredStays
    <3> QED
      BY <1>1, <1>3, <2>1, <3>1 DEF ChainInv
  <2>2. CASE a = Len(chain) + 1
    <3>1. chain'[a] = code
      BY <1>2, <2>2
    <3>2. Kept(code.points) => Covered(a)'
      BY <3>1 DEF Covered, Kept
    <3> QED
      BY <1>3, <1>5, <3>1, <3>2 DEF Is
  <2> QED
    BY <1>3, <1>6, <2>1, <2>2
<1>7. World'
  <2>1. Len(chain') <= project'.codes
    BY <1>1, <1>2
  <2>2. ChainInv'
    BY <1>1, <1>3, <1>6 DEF ChainInv
  <2> QED
    BY <1>2, <1>3, <2>1, <2>2 DEF World, PluginInv
<1> QED
  BY <1>2, <1>3, <1>4, <1>7

\* What an upgrade moves is moved onto what is kept.
LEMMA ChainUpgrades ==
  ASSUME PluginInv, NEW t \in DOMAIN chain, chain[t].what \in Fronts, NEW a, Kept(a),
         chain' = [chain EXCEPT ![t].points = a], UNCHANGED <<manifest, dropped, crashes, project>>
  PROVE  Grows /\ World' /\ Covered(t)'
<1>1. /\ chain \in Seq(Code) /\ ChainInv /\ chain[t] \in Code
      /\ \A u : Kept(u) => u \in DOMAIN chain
  BY Typed DEF Kept, PluginInv, World, ChainInv
<1>2. PICK code : code = [chain[t] EXCEPT !.points = a]
  OBVIOUS
<1>3. code \in Code /\ code.what = chain[t].what /\ code.by = chain[t].by /\ code.points = a
  BY <1>1, <1>2, Typed DEF Code, Address
<1>4. chain' = [chain EXCEPT ![t] = code]
  BY <1>2
<1>5. /\ chain' \in Seq(Code) /\ Len(chain') = Len(chain) /\ DOMAIN chain' = DOMAIN chain /\ chain'[t] = code
      /\ \A u \in DOMAIN chain : u # t => chain'[u] = chain[u]
  BY <1>1, <1>3, <1>4, Excepted
<1>6. Grows
  <2>1. ASSUME NEW u \in DOMAIN chain
        PROVE  /\ chain'[u].what = chain[u].what /\ chain'[u].by = chain[u].by
               /\ chain'[u].points = chain[u].points \/ chain'[u].points \in Remembered(manifest') \cup dropped'
    <3>1. CASE u = t
      BY <1>3, <1>5, <3>1 DEF Kept
    <3>2. CASE u # t
      BY <1>5, <3>2
    <3> QED
      BY <3>1, <3>2
  <2> QED
    BY <1>5, <2>1 DEF Grows
<1>7. Covered(t)'
  BY <1>3, <1>5 DEF Covered, Kept
<1>8. ASSUME NEW u \in DOMAIN chain'
      PROVE  /\ chain'[u].what \in Fronts => chain'[u].points \in DOMAIN chain'
             /\ chain'[u].what = "beacon-proxy" =>
                  chain'[u].points \in DOMAIN chain' /\ chain'[chain'[u].points].what = "beacon"
             /\ chain'[u].what \in Fronts /\ (chain'[u].by # 0 \/ Recorded(manifest', u)) => Covered(u)'
  <2>1. CASE u = t
    <3>1. chain[t].what # "beacon-proxy"
      BY DEF Fronts, Kind
    <3> QED
      BY <1>1, <1>3, <1>5, <1>7, <2>1, <3>1
  <2>2. CASE u # t
    <3>1. Covered(u) => Covered(u)'
      BY <1>5, <1>6, <1>8, CoveredStays
    <3>2. \A v \in DOMAIN chain : chain'[v].what = chain[v].what
      BY <1>6 DEF Grows
    <3> QED
      BY <1>1, <1>5, <1>8, <2>2, <3>1, <3>2 DEF ChainInv
  <2> QED
    BY <2>1, <2>2
<1>9. World'
  <2>1. ChainInv'
    BY <1>1, <1>5, <1>8 DEF ChainInv
  <2> QED
    BY <1>5, <2>1 DEF World, PluginInv
<1> QED
  BY <1>6, <1>7, <1>9

\* A transaction whose call goes on outside a section.
LEMMA SendsStep ==
  ASSUME PluginInv, NEW i, NEW leg \in {"create", "send"}, At(i, leg), lock' = lock, UNCHANGED manifest,
         Grows, World', NEW e \in Call, Same(e, calls[i]), e.todo = calls[i].todo, Goes(i, e, << >>),
         \A d, legs : Same(d, calls[i]) /\ Carried(d, e) /\ Legs(i) \subseteq legs \cup {leg}
                      /\ legs \subseteq Legs(i) => Facts(d, legs)'
  PROVE  Steps(i)
<1>1. << >> \in Detours(leg) /\ << >> # <<"deploy">> /\ Elements(<< >>) = {}
  BY DEF Detours, Elements
<1>2. Moves(i) /\ Advance(i, leg, e, << >>)
  BY <1>1, GoesOn
<1>3. Facts(calls[i], Legs(i))'
  <2>1. PICK d : d = calls'[i]
    OBVIOUS
  <2>2. PICK legs : legs = Legs(i)'
    OBVIOUS
  <2>3. Same(d, calls[i]) /\ Carried(d, e) /\ Legs(i) \subseteq legs \cup {leg} /\ legs \subseteq Legs(i)
    BY <1>1, <1>2, <2>1, <2>2 DEF Moves, Advance
  <2>4. Facts(d, legs)'
    BY <2>3
  <2> QED
    BY <2>1, <2>2, <2>4, NowKnows
<1>4. ~Settled(i)' => Poised(i)'
  BY <1>1, <1>2, ComesToOrdinary
<1> QED
  BY <1>2, <1>3, <1>4 DEF Steps

\* The engine's deployment, inside its section.
LEMMA DeployStep == ASSUME PluginInv, NEW i, Deploy(i) PROVE Steps(i)
<1> DEFINE c == calls[i]
           a == Len(chain) + 1
           code == Deployed("implementation", c.contract, 0, i)
           e == [c EXCEPT !.impl = a]
<1>1. At(i, "deploy") /\ Len(chain) < project.codes /\ UNCHANGED <<manifest, dropped, crashes, project>>
  BY DEF Deploy
<1>2. /\ lock = i /\ c.seen = manifest /\ c \in Call /\ "deploy" \in Holding /\ c.contract \in Contracts
      /\ Facts(c, Legs(i)) /\ i \in DOMAIN calls /\ i \in Nat /\ Len(chain) \in Nat
  BY <1>1, AtLeg, InSection, Typed DEF Holding
<1>3. ASSUME NEW live \in BOOLEAN, NEW new, new = [code EXCEPT !.live = live]
      PROVE  new \in Code /\ new.what \notin Fronts \cup {"beacon-proxy"}
  <2>1. /\ code.what = "implementation" /\ code.of = c.contract /\ code.points = 0 /\ code.live = TRUE /\ code.by = i
        /\ code = [what |-> "implementation", of |-> c.contract, points |-> 0, live |-> TRUE, by |-> i]
    BY DEF Deployed
  <2>2. new = [what |-> "implementation", of |-> c.contract, points |-> 0, live |-> live, by |-> i]
    BY <1>3, <2>1
  <2> QED
    BY <1>2, <2>2 DEF Code, What, Address, Fronts, Kind
<1>4. ASSUME NEW live \in BOOLEAN, chain' = Append(chain, [code EXCEPT !.live = live])
      PROVE  Grows /\ World' /\ a \in DOMAIN chain'
  <2>1. PICK new : new = [code EXCEPT !.live = live]
    OBVIOUS
  <2>2. new \in Code /\ new.what \notin Fronts \cup {"beacon-proxy"}
    BY <1>3, <2>1
  <2> QED
    BY <1>1, <1>4, <2>1, <2>2, ChainAppends
<1>5. ASSUME NEW live \in BOOLEAN, chain' = Append(chain, [code EXCEPT !.live = live]),
             Goes(i, e, <<"store", "mine">>), UNCHANGED lock
      PROVE  Steps(i)
  <2>1. Grows /\ World' /\ a \in DOMAIN chain'
    BY <1>4, <1>5
  <2>2. /\ e \in Call /\ Same(e, c) /\ e.todo = c.todo /\ e.impl = a /\ e.kind = c.kind /\ e.new = c.new
        /\ e.seen = c.seen
    <3>1. PICK n \in Address : n = a
      BY <1>2 DEF Address
    <3>2. e = [c EXCEPT !.impl = n]
      BY <3>1
    <3> QED
      BY <1>2, <3>1, <3>2 DEF Call, Same
  <2> HIDE DEF e
  <2>3. /\ <<"store", "mine">> \in Detours("deploy") /\ Elements(<<"store", "mine">>) = {"store", "mine"}
        /\ <<"store", "mine">> # << >> /\ <<"store", "mine">>[1] = "store"
    BY DEF Detours, Elements
  <2>4. Moves(i) /\ Advance(i, "deploy", e, <<"store", "mine">>)
    BY <1>1, <1>5, <2>2, <2>3, GoesOn
  <2>5. Facts(calls[i], Legs(i))'
    <3>1. PICK d : d = calls'[i]
      OBVIOUS
    <3>2. PICK legs : legs = Legs(i)'
      OBVIOUS
    <3>3. PICK old : old = Legs(i)
      OBVIOUS
    <3>4. PICK f : f = c
      OBVIOUS
    <3>5. Facts(f, old)'
      <4>1. Facts(f, old)
        BY <1>2, <3>3, <3>4
      <4> QED
        BY <2>1, <4>1, FactsStay
    <3>6. /\ Same(d, f) /\ d.impl = a /\ d.kind = f.kind /\ d.new = f.new /\ f.name \in Fetching
          /\ old \subseteq legs \cup {"deploy"} /\ legs \subseteq old \cup {"store", "mine"} /\ "store" \in legs
      BY <1>1, <1>2, <2>2, <2>3, <2>4, <3>1, <3>2, <3>3, <3>4, AtLeg DEF Moves, Advance, Same, Carried, Owners
    <3>7. PICK n : n = a
      OBVIOUS
    <3>8. d.impl = n /\ n \in DOMAIN chain'
      BY <2>1, <3>6, <3>7
    <3>9. Facts(d, legs)'
      BY <3>5, <3>6, <3>8 DEF Facts, Same, Storing, Fetching
    <3> QED
      BY <3>1, <3>2, <3>9, NowKnows
  <2>6. ~Settled(i)' => Poised(i)'
    <3>1. calls'[i].seen = c.seen
      BY <2>2, <2>4 DEF Advance
    <3>2. ~Settled(i)' => Head(calls'[i].todo) = "store"
      BY <2>3, <2>4 DEF Advance, Comes
    <3> QED
      BY <1>1, <1>2, <1>5, <3>1, <3>2 DEF Poised
  <2> QED
    BY <1>1, <1>2, <1>5, <2>1, <2>4, <2>5, <2>6 DEF Steps
<1>6. CASE chain' = Append(chain, code) /\ Refuse(i) /\ lock' = 0
  <2>1. code = [what |-> "implementation", of |-> c.contract, points |-> 0, live |-> TRUE, by |-> i]
    BY DEF Deployed
  <2>2. code \in Code /\ code.what \notin Fronts \cup {"beacon-proxy"}
    <3>1. PICK new : new = code
      OBVIOUS
    <3>2. new = [what |-> "implementation", of |-> c.contract, points |-> 0, live |-> TRUE, by |-> i]
      BY <2>1, <3>1
    <3>3. new \in Code /\ new.what \notin Fronts \cup {"beacon-proxy"}
      BY <1>2, <3>2 DEF Code, What, Address, Fronts, Kind
    <3> QED
      BY <3>1, <3>3
  <2>3. Grows /\ World'
    BY <1>1, <1>6, <2>2, ChainAppends
  <2> QED
    BY <1>1, <1>2, <1>6, <2>3, RefuseStep DEF Frees
<1>7. CASE Refuse(i) /\ lock' = 0 /\ UNCHANGED chain
  <2>1. Unmoved
    BY <1>1, <1>7 DEF Unmoved
  <2> QED
    BY <1>1, <1>2, <1>7, <2>1, StillWorld, RefuseStep DEF Frees
<1> QED
  BY <1>5, <1>6, <1>7 DEF Deploy

\* The proxy or the beacon of a deployment, over what it resolved or a beacon it was given.
LEMMA CreateStep == ASSUME PluginInv, NEW i, Create(i) PROVE Steps(i)
<1> DEFINE c == calls[i]
           n == Len(chain) + 1
           what == CASE c.name = "deployProxy" -> c.kind
                     [] c.name = "deployBeacon" -> "beacon"
                     [] OTHER -> "beacon-proxy"
           code == Deployed(what, "-", IF what = "beacon-proxy" THEN c.target ELSE c.impl, i)
           kind == IF what = "beacon-proxy" THEN "beacon" ELSE c.kind
           e == [c EXCEPT !.new = n, !.kind = kind]
<1>1. At(i, "create") /\ UNCHANGED <<manifest, lock, dropped, crashes, project>>
  BY DEF Create
<1>2. /\ c \in Call /\ Facts(c, Legs(i)) /\ i \in DOMAIN calls /\ i \in Nat /\ i # 0 /\ n \in Nat /\ n # 0
      /\ c.name \in {"deployProxy", "deployBeacon", "deployBeaconProxy"}
      /\ (Storing \cup {"kind"}) \cap Legs(i) = {}
  <2>1. /\ Stage("create") = 4
        /\ \A l \in Storing \cup {"kind"} : Stage(l) \in 1..3
    BY DEF Stage, Storing
  <2>2. \A l \in Storing \cup {"kind"} : ~Before("create", l)
    BY <2>1 DEF Before
  <2> QED
    BY <1>1, <2>2, AtLeg, Typed DEF Owners
<1>3. /\ c.name = "deployProxy" => what = c.kind /\ kind = c.kind /\ c.kind \in Kind /\ Kept(c.impl)
      /\ c.name = "deployBeacon" => what = "beacon" /\ kind = c.kind /\ Kept(c.impl)
      /\ c.name = "deployBeaconProxy" => what = "beacon-proxy" /\ kind = "beacon"
  BY <1>2 DEF Facts, Fetching, Operation, Pipeline, Kind
<1>4. CASE /\ Len(chain) < project.codes
           /\ what = "beacon-proxy" => Is(c.target, {"beacon"})
           /\ chain' = Append(chain, code)
           /\ Goes(i, e, << >>) \/ Refuse(i)
  <2>1. PICK w \in What : w = what
    BY <1>2, <1>3 DEF What, Kind
  <2>2. PICK p \in Address : p = IF what = "beacon-proxy" THEN c.target ELSE c.impl
    BY <1>2 DEF Call
  <2>3. PICK new : new = [what |-> w, of |-> "-", points |-> p, live |-> TRUE, by |-> i]
    OBVIOUS
  <2>4. new \in Code /\ new.what = w /\ new.points = p /\ new.by = i
    BY <1>2, <2>3 DEF Code
  <2>5. new = code
    BY <2>1, <2>2, <2>3 DEF Deployed
  <2>6. chain' = Append(chain, new) /\ Len(chain) < project.codes
    BY <1>4, <2>5
  <2>7. new.what \in Fronts => Kept(new.points)
    <3>1. "beacon-proxy" \notin Fronts
      BY DEF Fronts, Kind
    <3> QED
      BY <1>2, <1>3, <2>1, <2>2, <2>4, <3>1
  <2>8. new.what = "beacon-proxy" => Is(new.points, {"beacon"})
    BY <1>4, <2>1, <2>2, <2>4
  <2>9. Grows /\ World' /\ n \in DOMAIN chain' /\ chain'[n] = new
    BY <1>1, <2>4, <2>6, <2>7, <2>8, ChainAppends
  <2>10. CASE Refuse(i)
    BY <1>1, <2>9, <2>10, RefuseStep DEF Frees
  <2>11. CASE Goes(i, e, << >>)
    <3>1. PICK k \in Kind \cup {"beacon", "-"} : k = kind
      BY <1>2, <1>3 DEF Call
    <3>2. PICK m \in Address : m = n
      BY <1>2 DEF Address
    <3>3. e = [c EXCEPT !.new = m, !.kind = k]
      BY <3>1, <3>2
    <3>4. e \in Call /\ Same(e, c) /\ e.todo = c.todo /\ e.new = m /\ e.kind = k /\ e.impl = c.impl
      BY <1>2, <3>3 DEF Call, Same
    <3> HIDE DEF e
    <3>5. ASSUME NEW d, NEW legs, Same(d, c), Carried(d, e), Legs(i) \subseteq legs \cup {"create"},
                 legs \subseteq Legs(i)
          PROVE  Facts(d, legs)'
      <4>1. PICK f : f = c
        OBVIOUS
      <4>2. PICK old : old = Legs(i)
        OBVIOUS
      <4>3. Facts(f, old)'
        <5>1. Facts(f, old)
          BY <1>2, <4>1, <4>2
        <5> QED
          BY <2>9, <5>1, FactsStay
      <4>4. /\ Same(d, f) /\ d.impl = f.impl /\ d.kind = k /\ d.new = m /\ f.name # "forceImport"
            /\ f.name \notin {"upgradeProxy", "upgradeBeacon"}
            /\ old \subseteq legs \cup {"create"} /\ legs \subseteq old /\ (Storing \cup {"kind"}) \cap old = {}
        BY <1>2, <3>4, <3>5, <4>1, <4>2 DEF Carried
      <4>5. /\ f.name = "deployProxy" => k \in Kind
            /\ f.name \in {"deployProxy", "deployBeaconProxy"} => k # "-"
        BY <1>3, <3>1, <4>1 DEF Kind
      <4>6. m # 0 /\ m \in DOMAIN chain' /\ chain'[m].by # 0
        BY <1>2, <2>4, <2>9, <3>2
      <4> QED
        BY <4>3, <4>4, <4>5, <4>6 DEF Facts, Same, Storing
    <3> QED
      BY <1>1, <2>9, <2>11, <3>4, <3>5, SendsStep
  <2> QED
    BY <1>4, <2>10, <2>11
<1>5. CASE Refuse(i) /\ UNCHANGED chain
  <2>1. Unmoved
    BY <1>1, <1>5 DEF Unmoved
  <2> QED
    BY <1>1, <1>5, <2>1, StillWorld, RefuseStep DEF Frees
<1> QED
  BY <1>4, <1>5 DEF Create

\* The upgrade itself.
LEMMA SendStep == ASSUME PluginInv, NEW i, Send(i) PROVE Steps(i)
<1> DEFINE c == calls[i]
<1>1. At(i, "send") /\ UNCHANGED <<manifest, lock, dropped, crashes, project>>
  BY DEF Send
<1>2. /\ c \in Call /\ Facts(c, Legs(i)) /\ i \in DOMAIN calls /\ Same(c, c)
      /\ c.name \in {"upgradeProxy", "upgradeBeacon"}
      /\ (Storing \cup {"lookup", "check"}) \cap Legs(i) = {}
  <2>1. /\ Stage("send") = 4
        /\ \A l \in Storing \cup {"lookup", "check"} : Stage(l) \in 1..3
    BY DEF Stage, Storing
  <2>2. \A l \in Storing \cup {"lookup", "check"} : ~Before("send", l)
    BY <2>1 DEF Before
  <2> QED
    BY <1>1, <2>2, AtLeg DEF Owners, Same
<1>3. PICK t : t = c.target
  OBVIOUS
<1>4. PICK a : a = c.impl
  OBVIOUS
<1>5. t \in DOMAIN chain /\ chain[t].what \in Fronts /\ Kept(a)
  BY <1>2, <1>3, <1>4 DEF Facts, Fetching, Operation, Pipeline, Deploying, Fronts
<1>6. CASE chain' = [chain EXCEPT ![c.target].points = c.impl] /\ (Goes(i, c, << >>) \/ Refuse(i))
  <2>1. chain' = [chain EXCEPT ![t].points = a]
    BY <1>3, <1>4, <1>6
  <2>2. Grows /\ World' /\ Covered(t)'
    BY <1>1, <1>5, <2>1, ChainUpgrades
  <2>3. CASE Refuse(i)
    BY <1>1, <2>2, <2>3, RefuseStep DEF Frees
  <2>4. CASE Goes(i, c, << >>)
    <3>1. ASSUME NEW d, NEW legs, Same(d, c), Carried(d, c), Legs(i) \subseteq legs \cup {"send"},
                 legs \subseteq Legs(i)
          PROVE  Facts(d, legs)'
      <4>1. PICK f : f = c
        OBVIOUS
      <4>2. PICK old : old = Legs(i)
        OBVIOUS
      <4>3. Facts(f, old)'
        <5>1. Facts(f, old)
          BY <1>2, <4>1, <4>2
        <5> QED
          BY <2>2, <5>1, FactsStay
      <4>4. /\ Same(d, f) /\ Carried(d, f) /\ d.target = t /\ f.name \in {"upgradeProxy", "upgradeBeacon"}
            /\ old \subseteq legs \cup {"send"} /\ legs \subseteq old
            /\ (Storing \cup {"lookup", "check"}) \cap old = {}
        BY <1>2, <1>3, <3>1, <4>1, <4>2 DEF Same
      <4>5. Covered(d.target)'
        BY <2>2, <4>4 DEF Covered, Kept
      <4> QED
        BY <4>3, <4>4, <4>5 DEF Facts, Same, Carried, Storing
    <3> QED
      BY <1>1, <1>2, <2>2, <2>4, <3>1, SendsStep
  <2> QED
    BY <1>6, <2>3, <2>4
<1>7. CASE Refuse(i) /\ UNCHANGED chain
  <2>1. Unmoved
    BY <1>1, <1>7 DEF Unmoved
  <2> QED
    BY <1>1, <1>7, <2>1, StillWorld, RefuseStep DEF Frees
<1> QED
  BY <1>6, <1>7 DEF Send

-----------------------------------------------------------------------------
(* Dead processes, new calls, and what an instance starts from *)

\* A death: a lock it held stays.
LEMMA CrashStep == ASSUME PluginInv, NEW i, Crash(i) PROVE Steps(i)
<1>1. /\ i \in DOMAIN calls /\ ~Settled(i) /\ Ends(i, "crashed") /\ crashes < project.crashes
      /\ crashes' = crashes + 1 /\ UNCHANGED <<chain, manifest, lock, dropped, project>>
  BY DEF Crash
<1>2. Moves(i) /\ Settled(i)'
  BY <1>1, Stops
<1>3. Grows
  BY <1>1 DEF Grows
<1>4. World'
  <2>1. World /\ project.crashes \in Nat
    BY Typed DEF PluginInv, Project
  <2>2. crashes' \in 0..project'.crashes
    BY <1>1, <2>1 DEF World
  <2>3. ChainInv'
    BY <1>1, <2>1 DEF World, ChainInv, Covered, Kept
  <2> QED
    BY <1>1, <2>1, <2>2, <2>3 DEF World
<1> QED
  BY <1>1, <1>2, <1>3, <1>4 DEF Steps

\* A stale lock: no call that goes on is inside a section.
LEMMA ExpiryKeeps == ASSUME PluginInv, LockExpires PROVE PluginInv' /\ Grows
<1>1. lock # 0 /\ Settled(lock) /\ lock' = 0 /\ Unmoved /\ UNCHANGED calls
  BY DEF LockExpires, Unmoved
<1>2. Grows /\ World'
  BY <1>1, StillWorld
<1>3. ASSUME NEW j \in DOMAIN calls', ~Settled(j)'
      PROVE  Ahead(calls[j].name, calls[j].todo)' /\ Facts(calls[j], Legs(j))' /\ Poised(j)'
  <2>1. j \in DOMAIN calls /\ ~Settled(j)
    BY <1>1, <1>3 DEF Settled
  <2>2. Ahead(calls[j].name, calls[j].todo) /\ Facts(calls[j], Legs(j)) /\ Poised(j)
    BY <2>1 DEF PluginInv, CallInv
  <2>3. Facts(calls[j], Legs(j))'
    BY <1>1, <2>2 DEF Facts, Legs, Kept, Covered, Unmoved
  <2>4. Poised(j)'
    BY <1>1, <2>1, <2>2 DEF Poised, Unmoved
  <2> QED
    BY <1>1, <2>2, <2>3, <2>4
<1>4. CallInv'
  BY <1>3 DEF CallInv
<1>5. lock' \in 0..Len(calls') /\ Len(calls') <= project'.calls /\ calls' \in Seq(Call)
  BY <1>1, Typed DEF PluginInv, Unmoved
<1> QED
  BY <1>2, <1>4, <1>5 DEF PluginInv

\* A new call knows nothing, and has everything it could know ahead of it.
LEMMA CallKeeps ==
  ASSUME PluginInv, NEW name \in Operation, NEW contract \in Contracts, NEW asked \in Kind \cup {"infer"},
         NEW redeploy \in {"onchange", "always", "never"}, NEW target \in Address,
         name \in Deploying \/ target \in DOMAIN chain,
         CallOperation(name, contract, asked, redeploy, target)
  PROVE  PluginInv' /\ Grows
<1> DEFINE n == Len(calls) + 1
           s == Pipeline[name]
<1>0. PICK c : c = [name |-> name, contract |-> contract, asked |-> asked, redeploy |-> redeploy, target |-> target,
                    todo |-> s, outcome |-> "", seen |-> blank, kind |-> "-", known |-> FALSE,
                    impl |-> 0, new |-> 0, retried |-> FALSE]
  OBVIOUS
<1>1. Len(calls) < project.calls /\ calls' = Append(calls, c) /\ Unmoved /\ lock' = lock
  BY <1>0 DEF CallOperation, Unmoved
<1>2. /\ Ahead(name, s) /\ Head(s) = "scan" /\ "store" \notin Elements(s)
      /\ name \in Fetching => "fetch" \in Elements(s)
      /\ name = "deployProxy" => {"kind", "create"} \subseteq Elements(s)
      /\ name = "deployBeaconProxy" => "create" \in Elements(s)
      /\ name = "upgradeProxy" => {"lookup", "send"} \subseteq Elements(s)
      /\ name = "upgradeBeacon" => "check" \in Elements(s)
      /\ name = "forceImport" => {"inspect", "recordImpl"} \subseteq Elements(s) /\ "record" \notin Elements(s)
  BY Pipelines
<1>3. s \in Seq(Leg)
  BY <1>2 DEF Ahead
<1> HIDE DEF s
<1>4. c \in Call
  <2>1. blank \in Manifest
    BY DEF blank, Manifest, Address
  <2> QED
    BY <1>0, <1>3, <2>1 DEF Call, Address
<1>5. /\ calls' \in Seq(Call) /\ Len(calls') = n /\ Len(calls) \in Nat /\ DOMAIN calls' = DOMAIN calls \cup {n}
      /\ calls'[n] = c /\ \A j \in DOMAIN calls : calls'[j] = calls[j]
  <2>1. calls \in Seq(Call) /\ Len(calls) \in Nat /\ DOMAIN calls = 1..Len(calls)
    BY Typed
  <2>2. /\ calls' \in Seq(Call) /\ Len(calls') = n /\ calls'[n] = c
        /\ \A j \in 1..Len(calls) : calls'[j] = calls[j]
    BY <1>1, <1>4, <2>1, AppendProperties
  <2>3. DOMAIN calls' = 1..n
    BY <2>2, LenProperties
  <2> QED
    BY <2>1, <2>2, <2>3
<1>6. Grows /\ World'
  BY <1>1, StillWorld
<1>7. ASSUME NEW j \in DOMAIN calls', ~Settled(j)'
      PROVE  Ahead(calls[j].name, calls[j].todo)' /\ Facts(calls[j], Legs(j))' /\ Poised(j)'
  <2>1. CASE j = n
    <3>1. calls'[j] = c /\ c.name = name /\ c.todo = s
      <4>1. c.name = name /\ c.todo = s
        BY <1>0
      <4> QED
        BY <1>5, <2>1, <4>1
    <3>2. PICK legs : legs = Elements(s)
      OBVIOUS
    <3>3. Facts(c, legs)
      <4>1. c.name = name /\ c.target = target /\ c.new = 0 /\ c.kind = "-" /\ c.impl = 0
        BY <1>0
      <4> QED
        BY <1>2, <3>2, <4>1 DEF Facts, Storing
    <3>4. Facts(calls[j], Legs(j))'
      BY <1>6, <3>1, <3>2, <3>3, KnowsNext DEF Legs
    <3>5. Poised(j)'
      BY <1>2, <3>1 DEF Poised, Holding, Writing
    <3> QED
      BY <1>2, <3>1, <3>4, <3>5
  <2>2. CASE j \in DOMAIN calls
    <3>1. calls'[j] = calls[j] /\ ~Settled(j)
      BY <1>5, <1>7, <2>2 DEF Settled
    <3>2. Ahead(calls[j].name, calls[j].todo) /\ Facts(calls[j], Legs(j)) /\ Poised(j)
      BY <2>2, <3>1 DEF PluginInv, CallInv
    <3>3. Facts(calls[j], Legs(j))'
      BY <1>1, <3>1, <3>2 DEF Facts, Legs, Kept, Covered, Unmoved
    <3>4. Poised(j)'
      BY <1>1, <3>1, <3>2 DEF Poised, Unmoved
    <3> QED
      BY <3>1, <3>2, <3>3, <3>4
  <2> QED
    BY <1>5, <2>1, <2>2
<1>8. CallInv'
  BY <1>7 DEF CallInv
<1>9. lock' \in 0..Len(calls') /\ Len(calls') <= project'.calls
  <2>1. project.calls \in Nat /\ lock \in 0..Len(calls)
    BY Typed DEF Project, PluginInv
  <2> QED
    BY <1>1, <1>5, <2>1 DEF Unmoved
<1> QED
  BY <1>5, <1>6, <1>8, <1>9 DEF PluginInv

\* Every leg.
LEMMA LegStep == ASSUME PluginInv, NEW i, Step(i) PROVE Steps(i)
<1>1. CASE Scan(i) \/ Enter(i) \/ Rewrite(i)
  BY <1>1, ScanStep, EnterStep, RewriteStep
<1>2. CASE RecordImpl(i) \/ RecordProxy(i) \/ RecordIfNeeded(i)
  BY <1>2, RecordImplStep, RecordProxyStep, RecordIfNeededStep
<1>3. CASE Fetch(i) \/ Deploy(i) \/ Store(i) \/ Mine(i) \/ Remove(i)
  BY <1>3, FetchStep, DeployStep, StoreStep, MineStep, RemoveStep
<1>4. CASE Decide(i) \/ Lookup(i) \/ Check(i) \/ Inspect(i)
  BY <1>4, DecideStep, LookupStep, CheckStep, InspectStep
<1>5. CASE Create(i) \/ Send(i) \/ Verify(i)
  BY <1>5, CreateStep, SendStep, VerifyStep
<1> QED
  BY <1>1, <1>2, <1>3, <1>4, <1>5 DEF Step

\* Whatever happens next, nothing changes back.
LEMMA PluginStep == ASSUME PluginInv, [Next]_vars PROVE PluginInv' /\ Grows
<1>1. ASSUME NEW i, Step(i) \/ Crash(i) PROVE PluginInv' /\ Grows
  <2>1. Steps(i)
    BY <1>1, LegStep, CrashStep
  <2> QED
    BY <2>1, StepKeeps DEF Steps
<1>2. ASSUME NEW name \in project.operations, NEW contract \in project.contracts, NEW asked \in project.asked,
             NEW redeploy \in project.redeploys, NEW target \in 0..Len(chain),
             target \in DOMAIN chain
               \/ (target = 0 /\ name \in {"deployProxy", "deployBeacon", "deployImplementation"}),
             CallOperation(name, contract, asked, redeploy, target)
      PROVE  PluginInv' /\ Grows
  <2>1. /\ name \in Operation /\ contract \in Contracts /\ asked \in Kind \cup {"infer"}
        /\ redeploy \in {"onchange", "always", "never"} /\ target \in Address
    BY <1>2, Typed DEF Project, Address
  <2>2. name \in Deploying \/ target \in DOMAIN chain
    BY <1>2 DEF Deploying
  <2> QED
    BY <1>2, <2>1, <2>2, CallKeeps
<1>3. CASE UNCHANGED vars
  <2>1. Unmoved /\ UNCHANGED <<calls, lock>>
    BY <1>3 DEF vars, Unmoved
  <2>2. Grows /\ World'
    BY <2>1, StillWorld
  <2>3. ASSUME NEW j \in DOMAIN calls', ~Settled(j)'
        PROVE  Ahead(calls[j].name, calls[j].todo)' /\ Facts(calls[j], Legs(j))' /\ Poised(j)'
    <3>1. j \in DOMAIN calls /\ ~Settled(j)
      BY <2>1, <2>3 DEF Settled
    <3>2. Ahead(calls[j].name, calls[j].todo) /\ Facts(calls[j], Legs(j)) /\ Poised(j)
      BY <3>1 DEF PluginInv, CallInv
    <3>3. Facts(calls[j], Legs(j))' /\ Poised(j)'
      BY <2>1, <3>2 DEF Facts, Legs, Kept, Covered, Poised, Unmoved
    <3> QED
      BY <2>1, <3>2, <3>3
  <2>4. CallInv'
    BY <2>3 DEF CallInv
  <2> QED
    BY <2>1, <2>2, <2>4 DEF PluginInv, Unmoved
<1> QED
  BY <1>1, <1>2, <1>3, ExpiryKeeps DEF Next

\* What an instance starts from: implementations, and at most one proxy, which nobody of the
\* plugin deployed.
LEMMA StartingChain ==
  ASSUME NEW p \in Projects
  PROVE  LET s == chainOf(p)
         IN  /\ s \in Seq(Code) /\ DOMAIN s \in {{}, {1}, {1, 2}, {1, 2, 3}}
             /\ \A a \in DOMAIN s : s[a].by = 0 /\ s[a].what \in Kind \cup {"implementation"}
             /\ \A a \in DOMAIN s : s[a].what \in Kind =>
                  /\ a = 2 /\ p.start # "stale"
                  /\ IF p.start = "drifted" THEN s[a].points = 3 /\ 3 \in DOMAIN s ELSE s[a].points = 1
             /\ p.start \in {"legacy", "drifted"} => {1, 2} \subseteq DOMAIN s
             /\ p.start = "stale" => 1 \in DOMAIN s
             /\ p.start = "stale-and-foreign" => 3 \in DOMAIN s
<1> DEFINE s == chainOf(p)
<1>1. p.start \in Start /\ p.of \in Contracts
  BY ProjectsAssumption DEF Project
<1>2. PICK kind \in Kind : kind = twin(p)
  BY DEF twin, Kind
<1>3. PICK one : one = Deployed("implementation", p.of, 0, 0)
  OBVIOUS
<1>4. PICK two : two = Deployed(twin(p), "-", 1, 0)
  OBVIOUS
<1>5. PICK lost : lost = [one EXCEPT !.live = FALSE]
  OBVIOUS
<1>6. PICK moved : moved = [two EXCEPT !.points = 3]
  OBVIOUS
<1>7. /\ one = [what |-> "implementation", of |-> p.of, points |-> 0, live |-> TRUE, by |-> 0]
      /\ two = [what |-> kind, of |-> "-", points |-> 1, live |-> TRUE, by |-> 0]
  BY <1>2, <1>3, <1>4 DEF Deployed
<1>8. /\ one \in Code /\ two \in Code /\ lost \in Code /\ moved \in Code
      /\ one.by = 0 /\ two.by = 0 /\ lost.by = 0 /\ moved.by = 0
      /\ one.what = "implementation" /\ lost.what = "implementation" /\ two.what = kind /\ moved.what = kind
      /\ two.points = 1 /\ moved.points = 3
  BY <1>1, <1>5, <1>6, <1>7 DEF Code, What, Kind, Address
<1>9. "implementation" \notin Kind
  BY DEF Kind
<1>10. CASE p.start = "fresh"
  <2>1. s = << >>
    BY <1>10 DEF chainOf
  <2> QED
    BY <1>10, <2>1, EmptySeq
<1>11. world(p) = <<one, two>>
  BY <1>3, <1>4 DEF world
<1>12. CASE p.start \in {"legacy", "foreign"}
  <2>1. s = <<one, two>>
    BY <1>11, <1>12 DEF chainOf
  <2>2. s \in Seq(Code) /\ DOMAIN s = {1, 2} /\ s[1] = one /\ s[2] = two
    BY <1>8, <2>1
  <2> HIDE DEF s
  <2> QED
    BY <1>8, <1>9, <1>12, <2>2 DEF s
<1>13. CASE p.start = "drifted"
  <2>1. s = Append([<<one, two>> EXCEPT ![2].points = 3], one)
    BY <1>3, <1>11, <1>13 DEF chainOf
  <2>2. [<<one, two>> EXCEPT ![2].points = 3] = <<one, moved>>
    BY <1>6
  <2>3. s \in Seq(Code) /\ DOMAIN s = {1, 2, 3} /\ s[1] = one /\ s[2] = moved /\ s[3] = one
    BY <1>8, <2>1, <2>2
  <2> HIDE DEF s
  <2> QED
    BY <1>8, <1>9, <1>13, <2>3 DEF s
<1>14. CASE p.start = "stale"
  <2>1. s = <<lost>>
    BY <1>3, <1>5, <1>14 DEF chainOf
  <2>2. s \in Seq(Code) /\ DOMAIN s = {1} /\ s[1] = lost
    BY <1>8, <2>1
  <2> HIDE DEF s
  <2> QED
    BY <1>8, <1>9, <1>14, <2>2 DEF s
<1>15. CASE p.start = "stale-and-foreign"
  <2>1. s = Append(<<one, two>>, lost)
    BY <1>3, <1>5, <1>11, <1>15 DEF chainOf
  <2>2. s \in Seq(Code) /\ DOMAIN s = {1, 2, 3} /\ s[1] = one /\ s[2] = two /\ s[3] = lost
    BY <1>8, <2>1
  <2> HIDE DEF s
  <2> QED
    BY <1>8, <1>9, <1>15, <2>2 DEF s
<1> QED
  BY <1>1, <1>10, <1>12, <1>13, <1>14, <1>15 DEF Start

\* What the file of an instance starts with is deployed, and a proxy in it runs what it holds.
LEMMA StartingManifest ==
  ASSUME NEW p \in Projects
  PROVE  LET m == manifestOf(p)
         IN  /\ m \in Manifest
             /\ p.start \in {"legacy", "drifted", "stale"} => Remembered(m) = {1}
             /\ p.start = "stale-and-foreign" => Remembered(m) = {3}
             /\ p.start \in {"fresh", "foreign"} => Remembered(m) = {}
             /\ \A a : Recorded(m, a) => p.start \in {"legacy", "drifted"}
<1> DEFINE m == manifestOf(p)
<1>1. p.start \in Start /\ p.of \in Contracts
  BY ProjectsAssumption DEF Project
<1>2. /\ blank = [impls |-> [c \in Contracts |-> << >>], proxies |-> {}, lower |-> {}]
      /\ << >> \in Seq(Address) /\ Elements(<< >>) = {}
  BY EmptySeq DEF blank, Elements
<1>3. ASSUME NEW n \in {1, 3} PROVE <<n>> \in Seq(Address) /\ Elements(<<n>>) = {n}
  BY <1>3 DEF Address, Elements
<1>4. ASSUME NEW r, NEW a \in Address, <<a>> \in Seq(Address), Elements(<<a>>) = {a},
             r.impls = [[c \in Contracts |-> << >>] EXCEPT ![p.of] = <<a>>]
      PROVE  Remembered(r) = {a}
  <2>1. r.impls[p.of] = <<a>> /\ \A c \in Contracts : c # p.of => r.impls[c] = << >>
    BY <1>1, <1>4
  <2>2. a \in Remembered(r)
    BY <1>1, <1>4, <2>1, RememberedUnder
  <2>3. ASSUME NEW b \in Remembered(r) PROVE b = a
    <3>1. PICK c \in Contracts : b \in Elements(r.impls[c])
      BY RememberedUnder
    <3> QED
      BY <1>2, <1>4, <2>1, <3>1
  <2> QED
    BY <2>2, <2>3
<1>5. CASE p.start \in {"fresh", "foreign"}
  <2>1. m = blank
    BY <1>5 DEF manifestOf
  <2>2. m \in Manifest /\ m.proxies = {} /\ \A c \in Contracts : m.impls[c] = << >>
    BY <1>2, <2>1 DEF Manifest
  <2>3. Remembered(m) = {}
    BY <1>2, <2>2 DEF Remembered
  <2> QED
    BY <1>5, <2>2, <2>3 DEF Recorded
<1>6. CASE p.start \in {"stale", "stale-and-foreign"}
  <2>1. PICK a \in {1, 3} : a = IF p.start = "stale" THEN 1 ELSE 3
    OBVIOUS
  <2>2. m = [blank EXCEPT !.impls[p.of] = <<a>>]
    BY <1>6, <2>1 DEF manifestOf
  <2>3. <<a>> \in Seq(Address) /\ Elements(<<a>>) = {a} /\ a \in Address
    BY <1>3 DEF Address
  <2>4. m \in Manifest /\ m.proxies = {} /\ m.impls = [[c \in Contracts |-> << >>] EXCEPT ![p.of] = <<a>>]
    BY <1>1, <1>2, <2>2, <2>3 DEF Manifest
  <2>5. Remembered(m) = {a}
    BY <1>4, <2>3, <2>4
  <2> QED
    BY <1>6, <2>1, <2>4, <2>5 DEF Recorded
<1>7. CASE p.start \in {"legacy", "drifted"}
  <2>1. PICK kind \in Kind : kind = twin(p)
    BY DEF twin, Kind
  <2>2. m = [blank EXCEPT !.impls[p.of] = <<1>>, !.proxies = {[at |-> 2, kind |-> kind]}, !.lower = {1, 2}]
    BY <1>7, <2>1 DEF manifestOf
  <2>3. <<1>> \in Seq(Address) /\ Elements(<<1>>) = {1} /\ 1 \in Address /\ 2 \in Address
    BY <1>3 DEF Address
  <2>4. m \in Manifest /\ m.impls = [[c \in Contracts |-> << >>] EXCEPT ![p.of] = <<1>>]
    <3>1. PICK ps : ps = {[at |-> 2, kind |-> kind]}
      OBVIOUS
    <3>2. PICK f : f = [[c \in Contracts |-> << >>] EXCEPT ![p.of] = <<1>>]
      OBVIOUS
    <3>3. m = [impls |-> f, proxies |-> ps, lower |-> {1, 2}]
      BY <1>2, <2>2, <3>1, <3>2
    <3>4. f \in [Contracts -> Seq(Address)] /\ ps \subseteq [at : Address, kind : Kind \cup {"beacon"}]
      <4>1. f \in [Contracts -> Seq(Address)]
        BY <1>1, <1>2, <2>3, <3>2
      <4>2. [at |-> 2, kind |-> kind] \in [at : Address, kind : Kind \cup {"beacon"}]
        BY <2>3
      <4> QED
        BY <3>1, <4>1, <4>2
    <3> QED
      BY <2>3, <3>2, <3>3, <3>4 DEF Manifest
  <2>5. Remembered(m) = {1}
    BY <1>4, <2>3, <2>4
  <2> QED
    BY <1>7, <2>4, <2>5
<1> QED
  BY <1>1, <1>5, <1>6, <1>7 DEF Start

\* No call, no lock, and a world in which all of this holds.
LEMMA PluginInit == Init => PluginInv
<1> SUFFICES ASSUME Init PROVE PluginInv
  OBVIOUS
<1> DEFINE p == project
<1>1. /\ p \in Projects /\ chain = chainOf(p) /\ manifest = manifestOf(p) /\ lock = 0 /\ calls = << >>
      /\ dropped = {} /\ crashes = 0 /\ p \in Project /\ Len(chainOf(p)) <= p.codes
  BY ProjectsAssumption DEF Init
<1>2. /\ chain \in Seq(Code) /\ DOMAIN chain \in {{}, {1}, {1, 2}, {1, 2, 3}}
      /\ \A a \in DOMAIN chain : chain[a].by = 0 /\ chain[a].what \in Kind \cup {"implementation"}
      /\ \A a \in DOMAIN chain : chain[a].what \in Kind =>
           /\ a = 2 /\ p.start # "stale"
           /\ IF p.start = "drifted" THEN chain[a].points = 3 /\ 3 \in DOMAIN chain ELSE chain[a].points = 1
      /\ p.start \in {"legacy", "drifted"} => {1, 2} \subseteq DOMAIN chain
      /\ p.start = "stale" => 1 \in DOMAIN chain
      /\ p.start = "stale-and-foreign" => 3 \in DOMAIN chain
  BY <1>1, StartingChain
<1>3. /\ manifest \in Manifest
      /\ p.start \in {"legacy", "drifted", "stale"} => Remembered(manifest) = {1}
      /\ p.start = "stale-and-foreign" => Remembered(manifest) = {3}
      /\ p.start \in {"fresh", "foreign"} => Remembered(manifest) = {}
      /\ \A a : Recorded(manifest, a) => p.start \in {"legacy", "drifted"}
  BY <1>1, StartingManifest
<1>4. p.start \in Start
  BY <1>1 DEF Project
<1>5. Remembered(manifest) \subseteq DOMAIN chain
  BY <1>2, <1>3, <1>4 DEF Start
<1>6. ASSUME NEW a \in DOMAIN chain
      PROVE  /\ chain[a].what \in Fronts => chain[a].points \in DOMAIN chain
             /\ chain[a].what # "beacon-proxy"
             /\ chain[a].what \in Fronts /\ (chain[a].by # 0 \/ Recorded(manifest, a)) => Covered(a)
  <2>1. chain[a].what # "beacon-proxy" /\ (chain[a].what \in Fronts => chain[a].what \in Kind) /\ chain[a].by = 0
    BY <1>2 DEF Fronts, Kind
  <2>2. chain[a].what \in Kind => chain[a].points \in DOMAIN chain
    BY <1>2
  <2>3. chain[a].what \in Kind /\ Recorded(manifest, a) => Covered(a)
    BY <1>2, <1>3 DEF Covered, Kept
  <2> QED
    BY <2>1, <2>2, <2>3
<1>7. World
  <2>1. ChainInv
    BY <1>5, <1>6 DEF ChainInv
  <2>2. crashes \in 0..p.crashes
    BY <1>1 DEF Project
  <2> QED
    BY <1>1, <1>2, <1>3, <2>1, <2>2 DEF World
<1>8. calls \in Seq(Call) /\ DOMAIN calls = {} /\ Len(calls) = 0 /\ lock \in 0..Len(calls) /\ Len(calls) <= p.calls
  BY <1>1, EmptySeq DEF Project
<1> QED
  BY <1>7, <1>8 DEF PluginInv, CallInv

\* The inductive invariant holds.
THEOREM PluginHolds == Spec => []PluginInv
<1>1. PluginInv /\ [Next]_vars => PluginInv'
  BY PluginStep
<1> QED
  BY PluginInit, <1>1, PTL DEF Spec

-----------------------------------------------------------------------------
(* The theorems *)

\* Behind a proxy or a beacon there is what it points at.
LEMMA RecoverableInv == PluginInv => LostProxiesAreRecoverable
<1> SUFFICES ASSUME PluginInv PROVE LostProxiesAreRecoverable
  OBVIOUS
<1>1. TypeOK
  BY DEF TypeOK, PluginInv, World
<1>2. ASSUME NEW a \in DOMAIN chain, Is(a, Kind \cup {"beacon"}), chain[a].by # 0 \/ Recorded(manifest, a)
      PROVE  Behind(a) \in Remembered(manifest) \cup dropped \/ (project.start = "drifted" /\ Behind(a) = 3)
  <2>1. chain[a].what \in Fronts
    BY <1>2 DEF Is, Fronts
  <2>2. Covered(a) /\ Behind(a) = chain[a].points
    BY <1>2, <2>1, BehindDeployed DEF PluginInv, World, ChainInv
  <2> QED
    BY <2>2 DEF Covered, Kept
<1> QED
  BY <1>1, <1>2 DEF LostProxiesAreRecoverable

\* Lost records are recoverable (README.md:103-105): whatever overlapped, failed or died, the
\* manifest holds the implementation behind each proxy and beacon the plugin deployed or
\* recorded, unless somebody else moved it or the engine dropped it with an invalid entry.
THEOREM ProxiesAreRecoverable == Spec => []LostProxiesAreRecoverable
BY PluginHolds, RecoverableInv, PTL

\* Merge, never assign (utils/manifest.ts:103-106): no interleaving of calls loses an address
\* or a proxy of the manifest, save what the engine removed, nor brings an old casing back.
THEOREM EntriesOutliveOverlaps == Spec => NoLostEntries
<1>1. PluginInv /\ [Next]_vars =>
        [/\ Remembered(manifest) \subseteq Remembered(manifest') \cup dropped'
         /\ {p.at : p \in manifest.proxies} \subseteq {p.at : p \in manifest'.proxies}
         /\ manifest'.lower \subseteq manifest.lower]_vars
  BY PluginStep DEF Grows
<1> QED
  BY PluginHolds, <1>1, PTL DEF Spec, NoLostEntries

\* A lookup that lets its call go on settles the kind the record has: nothing is stored in
\* another casing than the engine compares in, after the scan in front of it.
LEMMA LookupKeepsKind ==
  ASSUME PluginInv, NEW i, Lookup(i), calls'[i].outcome \in {"", "ok"}, Is(calls[i].target, Kind)
  PROVE  kindsOf(manifest, calls[i].target) \subseteq {calls'[i].kind}
<1> DEFINE c == calls[i]
           e(kind) == [c EXCEPT !.kind = kind, !.known = Recorded(manifest, c.target)]
           strict == IF RecordedStrictly(manifest, c.target) THEN kindsOf(manifest, c.target) ELSE {}
<1>1. At(i, "lookup") /\ i \in DOMAIN calls /\ ~Settled(i) /\ c \in Call /\ asks(c) \in Kind
      /\ manifest.lower = {}
  <2>1. At(i, "lookup")
    BY DEF Lookup
  <2> QED
    BY <2>1, AtLeg, AskedKind DEF Poised
<1>2. CASE strict \subseteq {asks(c)} /\ Goes(i, e(asks(c)), << >>)
  <2>1. PICK d : d = e(asks(c))
    OBVIOUS
  <2>2. d \in Call /\ Same(d, c) /\ d.todo = c.todo /\ d.kind = asks(c)
    <3>1. Recorded(manifest, c.target) \in BOOLEAN
      BY DEF Recorded
    <3> QED
      BY <1>1, <2>1, <3>1 DEF Call, Same
  <2>3. << >> \in Detours("lookup")
    BY DEF Detours
  <2>4. Advance(i, "lookup", d, << >>)
    BY <1>1, <1>2, <2>1, <2>2, <2>3, GoesOn
  <2>5. calls'[i].kind = asks(c)
    BY <2>2, <2>4 DEF Advance, Carried
  <2>6. kindsOf(manifest, c.target) \subseteq strict
    <3>1. Recorded(manifest, c.target) => strict = kindsOf(manifest, c.target)
      BY <1>1 DEF RecordedStrictly
    <3>2. ~Recorded(manifest, c.target) => kindsOf(manifest, c.target) = {}
      BY DEF Recorded, kindsOf
    <3> QED
      BY <3>1, <3>2
  <2> QED
    BY <1>2, <2>5, <2>6
<1>3. ~Is(c.target, {"beacon", "beacon-proxy"}) /\ ~Is(c.target, {"implementation"})
  BY DEF Is, Kind
<1>4. ~Refuse(i)
  BY <1>1, Stops DEF Refuse
<1> QED
  BY <1>2, <1>3, <1>4 DEF Lookup

\* A call is at one leg, and only that leg's step is its own.
LEMMA OnlyLookup ==
  ASSUME NEW i, At(i, "lookup"), Step(i)
  PROVE  Lookup(i)
BY DEF At, Step, Scan, Enter, Rewrite, RecordImpl, RecordProxy, RecordIfNeeded, Fetch, Deploy, Store, Mine,
       Remove, Decide, Check, Inspect, Create, Send, Verify

\* The recorded kind stays authoritative (manifest-legacy-casing.test.ts:7-12): no upgrade goes
\* past its lookup as another kind, because the scan in front of it leaves no old casing behind
\* and none ever comes back.
THEOREM KindsAreKept == Spec => RecordedKindGoverns
<1> DEFINE Governs(i) ==
      At(i, "lookup") /\ calls'[i].todo # calls[i].todo /\ calls'[i].outcome \in {"", "ok"}
      /\ Is(calls[i].target, Kind) => kindsOf(manifest, calls[i].target) \subseteq {calls'[i].kind}
<1>1. ASSUME PluginInv, Next, NEW i \in DOMAIN calls PROVE Governs(i)
  <2>1. ASSUME NEW j \in DOMAIN calls, Step(j) \/ Crash(j) PROVE Governs(i)
    <3>1. CASE i # j
      <4>1. calls'[i] = calls[i]
        BY <1>1, <2>1, <3>1, LegStep, CrashStep DEF Steps, Moves
      <4> QED
        BY <4>1
    <3>2. CASE i = j /\ Step(j)
      <4> SUFFICES ASSUME At(i, "lookup"), calls'[i].outcome \in {"", "ok"}, Is(calls[i].target, Kind)
                   PROVE  kindsOf(manifest, calls[i].target) \subseteq {calls'[i].kind}
        OBVIOUS
      <4> QED
        BY <1>1, <3>2, OnlyLookup, LookupKeepsKind
    <3>3. CASE i = j /\ Crash(j)
      <4>1. calls'[i].outcome = "crashed"
        BY <1>1, <3>3, Stops DEF Crash
      <4> QED
        BY <4>1
    <3> QED
      BY <2>1, <3>1, <3>2, <3>3
  <2>2. ASSUME NEW c, calls' = Append(calls, c) PROVE Governs(i)
    <3>1. calls'[i] = calls[i]
      <4>1. calls \in Seq(Call) /\ DOMAIN calls = 1..Len(calls) /\ Len(calls) \in Nat
        BY <1>1, Typed
      <4> QED
        BY <1>1, <2>2, <4>1
    <3> QED
      BY <3>1
  <2>3. CASE LockExpires
    BY <2>3 DEF LockExpires
  <2> QED
    BY <1>1, <2>1, <2>2, <2>3 DEF Next, CallOperation
<1>2. PluginInv /\ [Next]_vars => [\A i \in DOMAIN calls : Governs(i)]_vars
  BY <1>1
<1> QED
  BY PluginHolds, <1>2, PTL DEF Spec, RecordedKindGoverns

\* What a leg deploys under 'onchange' is of a version with nothing in the manifest.
LEMMA DeploysOnce ==
  ASSUME PluginInv, NEW i, Step(i), NEW a \in DOMAIN chain' \ DOMAIN chain, chain'[a].what = "implementation",
         calls[chain'[a].by].redeploy = "onchange"
  PROVE  manifest.impls[chain'[a].of] = << >>
<1> DEFINE c == calls[i]
<1>1. chain \in Seq(Code) /\ DOMAIN chain = 1..Len(chain) /\ Len(chain) \in Nat
  BY Typed
<1>2. ASSUME NEW code, chain' = Append(chain, code) PROVE chain'[a] = code
  BY <1>1, <1>2
<1>3. CASE Deploy(i)
  <2>1. At(i, "deploy") /\ "deploy" \in Holding
    BY <1>3 DEF Deploy, Holding
  <2>2. c.redeploy # "always" => manifest.impls[c.contract] = << >>
    BY <2>1, InSection
  <2>3. PICK code : chain' = Append(chain, code) /\ code.of = c.contract /\ code.by = i
    <3>1. ASSUME NEW live \in BOOLEAN
          PROVE  /\ Deployed("implementation", c.contract, 0, i).of = c.contract
                 /\ Deployed("implementation", c.contract, 0, i).by = i
                 /\ [Deployed("implementation", c.contract, 0, i) EXCEPT !.live = live].of = c.contract
                 /\ [Deployed("implementation", c.contract, 0, i) EXCEPT !.live = live].by = i
      BY DEF Deployed
    <3>2. chain' # chain
      BY <1>1
    <3> QED
      BY <1>3, <3>1, <3>2 DEF Deploy
  <2>4. chain'[a].of = c.contract /\ chain'[a].by = i
    BY <1>2, <2>3
  <2> QED
    BY <2>2, <2>4
<1>4. CASE Create(i)
  <2>1. At(i, "create")
    BY <1>4 DEF Create
  <2>2. c.name = "deployProxy" => c.kind \in Kind
    <3>1. ~Before("create", "kind")
      BY DEF Before, Stage
    <3>2. Facts(c, Legs(i)) /\ "kind" \notin Legs(i)
      BY <2>1, <3>1, AtLeg
    <3> QED
      BY <3>2 DEF Facts
  <2>3. PICK what, points : /\ chain' = Append(chain, Deployed(what, "-", points, i))
                            /\ what \in {c.kind, "beacon", "beacon-proxy"}
                            /\ what = c.kind => c.name = "deployProxy" \/ what \in {"beacon", "beacon-proxy"}
    <3>1. chain' # chain
      BY <1>1
    <3> QED
      BY <1>4, <3>1 DEF Create
  <2>4. chain'[a].what = what
    BY <1>2, <2>3 DEF Deployed
  <2> QED
    BY <2>2, <2>3, <2>4 DEF Kind
<1>5. CASE Send(i)
  <2>1. DOMAIN chain' = DOMAIN chain
    BY <1>5 DEF Send
  <2> QED
    BY <2>1
<1>6. chain' = chain \/ Deploy(i) \/ Create(i) \/ Send(i)
  BY DEF Step, Scan, Enter, Rewrite, RecordImpl, RecordProxy, RecordIfNeeded, Fetch, Store, Mine,
         Remove, Decide, Lookup, Check, Inspect, Verify
<1> QED
  BY <1>3, <1>4, <1>5, <1>6

\* Nobody deploys what the manifest holds (utils/deploy-impl.ts:44-51): between the engine's
\* look at the version and its deployment no other call writes, for the lock is held.
THEOREM VersionsAreReused == Spec => ImplementationsAreReused
<1> DEFINE Reused(a) ==
      LET code == chain'[a]
      IN code.what = "implementation" /\ calls[code.by].redeploy = "onchange" =>
           \A b \in Elements(manifest.impls[code.of]) : ~chain[b].live
<1>1. ASSUME PluginInv, Next, NEW a \in DOMAIN chain' \ DOMAIN chain PROVE Reused(a)
  <2>1. ASSUME NEW i \in DOMAIN calls, Step(i) PROVE Reused(a)
    <3> SUFFICES ASSUME chain'[a].what = "implementation", calls[chain'[a].by].redeploy = "onchange"
                 PROVE  Elements(manifest.impls[chain'[a].of]) = {}
      OBVIOUS
    <3>1. manifest.impls[chain'[a].of] = << >>
      BY <1>1, <2>1, DeploysOnce
    <3> QED
      BY <3>1 DEF Elements
  <2>2. CASE chain' = chain
    BY <1>1, <2>2
  <2> QED
    BY <1>1, <2>1, <2>2 DEF Next, CallOperation, Crash, LockExpires
<1>2. PluginInv /\ [Next]_vars => [\A a \in DOMAIN chain' \ DOMAIN chain : Reused(a)]_vars
  BY <1>1
<1> QED
  BY PluginHolds, <1>2, PTL DEF Spec, ImplementationsAreReused
====
