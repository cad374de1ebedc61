------------------------ MODULE ProxyOperationsProofs ------------------------
(***************************************************************************)
(* What holds of ProxyOperations whatever the contracts, the migrations    *)
(* and their bounds: the invariant every other proof about it starts from. *)
(*                                                                         *)
(* CoreInv has five parts.  Everything has its type.  What a call has      *)
(* ahead of it is in the order of the code, and only the call whose turn   *)
(* it is has begun.  What a transaction points at or goes to was live      *)
(* when it was sent.  The record holds implementations under their version *)
(* and live proxies under their kind.  A call knows, by the legs behind    *)
(* it, what it has checked, fetched, sent and confirmed.                   *)
(*                                                                         *)
(* The second half is about the properties that relate a call to what      *)
(* others did before or will do later.  Each leg is first taken apart into *)
(* its effect on the calls, the chain, the record and the artifacts        *)
(* (StepEffect), and each step of the system into an Event; every          *)
(* invariant there is then kept by every Event.                            *)
(***************************************************************************)
EXTENDS ProxyOperations, SequenceTheorems, TLAPS

-----------------------------------------------------------------------------
(* The legs a call still has ahead of it *)

Rank == [open |-> 1, check |-> 2, fetch |-> 3, store |-> 4, mine |-> 5, create |-> 6, send |-> 7,
         confirm |-> 8, verify |-> 9, record |-> 10, writeBack |-> 11, report |-> 12]
Leg == DOMAIN Rank

Fetching == Operation \ {"deployBeaconProxy", "transferProxyAdminOwnership"}
Creating == {"deployProxy", "deployBeacon", "deployBeaconProxy"}
Upgrading == {"upgradeProxy", "upgradeBeacon"}
Standalone == {"deployImplementation", "prepareUpgrade"}
FetchLegs == {"fetch", "store", "mine"}

Legs(i) == Elements(calls[i].todo)
InOrder(s) == \A j, k \in DOMAIN s : j < k => Rank[s[j]] < Rank[s[k]]

\* What a call has ahead is in the order of the code, ends with its report, and holds
\* every leg of the operation that comes after the next one; the record's legs are
\* entered by a fetch, and only the call whose turn it is has begun.
LegsAhead(name, s) ==
  LET legs == Elements(s)
  IN /\ s \in Seq(Leg) /\ InOrder(s) /\ "report" \in legs
     /\ legs \subseteq {"open"} \cup Elements(Pipeline[name])
                        \cup (IF name \in Fetching THEN {"store", "mine"} ELSE {})
     /\ \A l \in Elements(Pipeline[name]), k \in legs : Rank[k] < Rank[l] => l \in legs
     /\ legs \cap {"store", "mine"} # {} => legs \cap {"open", "check", "fetch"} = {}
     /\ "store" \in legs => "mine" \in legs

LegsInv ==
  \A i \in DOMAIN calls : ~Settled(i) =>
    LegsAhead(calls[i].name, calls[i].todo) /\ ("open" \notin Legs(i) => turn(i))

-----------------------------------------------------------------------------
(* The chain and the record *)

Implementation(a) == a \in DOMAIN txs /\ txs[a].what = "implementation"
Upgradeable == ProxyWhats \cup {"beacon"}

\* What is created points at what was live before it, what is sent goes to what was live.
ChainInv ==
  \A t \in DOMAIN txs :
    /\ txs[t].what \notin {"upgrade", "transfer"} => txs[t].at = 0
    /\ txs[t].what \in Upgradeable \cup {"upgrade"} => Is(txs[t].points, {"implementation"})
    /\ txs[t].what = "beacon-proxy" => Is(txs[t].points, {"beacon"})
    /\ txs[t].what = "upgrade" => Is(txs[t].at, Upgradeable)
    /\ txs[t].what = "transfer" => Is(txs[t].at, {"transparent"})
    /\ txs[t].by \in {0} \cup DOMAIN calls

\* The record holds implementations under their version and proxies under their kind.
RecordInv ==
  /\ \A c \in Contracts : \A a \in Elements(impls[c]) : Implementation(a) /\ txs[a].of = c
  /\ \A p \in DOMAIN proxies : Created(p) /\ proxies[p] = RecordedKind(txs[p].what)

\* What a call knows of the chain, by the legs that are behind it.
creation(c) ==
  CASE c.name = "deployBeaconProxy" -> "beacon-proxy"
    [] c.name = "deployBeacon" -> "beacon"
    [] OTHER -> c.kind
sending(c) == IF c.name = "transferProxyAdminOwnership" THEN "transfer" ELSE "upgrade"
targets(name) ==
  CASE name \in {"upgradeProxy", "prepareUpgrade"} -> ProxyWhats
    [] name \in {"upgradeBeacon", "deployBeaconProxy"} -> {"beacon"}
    [] name = "transferProxyAdminOwnership" -> {"transparent"}
    [] OTHER -> What

\* The transactions and addresses a call names.
Names(i) ==
  LET c == calls[i]
  IN /\ c.name \in Targeted => c.target \in DOMAIN txs
     /\ c.impl \in {0} \cup DOMAIN txs /\ c.tx \in {0} \cup DOMAIN txs
     /\ c.impl # 0 => txs[c.impl].what = "implementation" /\ txs[c.impl].of = c.contract
     /\ c.confirmed => c.tx # 0 /\ txs[c.tx].status = "landed"

\* What it found out, sent and waited for.
Knows(i) ==
  LET c == calls[i]
      legs == Legs(i)
  IN /\ "check" \notin legs /\ c.name \in Targeted => Is(c.target, targets(c.name))
     /\ "check" \notin legs /\ c.name = "forceImport" =>
          Is(c.checked, {"implementation"}) /\ txs[c.checked].of = c.contract
     /\ "fetch" \notin legs /\ c.name \in Fetching => c.impl # 0
     /\ "fetch" \notin legs /\ c.name = "forceImport" => c.impl = c.checked
     /\ legs \cap FetchLegs = {} /\ c.name \in Fetching =>
          c.impl # 0 /\ txs[c.impl].status = "landed"
     /\ "create" \notin legs /\ c.name \in Creating =>
          c.tx # 0 /\ txs[c.tx].what = creation(c) /\ txs[c.tx].by = i
     /\ "send" \notin legs /\ "verify" \in legs =>
          c.tx # 0 /\ txs[c.tx].what = sending(c) /\ txs[c.tx].by = i
     /\ "confirm" \notin legs /\ c.name \in Creating => c.tx # 0 /\ txs[c.tx].status = "landed"
     /\ "confirm" \in legs => ~c.confirmed

CallFacts(i) == Names(i) /\ (~Settled(i) => Knows(i))
CallInv == \A i \in DOMAIN calls : CallFacts(i)

CoreInv == TypeOK /\ LegsInv /\ ChainInv /\ RecordInv /\ CallInv

-----------------------------------------------------------------------------
(* Lemmas about the legs *)

\* What each pipeline holds, in the order of the code.
LEMMA Pipelines ==
  ASSUME NEW n \in Operation
  PROVE  LET s == Pipeline[n]
             legs == Elements(s)
         IN  /\ s \in Seq(Leg) /\ InOrder(s)
             /\ {"check", "report"} \subseteq legs
             /\ legs \cap {"open", "store", "mine"} = {}
             /\ "fetch" \in legs <=> n \in Fetching
             /\ "create" \in legs <=> n \in Creating
             /\ "send" \in legs <=> n \in Upgrading \cup {"transferProxyAdminOwnership"}
             /\ "verify" \in legs <=> n \in Upgrading \cup {"transferProxyAdminOwnership"}
             /\ "confirm" \in legs <=> n # "forceImport"
             /\ "record" \in legs <=>
                  n \in {"deployProxy", "upgradeProxy", "deployBeaconProxy", "forceImport"}
             /\ "writeBack" \in legs <=> n = "deployProxy"
<1>1. Operation = {"deployProxy", "upgradeProxy", "deployBeacon", "deployBeaconProxy",
                   "upgradeBeacon", "deployImplementation", "prepareUpgrade", "forceImport",
                   "transferProxyAdminOwnership"}
  BY DEF Operation, Pipeline
<1>2. CASE n = "deployProxy"
  <2>1. Pipeline[n] = <<"check", "fetch", "create", "confirm", "record", "writeBack", "report">>
    BY <1>2 DEF Pipeline, deployProxyLegs
  <2>2. Elements(Pipeline[n]) = {"check", "fetch", "create", "confirm", "record", "writeBack", "report"}
    BY <2>1 DEF Elements
  <2>3. Pipeline[n] \in Seq(Leg) /\ InOrder(Pipeline[n])
    BY <2>1 DEF InOrder, Leg, Rank
  <2> QED
    BY <1>1, <1>2, <2>2, <2>3 DEF Fetching, Creating, Upgrading
<1>3. CASE n = "upgradeProxy"
  <2>1. Pipeline[n] = <<"check", "fetch", "send", "confirm", "verify", "record", "report">>
    BY <1>3 DEF Pipeline, upgradeProxyLegs
  <2>2. Elements(Pipeline[n]) = {"check", "fetch", "send", "confirm", "verify", "record", "report"}
    BY <2>1 DEF Elements
  <2>3. Pipeline[n] \in Seq(Leg) /\ InOrder(Pipeline[n])
    BY <2>1 DEF InOrder, Leg, Rank
  <2> QED
    BY <1>1, <1>3, <2>2, <2>3 DEF Fetching, Creating, Upgrading
<1>4. CASE n = "deployBeacon"
  <2>1. Pipeline[n] = <<"check", "fetch", "create", "confirm", "report">>
    BY <1>4 DEF Pipeline, deployBeaconLegs
  <2>2. Elements(Pipeline[n]) = {"check", "fetch", "create", "confirm", "report"}
    BY <2>1 DEF Elements
  <2>3. Pipeline[n] \in Seq(Leg) /\ InOrder(Pipeline[n])
    BY <2>1 DEF InOrder, Leg, Rank
  <2> QED
    BY <1>1, <1>4, <2>2, <2>3 DEF Fetching, Creating, Upgrading
<1>5. CASE n = "deployBeaconProxy"
  <2>1. Pipeline[n] = <<"check", "create", "confirm", "record", "report">>
    BY <1>5 DEF Pipeline, deployBeaconProxyLegs
  <2>2. Elements(Pipeline[n]) = {"check", "create", "confirm", "record", "report"}
    BY <2>1 DEF Elements
  <2>3. Pipeline[n] \in Seq(Leg) /\ InOrder(Pipeline[n])
    BY <2>1 DEF InOrder, Leg, Rank
  <2> QED
    BY <1>1, <1>5, <2>2, <2>3 DEF Fetching, Creating, Upgrading
<1>6. CASE n = "upgradeBeacon"
  <2>1. Pipeline[n] = <<"check", "fetch", "send", "confirm", "verify", "report">>
    BY <1>6 DEF Pipeline, upgradeBeaconLegs
  <2>2. Elements(Pipeline[n]) = {"check", "fetch", "send", "confirm", "verify", "report"}
    BY <2>1 DEF Elements
  <2>3. Pipeline[n] \in Seq(Leg) /\ InOrder(Pipeline[n])
    BY <2>1 DEF InOrder, Leg, Rank
  <2> QED
    BY <1>1, <1>6, <2>2, <2>3 DEF Fetching, Creating, Upgrading
<1>7. CASE n = "deployImplementation"
  <2>1. Pipeline[n] = <<"check", "fetch", "confirm", "report">>
    BY <1>7 DEF Pipeline, standaloneLegs
  <2>2. Elements(Pipeline[n]) = {"check", "fetch", "confirm", "report"}
    BY <2>1 DEF Elements
  <2>3. Pipeline[n] \in Seq(Leg) /\ InOrder(Pipeline[n])
    BY <2>1 DEF InOrder, Leg, Rank
  <2> QED
    BY <1>1, <1>7, <2>2, <2>3 DEF Fetching, Creating, Upgrading
<1>8. CASE n = "prepareUpgrade"
  <2>1. Pipeline[n] = <<"check", "fetch", "confirm", "report">>
    BY <1>8 DEF Pipeline, standaloneLegs
  <2>2. Elements(Pipeline[n]) = {"check", "fetch", "confirm", "report"}
    BY <2>1 DEF Elements
  <2>3. Pipeline[n] \in Seq(Leg) /\ InOrder(Pipeline[n])
    BY <2>1 DEF InOrder, Leg, Rank
  <2> QED
    BY <1>1, <1>8, <2>2, <2>3 DEF Fetching, Creating, Upgrading
<1>9. CASE n = "forceImport"
  <2>1. Pipeline[n] = <<"check", "fetch", "record", "report">>
    BY <1>9 DEF Pipeline, forceImportLegs
  <2>2. Elements(Pipeline[n]) = {"check", "fetch", "record", "report"}
    BY <2>1 DEF Elements
  <2>3. Pipeline[n] \in Seq(Leg) /\ InOrder(Pipeline[n])
    BY <2>1 DEF InOrder, Leg, Rank
  <2> QED
    BY <1>1, <1>9, <2>2, <2>3 DEF Fetching, Creating, Upgrading
<1>10. CASE n = "transferProxyAdminOwnership"
  <2>1. Pipeline[n] = <<"check", "send", "confirm", "verify", "report">>
    BY <1>10 DEF Pipeline, transferLegs
  <2>2. Elements(Pipeline[n]) = {"check", "send", "confirm", "verify", "report"}
    BY <2>1 DEF Elements
  <2>3. Pipeline[n] \in Seq(Leg) /\ InOrder(Pipeline[n])
    BY <2>1 DEF InOrder, Leg, Rank
  <2> QED
    BY <1>1, <1>10, <2>2, <2>3 DEF Fetching, Creating, Upgrading
<1> QED
  BY <1>1, <1>2, <1>3, <1>4, <1>5, <1>6, <1>7, <1>8, <1>9, <1>10

\* A call begins with every leg of its operation ahead.
LEMMA CallBegins ==
  ASSUME NEW n \in Operation
  PROVE  LET s == <<"open">> \o Pipeline[n]
         IN  LegsAhead(n, s) /\ Elements(s) = {"open"} \cup Elements(Pipeline[n])
<1> DEFINE p == Pipeline[n]
           o == <<"open">>
           s == o \o p
<1>1. p \in Seq(Leg) /\ InOrder(p) /\ {"check", "report"} \subseteq Elements(p)
        /\ Elements(p) \cap {"open", "store", "mine"} = {}
  BY Pipelines
<1>2. o \in Seq(Leg) /\ Len(o) = 1 /\ o[1] = "open"
  BY DEF Leg, Rank
<1> HIDE DEF p, o
<1>3. s \in Seq(Leg) /\ Len(s) = 1 + Len(p) /\ Len(p) \in Nat /\ s[1] = "open"
        /\ \A k \in 1..Len(p) : s[k + 1] = p[k]
  <2>1. Len(p) \in Nat
    BY <1>1, LenProperties
  <2>2. /\ o \o p \in Seq(Leg) /\ Len(o \o p) = Len(o) + Len(p)
        /\ \A k \in 1..Len(o) + Len(p) :
             (o \o p)[k] = IF k <= Len(o) THEN o[k] ELSE p[k - Len(o)]
    <3>1. o \in Seq(Leg) /\ p \in Seq(Leg)
      BY <1>1, <1>2
    <3> QED
      BY <3>1, ConcatProperties, Zenon
  <2>3. \A k \in 1..Len(p) : k + 1 \in 1..1 + Len(p) /\ ~(k + 1 <= 1) /\ (k + 1) - 1 = k
    BY <2>1
  <2> QED
    BY <1>2, <2>1, <2>2, <2>3
<1>4. DOMAIN s = 1..1 + Len(p) /\ DOMAIN p = 1..Len(p)
  BY <1>1, <1>3, LenProperties
<1>5. Elements(s) = {"open"} \cup Elements(p)
  <2>1. \A k \in 1..1 + Len(p) : k = 1 \/ (k - 1 \in 1..Len(p) /\ s[k] = p[k - 1])
    <3> TAKE k \in 1..1 + Len(p)
    <3>1. k # 1 => k - 1 \in 1..Len(p) /\ (k - 1) + 1 = k
      BY <1>3
    <3> QED
      BY <1>3, <3>1
  <2>2. \A k \in 1..Len(p) : k + 1 \in 1..1 + Len(p)
    BY <1>3
  <2>3. 1 \in 1..1 + Len(p)
    BY <1>3
  <2>4. ASSUME NEW e \in Elements(s) PROVE e \in {"open"} \cup Elements(p)
    <3>1. PICK k \in 1..1 + Len(p) : e = s[k]
      BY <1>4, <2>4 DEF Elements
    <3> QED
      BY <1>3, <1>4, <2>1, <3>1 DEF Elements
  <2>5. ASSUME NEW e \in Elements(p) PROVE e \in Elements(s)
    <3>1. PICK k \in 1..Len(p) : e = p[k]
      BY <1>4, <2>5 DEF Elements
    <3>2. e = s[k + 1] /\ k + 1 \in DOMAIN s
      BY <1>3, <1>4, <2>2, <3>1
    <3> QED
      BY <3>2 DEF Elements
  <2>6. "open" \in Elements(s)
    BY <1>3, <1>4, <2>3 DEF Elements
  <2> QED
    BY <2>4, <2>5, <2>6
<1>6. \A l \in Leg : l # "open" => Rank["open"] < Rank[l]
  BY DEF Leg, Rank
<1>7. InOrder(s)
  <2> SUFFICES ASSUME NEW j \in 1..1 + Len(p), NEW k \in 1..1 + Len(p), j < k
               PROVE  Rank[s[j]] < Rank[s[k]]
    BY <1>4 DEF InOrder
  <2>1. k - 1 \in 1..Len(p) /\ s[k] = p[k - 1]
    BY <1>3
  <2>2. p[k - 1] \in Elements(p) /\ p[k - 1] \in Leg
    BY <1>1, <1>4, <2>1, ElementOfSeq DEF Elements
  <2>3. CASE j = 1
    BY <1>1, <1>3, <1>6, <2>1, <2>2, <2>3
  <2>4. CASE j # 1
    <3>1. j - 1 \in 1..Len(p) /\ s[j] = p[j - 1] /\ j - 1 < k - 1
      BY <1>3, <2>4
    <3> QED
      BY <1>1, <1>4, <2>1, <3>1 DEF InOrder
  <2> QED
    BY <2>3, <2>4
<1> QED
  BY <1>1, <1>3, <1>5, <1>7 DEF LegsAhead, p, o

\* A leg that is done leaves the ones behind it, in their order.
LEMMA LegDone ==
  ASSUME NEW n \in Operation, NEW s, LegsAhead(n, s)
  PROVE  /\ s # << >> /\ Head(s) \in Elements(s) /\ Head(s) \in Leg /\ Tail(s) \in Seq(Leg)
         /\ \A l \in Elements(s) \ {Head(s)} : Rank[Head(s)] < Rank[l]
         /\ Elements(Tail(s)) = Elements(s) \ {Head(s)}
         /\ Head(s) # "report" => LegsAhead(n, Tail(s))
<1>1. s \in Seq(Leg) /\ InOrder(s) /\ "report" \in Elements(s)
  BY DEF LegsAhead
<1>2. s # << >>
  BY <1>1 DEF Elements
<1>3. /\ Len(s) \in Nat \ {0} /\ Head(s) = s[1] /\ Tail(s) \in Seq(Leg) /\ Len(Tail(s)) = Len(s) - 1
      /\ \A k \in 1..Len(s) - 1 : Tail(s)[k] = s[k + 1]
  BY <1>1, <1>2, HeadTailProperties, EmptySeq, LenProperties
<1>4. DOMAIN s = 1..Len(s) /\ DOMAIN Tail(s) = 1..Len(s) - 1
  BY <1>1, <1>3, LenProperties
<1>5. Head(s) \in Elements(s) /\ Head(s) \in Leg
  BY <1>1, <1>3, <1>4, ElementOfSeq DEF Elements
<1>6. \A l \in Leg : Rank[l] \in Nat
  BY DEF Leg, Rank
<1>7. \A k \in 1..Len(s) : k # 1 => Rank[s[1]] < Rank[s[k]] /\ s[k] # s[1]
  <2> TAKE k \in 1..Len(s)
  <2>1. s[1] \in Leg
    BY <1>3, <1>5
  <2>2. k # 1 => Rank[s[1]] < Rank[s[k]]
    BY <1>1, <1>3, <1>4 DEF InOrder
  <2> QED
    BY <1>6, <2>1, <2>2
<1>8. Elements(Tail(s)) = Elements(s) \ {Head(s)}
  <2>1. \A k \in 1..Len(s) - 1 : k + 1 \in 1..Len(s) /\ k + 1 # 1
    BY <1>3
  <2>2. \A k \in 1..Len(s) : k # 1 => k - 1 \in 1..Len(s) - 1 /\ (k - 1) + 1 = k
    BY <1>3
  <2>3. \A l \in Elements(Tail(s)) : l \in Elements(s) /\ l # Head(s)
    BY <1>3, <1>4, <1>7, <2>1 DEF Elements
  <2>4. ASSUME NEW l \in Elements(s), l # Head(s) PROVE l \in Elements(Tail(s))
    <3>1. PICK k \in 1..Len(s) : l = s[k]
      BY <1>4 DEF Elements
    <3>2. k - 1 \in 1..Len(s) - 1 /\ Tail(s)[k - 1] = l
      BY <1>3, <2>2, <2>4, <3>1
    <3> QED
      BY <1>4, <3>2 DEF Elements
  <2> QED
    BY <2>3, <2>4
<1>9. \A l \in Elements(s) \ {Head(s)} : Rank[Head(s)] < Rank[l]
  BY <1>3, <1>4, <1>7 DEF Elements
<1>10. ASSUME Head(s) # "report" PROVE LegsAhead(n, Tail(s))
  <2>1. InOrder(Tail(s))
    <3> SUFFICES ASSUME NEW j \in 1..Len(s) - 1, NEW k \in 1..Len(s) - 1, j < k
                 PROVE  Rank[Tail(s)[j]] < Rank[Tail(s)[k]]
      BY <1>4 DEF InOrder
    <3>1. j + 1 \in 1..Len(s) /\ k + 1 \in 1..Len(s) /\ j + 1 < k + 1
      BY <1>3
    <3> QED
      BY <1>1, <1>3, <1>4, <3>1 DEF InOrder
  <2>2. \A l \in Elements(Pipeline[n]), k \in Elements(Tail(s)) :
          Rank[k] < Rank[l] => l \in Elements(Tail(s))
    <3> TAKE l \in Elements(Pipeline[n]), k \in Elements(Tail(s))
    <3> HAVE Rank[k] < Rank[l]
    <3>1. k \in Elements(s) /\ k \in Leg /\ Rank[Head(s)] < Rank[k]
      BY <1>1, <1>4, <1>8, <1>9, ElementOfSeq DEF Elements
    <3>2. l \in Elements(s) /\ l \in Leg
      BY <1>1, <1>4, <3>1, ElementOfSeq DEF LegsAhead, Elements
    <3>3. Rank[Head(s)] < Rank[l]
      BY <1>5, <1>6, <3>1, <3>2
    <3> QED
      BY <1>5, <1>6, <1>8, <3>2, <3>3
  <2>3. "store" \in Elements(Tail(s)) => "mine" \in Elements(Tail(s))
    <3> HAVE "store" \in Elements(Tail(s))
    <3>1. "mine" \in Elements(s) /\ Rank[Head(s)] < Rank["store"]
      BY <1>8, <1>9 DEF LegsAhead
    <3>2. Head(s) # "mine"
      BY <3>1 DEF Rank
    <3> QED
      BY <1>8, <3>1, <3>2
  <2> QED
    BY <1>3, <1>8, <1>10, <2>1, <2>2, <2>3 DEF LegsAhead
<1> QED
  BY <1>2, <1>3, <1>5, <1>8, <1>9, <1>10

\* A leg of the record put ahead of the others.
LEMMA LegAdded ==
  ASSUME NEW n \in Fetching, NEW s, LegsAhead(n, s),
         NEW l \in {"fetch", "store", "mine"},
         \A k \in Elements(s) : Rank[l] < Rank[k],
         \A k \in Elements(Pipeline[n]) : Rank[l] < Rank[k] => k \in Elements(s),
         l = "fetch" => Elements(s) \cap {"store", "mine"} = {},
         l = "store" => "mine" \in Elements(s)
  PROVE  LegsAhead(n, <<l>> \o s) /\ Elements(<<l>> \o s) = {l} \cup Elements(s)
<1> DEFINE o == <<l>>
           d == o \o s
<1>1. s \in Seq(Leg) /\ InOrder(s) /\ "report" \in Elements(s) /\ l \in Leg /\ n \in Operation
  BY DEF LegsAhead, Leg, Rank, Fetching
<1>2. o \in Seq(Leg) /\ Len(o) = 1 /\ o[1] = l
  BY <1>1
<1> HIDE DEF o
<1>3. d \in Seq(Leg) /\ Len(d) = 1 + Len(s) /\ Len(s) \in Nat /\ d[1] = l
        /\ \A k \in 1..Len(s) : d[k + 1] = s[k]
  <2>1. Len(s) \in Nat
    BY <1>1, LenProperties
  <2>2. /\ o \o s \in Seq(Leg) /\ Len(o \o s) = Len(o) + Len(s)
        /\ \A k \in 1..Len(o) + Len(s) :
             (o \o s)[k] = IF k <= Len(o) THEN o[k] ELSE s[k - Len(o)]
    <3>1. o \in Seq(Leg) /\ s \in Seq(Leg)
      BY <1>1, <1>2
    <3> QED
      BY <3>1, ConcatProperties, Zenon
  <2>3. \A k \in 1..Len(s) : k + 1 \in 1..1 + Len(s) /\ ~(k + 1 <= 1) /\ (k + 1) - 1 = k
    BY <2>1
  <2> QED
    BY <1>2, <2>1, <2>2, <2>3
<1>4. DOMAIN d = 1..1 + Len(s) /\ DOMAIN s = 1..Len(s)
  BY <1>1, <1>3, LenProperties
<1>5. \A k \in 1..1 + Len(s) : k # 1 => k - 1 \in 1..Len(s) /\ d[k] = s[k - 1]
  <2> TAKE k \in 1..1 + Len(s)
  <2>1. k # 1 => k - 1 \in 1..Len(s) /\ (k - 1) + 1 = k
    BY <1>3
  <2> QED
    BY <1>3, <2>1
<1>6. Elements(d) = {l} \cup Elements(s)
  <2>1. \A k \in 1..Len(s) : k + 1 \in 1..1 + Len(s)
    BY <1>3
  <2>2. 1 \in 1..1 + Len(s)
    BY <1>3
  <2>3. \A x \in Elements(d) : x = l \/ x \in Elements(s)
    BY <1>3, <1>4, <1>5 DEF Elements
  <2>4. l \in Elements(d)
    BY <1>3, <1>4, <2>2 DEF Elements
  <2>5. ASSUME NEW x \in Elements(s) PROVE x \in Elements(d)
    <3>1. PICK k \in 1..Len(s) : x = s[k]
      BY <1>4 DEF Elements
    <3>2. k + 1 \in 1..1 + Len(s) /\ d[k + 1] = x
      BY <1>3, <2>1, <3>1
    <3> QED
      BY <1>4, <3>2 DEF Elements
  <2> QED
    BY <2>3, <2>4, <2>5
<1>7. InOrder(d)
  <2> SUFFICES ASSUME NEW j \in 1..1 + Len(s), NEW k \in 1..1 + Len(s), j < k
               PROVE  Rank[d[j]] < Rank[d[k]]
    BY <1>4 DEF InOrder
  <2>1. k - 1 \in 1..Len(s) /\ d[k] = s[k - 1]
    BY <1>3, <1>5
  <2>2. s[k - 1] \in Elements(s)
    BY <1>4, <2>1 DEF Elements
  <2>3. CASE j = 1
    BY <1>3, <2>1, <2>2, <2>3
  <2>4. CASE j # 1
    <3>1. j - 1 \in 1..Len(s) /\ d[j] = s[j - 1] /\ j - 1 < k - 1
      BY <1>3, <1>5, <2>4
    <3> QED
      BY <1>1, <1>4, <2>1, <3>1 DEF InOrder
  <2> QED
    BY <2>3, <2>4
<1>8. \A k \in Elements(s) : k # l /\ (l \in {"store", "mine"} => k \notin {"open", "check", "fetch"})
        /\ (l = "mine" => k # "store") /\ k # "open" /\ k # "check"
  BY DEF Rank
<1>9. \A p \in Elements(Pipeline[n]), k \in Elements(d) : Rank[k] < Rank[p] => p \in Elements(d)
  BY <1>6 DEF LegsAhead
<1>10. Elements(d) \cap {"store", "mine"} # {} => Elements(d) \cap {"open", "check", "fetch"} = {}
  BY <1>6, <1>8 DEF LegsAhead
<1>11. Elements(d) \subseteq {"open"} \cup Elements(Pipeline[n]) \cup {"store", "mine"}
  BY <1>1, <1>6, Pipelines DEF LegsAhead
<1>12. "store" \in Elements(d) => "mine" \in Elements(d)
  BY <1>6 DEF LegsAhead
<1> QED
  BY <1>1, <1>3, <1>6, <1>7, <1>9, <1>10, <1>11, <1>12 DEF LegsAhead, o

-----------------------------------------------------------------------------
(* Lemmas about calls *)

\* What the types say of the calls, the transactions and the record.
LEMMA Typed ==
  ASSUME TypeOK
  PROVE  /\ DOMAIN calls = 1..Len(calls) /\ Len(calls) \in Nat
         /\ \A i \in DOMAIN calls : calls[i] \in Call
         /\ DOMAIN txs = 1..Len(txs) /\ Len(txs) \in Nat
         /\ \A t \in DOMAIN txs : txs[t] \in Tx
         /\ \A c \in Contracts : impls[c] \in Seq(DOMAIN txs) /\ Elements(impls[c]) \subseteq DOMAIN txs
<1>1. calls \in Seq(Call) /\ txs \in Seq(Tx) /\ \A c \in Contracts : impls[c] \in Seq(DOMAIN txs)
  BY DEF TypeOK
<1>2. \A c \in Contracts : Elements(impls[c]) \subseteq DOMAIN txs
  <2> TAKE c \in Contracts
  <2>1. impls[c] \in Seq(DOMAIN txs) /\ DOMAIN impls[c] = 1..Len(impls[c])
    BY <1>1, LenProperties
  <2>2. \A k \in 1..Len(impls[c]) : impls[c][k] \in DOMAIN txs
    BY <2>1, ElementOfSeq
  <2> QED
    BY <2>1, <2>2 DEF Elements
<1> QED
  BY <1>1, <1>2, ElementOfSeq, LenProperties

\* The settings of a call.
LEMMA CallFields ==
  ASSUME NEW c \in Call
  PROVE  /\ c.name \in Operation /\ c.contract \in Contracts /\ c.kind \in {"transparent", "uups"}
         /\ c.redeploy \in {"onchange", "always", "never"} /\ c.newOwner \in Owner
         /\ {c.target, c.named, c.prior, c.priorFacade, c.impl, c.tx, c.checked, c.before} \subseteq Nat
         /\ c.outcome \in {"", "ok", "refused", "stale", "crashed"} /\ c.todo \in Seq(Leg)
<1>1. Leg = QueuedLegs \cup {"open", "check", "writeBack", "report"}
  BY DEF Leg, Rank, QueuedLegs
<1> QED
  BY <1>1 DEF Call, Address

\* A call that has not begun has every leg of its operation ahead, and none of the record's.
LEMMA NotBegun ==
  ASSUME NEW n \in Operation, NEW s, LegsAhead(n, s), "open" \in Elements(s)
  PROVE  /\ Elements(Pipeline[n]) \subseteq Elements(s) /\ {"check", "report"} \subseteq Elements(s)
         /\ Elements(s) \cap {"store", "mine"} = {}
<1>1. \A l \in Elements(Pipeline[n]) : l \in Leg /\ l # "open"
  <2>1. Pipeline[n] \in Seq(Leg) /\ DOMAIN Pipeline[n] = 1..Len(Pipeline[n])
    BY Pipelines, LenProperties
  <2> QED
    BY <2>1, Pipelines, ElementOfSeq DEF Elements
<1>2. \A l \in Leg : l # "open" => Rank["open"] < Rank[l]
  BY DEF Leg, Rank
<1> QED
  BY <1>1, <1>2, Pipelines DEF LegsAhead

\* The call at a leg: its turn, its legs, and nobody else's.
LEMMA AtLeg ==
  ASSUME TypeOK, LegsInv, NEW i, NEW leg \in Leg, At(i, leg)
  PROVE  /\ i \in DOMAIN calls /\ calls[i] \in Call /\ ~Settled(i) /\ calls[i].outcome = ""
         /\ calls[i].name \in Operation /\ calls[i].contract \in Contracts
         /\ LegsAhead(calls[i].name, calls[i].todo) /\ calls[i].todo # << >>
         /\ leg \in Legs(i) /\ Head(calls[i].todo) = leg
         /\ \A l \in Legs(i) : l # leg => Rank[leg] < Rank[l]
         /\ \A j \in DOMAIN calls : j # i /\ ~Settled(j) =>
              j > i /\ "open" \in Legs(j) /\ Elements(Pipeline[calls[j].name]) \subseteq Legs(j)
              /\ {"check", "report"} \subseteq Legs(j) /\ Legs(j) \cap {"store", "mine"} = {}
<1>1. i \in DOMAIN calls /\ ~Settled(i) /\ turn(i) /\ Head(calls[i].todo) = leg
  BY DEF At
<1>2. calls[i] \in Call /\ calls[i].name \in Operation /\ calls[i].contract \in Contracts
  BY <1>1, Typed, CallFields
<1>3. LegsAhead(calls[i].name, calls[i].todo)
  BY <1>1 DEF LegsInv
<1>4. /\ calls[i].todo # << >> /\ leg \in Legs(i)
      /\ \A l \in Legs(i) : l # leg => Rank[leg] < Rank[l]
  BY <1>1, <1>2, <1>3, LegDone DEF Legs
<1>5. ASSUME NEW j \in DOMAIN calls, j # i, ~Settled(j)
      PROVE  /\ j > i /\ "open" \in Legs(j) /\ Elements(Pipeline[calls[j].name]) \subseteq Legs(j)
             /\ {"check", "report"} \subseteq Legs(j) /\ Legs(j) \cap {"store", "mine"} = {}
  <2>1. i \in Nat /\ j \in Nat /\ j > i
    <3>1. i \in 1..Len(calls) /\ j \in 1..Len(calls) /\ Len(calls) \in Nat
      BY <1>1, Typed
    <3>2. ~(j \in 1..i-1)
      BY <1>1, <1>5 DEF turn
    <3> QED
      BY <1>5, <3>1, <3>2
  <2>2. ~turn(j)
    BY <1>1, <2>1, Typed DEF turn
  <2>3. "open" \in Legs(j) /\ LegsAhead(calls[j].name, calls[j].todo) /\ calls[j].name \in Operation
    BY <1>5, <2>2, Typed, CallFields DEF LegsInv
  <2> QED
    BY <2>1, <2>3, NotBegun DEF Legs
<1> QED
  BY <1>1, <1>2, <1>3, <1>4, <1>5 DEF Settled

\* The call at a leg that a fetch enters is of an operation that fetches.
LEMMA AtFetch ==
  ASSUME TypeOK, LegsInv, NEW i, NEW leg \in FetchLegs, At(i, leg)
  PROVE  /\ calls[i].name \in Fetching
         /\ leg = "fetch" => Legs(i) \cap {"open", "check", "store", "mine"} = {}
         /\ leg = "store" => "mine" \in Legs(i) /\ Legs(i) \cap {"open", "check", "fetch"} = {}
         /\ leg = "mine" => Legs(i) \cap {"open", "check", "fetch", "store"} = {}
<1>1. leg \in Leg
  BY DEF FetchLegs, Leg, Rank
<1>2. /\ calls[i].name \in Operation /\ leg \in Legs(i) /\ LegsAhead(calls[i].name, calls[i].todo)
      /\ \A l \in Legs(i) : l # leg => Rank[leg] < Rank[l]
  BY <1>1, AtLeg
<1>3. calls[i].name \in Fetching
  BY <1>2, Pipelines DEF LegsAhead, Legs, FetchLegs
<1>4. leg = "fetch" => Legs(i) \cap {"open", "check", "store", "mine"} = {}
  <2>1. leg = "fetch" => Legs(i) \cap {"store", "mine"} = {}
    BY <1>2 DEF LegsAhead, Legs
  <2>2. leg = "fetch" => Legs(i) \cap {"open", "check"} = {}
    BY <1>2 DEF Rank
  <2> QED
    BY <2>1, <2>2
<1>5. leg = "store" => "mine" \in Legs(i)
  BY <1>2 DEF LegsAhead, Legs
<1>6. leg \in {"store", "mine"} => Legs(i) \cap {"open", "check", "fetch"} = {}
  BY <1>2 DEF LegsAhead, Legs
<1>7. leg = "mine" => "store" \notin Legs(i)
  BY <1>2 DEF Rank
<1> QED
  BY <1>3, <1>4, <1>5, <1>6, <1>7

\* One call changes; the others, and whether they are settled, do not.
LEMMA OneCall ==
  ASSUME TypeOK, NEW i \in DOMAIN calls, NEW d \in Call, calls' = [calls EXCEPT ![i] = d]
  PROVE  /\ calls' \in Seq(Call) /\ Len(calls') = Len(calls) /\ DOMAIN calls' = DOMAIN calls
         /\ calls'[i] = d /\ \A j \in DOMAIN calls : j # i => calls'[j] = calls[j]
<1>1. calls \in Seq(Call) /\ i \in 1..Len(calls) /\ DOMAIN calls = 1..Len(calls)
  BY Typed DEF TypeOK
<1>2. calls' \in Seq(Call) /\ Len(calls') = Len(calls)
  BY <1>1, ExceptSeq
<1> QED
  BY <1>1, <1>2, LenProperties

\* The calls before a call are calls.
LEMMA EarlierCalls ==
  ASSUME NEW n \in Nat, NEW i \in 1..n
  PROVE  \A k \in 1..i-1 : k \in 1..n /\ k # i
OBVIOUS

\* The invariant on legs, from the one call that changed.
LEMMA LegsKept ==
  ASSUME TypeOK, LegsInv, NEW i \in DOMAIN calls, ~Settled(i), turn(i),
         DOMAIN calls' = DOMAIN calls, \A j \in DOMAIN calls : j # i => calls'[j] = calls[j],
         calls'[i].outcome = "" => LegsAhead(calls'[i].name, calls'[i].todo)
  PROVE  LegsInv'
<1> SUFFICES ASSUME NEW j \in DOMAIN calls, ~Settled(j)'
             PROVE  LegsAhead(calls'[j].name, calls'[j].todo) /\ ("open" \notin Legs(j)' => turn(j)')
  BY DEF LegsInv
<1>1. DOMAIN calls = 1..Len(calls) /\ Len(calls) \in Nat
  BY Typed
<1>2. i \in 1..Len(calls) /\ j \in 1..Len(calls)
  BY <1>1
<1>3. (\A k \in 1..i-1 : k \in 1..Len(calls) /\ k # i) /\ \A k \in 1..j-1 : k \in 1..Len(calls)
  BY <1>1, <1>2, EarlierCalls
<1>4. CASE j = i
  <2>1. \A k \in 1..i-1 : calls'[k] = calls[k] /\ Settled(k)
    BY <1>1, <1>3 DEF turn
  <2>2. turn(i)'
    BY <2>1 DEF turn, Settled
  <2> QED
    BY <1>4, <2>2 DEF Settled
<1>5. CASE j # i
  <2>1. calls'[j] = calls[j] /\ ~Settled(j) /\ Legs(j)' = Legs(j)
    BY <1>5 DEF Settled, Legs
  <2>2. "open" \notin Legs(j) => turn(j)
    BY <2>1 DEF LegsInv
  <2>3. ASSUME turn(j) PROVE turn(j)'
    <3>1. \A k \in 1..j-1 : k # i /\ calls'[k] = calls[k] /\ Settled(k)
      BY <1>1, <1>3, <2>3 DEF turn
    <3> QED
      BY <3>1 DEF turn, Settled
  <2> QED
    BY <2>1, <2>2, <2>3 DEF LegsInv
<1> QED
  BY <1>4, <1>5

\* What is ahead of a call is legs.
LEMMA ElementsAreLegs ==
  /\ \A s \in Seq(Leg) : Elements(s) \subseteq Leg
  /\ \A n \in Operation : Elements(Pipeline[n]) \subseteq Leg \ {"open", "store", "mine"}
<1>1. ASSUME NEW s \in Seq(Leg) PROVE Elements(s) \subseteq Leg
  <2>1. DOMAIN s = 1..Len(s) /\ \A k \in 1..Len(s) : s[k] \in Leg
    BY LenProperties, ElementOfSeq
  <2> QED
    BY <2>1 DEF Elements
<1> QED
  BY <1>1, Pipelines

\* The elements of the short sequences the legs put ahead.
LEMMA ElementsOfFew ==
  /\ Elements(<< >>) = {} /\ Elements(<<"mine">>) = {"mine"} /\ Elements(<<"fetch">>) = {"fetch"}
  /\ Elements(<<"store", "mine">>) = {"store", "mine"} /\ Elements(<<"report">>) = {"report"}
BY DEF Elements

\* Appending adds one element.
LEMMA ElementsOfAppend ==
  ASSUME NEW S, NEW s \in Seq(S), NEW e \in S
  PROVE  Append(s, e) \in Seq(S) /\ Elements(Append(s, e)) = Elements(s) \cup {e}
<1> DEFINE d == Append(s, e)
<1>1. /\ d \in Seq(S) /\ Len(d) = Len(s) + 1 /\ d[Len(s) + 1] = e /\ Len(s) \in Nat
      /\ \A k \in 1..Len(s) : d[k] = s[k]
  BY AppendProperties, LenProperties
<1>2. DOMAIN d = 1..Len(s) + 1 /\ DOMAIN s = 1..Len(s) /\ 1..Len(s) + 1 = (1..Len(s)) \cup {Len(s) + 1}
  BY <1>1, LenProperties
<1> HIDE DEF d
<1>3. Elements(d) = Elements(s) \cup {e}
  BY <1>1, <1>2 DEF Elements
<1> QED
  BY <1>1, <1>3 DEF d

\* Where the fetching legs stand in the order of the code.
LEMMA Ranks ==
  /\ \A l \in Leg : Rank[l] \in Nat
  /\ \A l \in Leg : l \notin {"open", "check", "fetch", "store", "mine"} => Rank["mine"] < Rank[l]
  /\ \A l \in Leg : Rank["fetch"] < Rank[l] /\ l \notin {"store", "mine"} => Rank["mine"] < Rank[l]
  /\ \A l \in Leg : Rank["mine"] < Rank[l] =>
       Rank["fetch"] < Rank[l] /\ Rank["store"] < Rank[l] /\ l \notin {"open", "check", "fetch", "store", "mine"}
  /\ \A l \in Leg : ~(Rank["report"] < Rank[l])
  /\ Rank["fetch"] < Rank["store"] /\ Rank["store"] < Rank["mine"]
BY DEF Leg, Rank

\* Putting two legs ahead is putting one ahead of the other.
LEMMA StoreThenMine ==
  ASSUME NEW s \in Seq(Leg)
  PROVE  <<"store", "mine">> \o s = <<"store">> \o (<<"mine">> \o s)
<1>1. <<"store">> \in Seq(Leg) /\ <<"mine">> \in Seq(Leg)
  BY DEF Leg, Rank
<1>2. (<<"store">> \o <<"mine">>) \o s = <<"store">> \o (<<"mine">> \o s)
  BY <1>1, ConcatAssociative
<1>3. <<"store">> \o <<"mine">> = <<"store", "mine">>
  <2> DEFINE a == <<"store">>
             b == <<"mine">>
             d == <<"store", "mine">>
  <2>1. a \in Seq(Leg) /\ b \in Seq(Leg) /\ Len(a) = 1 /\ Len(b) = 1 /\ a[1] = "store" /\ b[1] = "mine"
    BY <1>1
  <2>2. d \in Seq(Leg) /\ Len(d) = 2 /\ d[1] = "store" /\ d[2] = "mine"
    BY DEF Leg, Rank
  <2> HIDE DEF a, b, d
  <2>3. /\ a \o b \in Seq(Leg) /\ Len(a \o b) = Len(a) + Len(b)
        /\ \A k \in 1..Len(a) + Len(b) : (a \o b)[k] = IF k <= Len(a) THEN a[k] ELSE b[k - Len(a)]
    BY <2>1, ConcatProperties
  <2>4. Len(a \o b) = 2 /\ (a \o b)[1] = "store" /\ (a \o b)[2] = "mine"
    BY <2>1, <2>3
  <2>5. \A k \in 1..2 : (a \o b)[k] = d[k]
    BY <2>2, <2>4
  <2>6. a \o b = d
    BY <2>2, <2>3, <2>4, <2>5, SeqEqual
  <2> QED
    BY <2>6 DEF a, b, d
<1> QED
  BY <1>2, <1>3

\* What a fetch and the engine's wait put ahead of the rest.
LEMMA LegsGoOn ==
  ASSUME NEW n \in Operation, NEW s, LegsAhead(n, s), Head(s) # "report", NEW more,
         \/ more = << >>
         \/ Head(s) = "fetch" /\ more \in {<<"mine">>, <<"store", "mine">>}
         \/ Head(s) = "mine" /\ more = <<"fetch">>
  PROVE  /\ LegsAhead(n, more \o Tail(s))
         /\ Elements(more \o Tail(s)) = Elements(more) \cup Elements(Tail(s))
<1> DEFINE leg == Head(s)
           r == Tail(s)
<1>1. /\ LegsAhead(n, r) /\ Elements(r) = Elements(s) \ {leg} /\ r \in Seq(Leg)
      /\ leg \in Elements(s) /\ leg \in Leg /\ \A k \in Elements(r) : Rank[leg] < Rank[k]
  BY LegDone
<1>2. Elements(r) \subseteq Leg /\ Elements(Pipeline[n]) \subseteq Leg \ {"open", "store", "mine"}
  BY <1>1, ElementsAreLegs
<1>3. \A k \in Elements(Pipeline[n]) : Rank[leg] < Rank[k] => k \in Elements(r)
  BY <1>1, <1>2, Ranks DEF LegsAhead
<1>4. CASE more = << >>
  <2>1. more \o r = r
    BY <1>1, <1>4, ConcatEmptySeq
  <2> QED
    BY <1>1, <1>4, <2>1, ElementsOfFew
<1>5. leg \in {"fetch", "mine"} => n \in Fetching
  BY <1>1, Pipelines DEF LegsAhead
<1>6. CASE leg = "fetch" /\ more \in {<<"mine">>, <<"store", "mine">>}
  <2>1. Elements(r) \cap {"store", "mine"} = {}
    BY <1>1, <1>6 DEF LegsAhead
  <2>2. \A k \in Elements(r) : Rank["mine"] < Rank[k]
    BY <1>1, <1>2, <1>6, <2>1, Ranks
  <2>3. \A k \in Elements(Pipeline[n]) : Rank["mine"] < Rank[k] => k \in Elements(r)
    BY <1>2, <1>3, <1>6, Ranks
  <2>4. LegsAhead(n, <<"mine">> \o r) /\ Elements(<<"mine">> \o r) = {"mine"} \cup Elements(r)
    BY <1>1, <1>5, <1>6, <2>2, <2>3, LegAdded
  <2> DEFINE m == <<"mine">> \o r
  <2>5. \A k \in Elements(m) : Rank["store"] < Rank[k]
    BY <1>2, <2>2, <2>4, Ranks
  <2>6. \A k \in Elements(Pipeline[n]) : Rank["store"] < Rank[k] => k \in Elements(m)
    <3>1. ASSUME NEW k \in Leg, Rank["store"] < Rank[k] PROVE k = "mine" \/ Rank["fetch"] < Rank[k]
      <4>1. Rank["fetch"] < Rank["store"] /\ {Rank["fetch"], Rank["store"], Rank[k]} \subseteq Nat
        BY Ranks DEF Leg, Rank
      <4> QED
        BY <3>1, <4>1
    <3> QED
      BY <1>2, <1>3, <1>6, <2>4, <3>1
  <2>7. LegsAhead(n, m) /\ "mine" \in Elements(m)
    BY <2>4
  <2> HIDE DEF m
  <2>8. LegsAhead(n, <<"store">> \o m) /\ Elements(<<"store">> \o m) = {"store"} \cup Elements(m)
    BY <1>5, <1>6, <2>5, <2>6, <2>7, LegAdded
  <2>9. <<"store", "mine">> \o r = <<"store">> \o m
    BY <1>1, StoreThenMine DEF m
  <2>10. CASE more = <<"mine">>
    BY <2>4, <2>10, ElementsOfFew
  <2>11. CASE more = <<"store", "mine">>
    BY <2>4, <2>8, <2>9, <2>11, ElementsOfFew DEF m
  <2> QED
    BY <1>6, <2>10, <2>11
<1>7. CASE leg = "mine" /\ more = <<"fetch">>
  <2>1. Elements(r) \cap {"store", "mine"} = {}
    BY <1>1, <1>2, <1>7, Ranks
  <2>2. \A k \in Elements(r) : Rank["fetch"] < Rank[k]
    BY <1>1, <1>2, <1>7, Ranks
  <2>3. \A k \in Elements(Pipeline[n]) : Rank["fetch"] < Rank[k] => k \in Elements(r)
    BY <1>2, <1>3, <1>7, Ranks
  <2>4. LegsAhead(n, <<"fetch">> \o r) /\ Elements(<<"fetch">> \o r) = {"fetch"} \cup Elements(r)
    BY <1>1, <1>5, <1>7, <2>1, <2>2, <2>3, LegAdded
  <2> QED
    BY <1>7, <2>4, ElementsOfFew
<1> QED
  BY <1>4, <1>6, <1>7

\* What a call turned into keeps the settings it was called with.
Same(d, c) ==
  /\ d.name = c.name /\ d.contract = c.contract /\ d.kind = c.kind /\ d.redeploy = c.redeploy
  /\ d.target = c.target /\ d.newOwner = c.newOwner

\* What a call carries, beside its settings, its legs and its outcome.
Carried(e, c) ==
  /\ e.impl = c.impl /\ e.tx = c.tx /\ e.checked = c.checked /\ e.confirmed = c.confirmed
  /\ e.prior = c.prior /\ e.before = c.before /\ e.named = c.named /\ e.verdict = c.verdict

\* One call acts at a leg; it goes on, with further legs ahead or not.
Acts(i, leg) ==
  /\ At(i, leg) /\ i \in DOMAIN calls /\ ~Settled(i) /\ DOMAIN calls' = DOMAIN calls
  /\ \A j \in DOMAIN calls : j # i => calls'[j] = calls[j]
  /\ Same(calls'[i], calls[i])

Continues(i, leg, more) ==
  Acts(i, leg) /\ calls'[i].outcome = "" /\ Legs(i)' = more \cup (Legs(i) \ {leg})

\* What a leg may put ahead of the rest.
Detour(leg, more) ==
  \/ more = << >>
  \/ leg = "fetch" /\ more \in {<<"mine">>, <<"store", "mine">>}
  \/ leg = "mine" /\ more = <<"fetch">>

\* A call goes on to its next leg.
LEMMA GoesOn ==
  ASSUME TypeOK, LegsInv, NEW i, NEW leg \in Leg \ {"report"}, At(i, leg),
         NEW d \in Call, Same(d, calls[i]), d.outcome = "", d.todo = calls[i].todo,
         NEW more, Goes(i, d, more), Detour(leg, more)
  PROVE  /\ calls' \in Seq(Call) /\ Len(calls') = Len(calls) /\ DOMAIN calls' = DOMAIN calls
         /\ \A j \in DOMAIN calls : j # i => calls'[j] = calls[j]
         /\ Same(calls'[i], calls[i]) /\ calls'[i].outcome = "" /\ Carried(calls'[i], d)
         /\ Legs(i)' = Elements(more) \cup (Legs(i) \ {leg})
         /\ Continues(i, leg, Elements(more))
         /\ LegsInv'
<1> DEFINE n == calls[i].name
           s == Tail(calls[i].todo)
<1>1. /\ i \in DOMAIN calls /\ calls[i] \in Call /\ ~Settled(i) /\ n \in Operation
      /\ LegsAhead(n, calls[i].todo) /\ Head(calls[i].todo) = leg /\ turn(i)
      /\ \A l \in Legs(i) : l # leg => Rank[leg] < Rank[l]
  BY AtLeg DEF At
<1>2. /\ LegsAhead(n, s) /\ Elements(s) = Legs(i) \ {leg}
      /\ \A k \in Elements(s) : Rank[leg] < Rank[k]
  BY <1>1, LegDone DEF Legs
<1>3. LegsAhead(n, more \o s) /\ Elements(more \o s) = Elements(more) \cup Elements(s)
  BY <1>1, <1>2, LegsGoOn DEF Detour
<1>4. calls' = [calls EXCEPT ![i] = [d EXCEPT !.todo = more \o s]]
  BY DEF Goes
<1>5. [d EXCEPT !.todo = more \o s] \in Call
  <2>1. more \o s \in Seq(Leg)
    BY <1>3 DEF LegsAhead
  <2>2. Leg = QueuedLegs \cup {"open", "check", "writeBack", "report"}
    BY DEF Leg, Rank, QueuedLegs
  <2> QED
    BY <2>1, <2>2 DEF Call
<1>6. /\ calls' \in Seq(Call) /\ Len(calls') = Len(calls) /\ DOMAIN calls' = DOMAIN calls
      /\ calls'[i] = [d EXCEPT !.todo = more \o s] /\ \A j \in DOMAIN calls : j # i => calls'[j] = calls[j]
  BY <1>1, <1>4, <1>5, OneCall
<1>7. calls'[i].name = n /\ calls'[i].todo = more \o s
  BY <1>5, <1>6 DEF Call, Same
<1>8. Legs(i)' = Elements(more) \cup (Legs(i) \ {leg})
  BY <1>2, <1>3, <1>7 DEF Legs
<1>9. LegsInv'
  BY <1>1, <1>3, <1>6, <1>7, LegsKept
<1>10. Same(calls'[i], calls[i]) /\ calls'[i].outcome = "" /\ Carried(calls'[i], d)
  BY <1>6 DEF Call, Same, Carried
<1> QED
  BY <1>1, <1>6, <1>8, <1>9, <1>10 DEF Continues, Acts

\* A call ends.
LEMMA Ends ==
  ASSUME TypeOK, LegsInv, NEW i \in DOMAIN calls, ~Settled(i), turn(i), NEW o \in {"ok", "refused", "stale"},
         calls' = [calls EXCEPT ![i].todo = << >>, ![i].outcome = o]
  PROVE  /\ calls' \in Seq(Call) /\ Len(calls') = Len(calls) /\ DOMAIN calls' = DOMAIN calls
         /\ \A j \in DOMAIN calls : j # i => calls'[j] = calls[j]
         /\ calls'[i] = [calls[i] EXCEPT !.todo = << >>, !.outcome = o]
         /\ Settled(i)' /\ LegsInv'
<1> DEFINE d == [calls[i] EXCEPT !.todo = << >>, !.outcome = o]
<1>1. calls[i] \in Call
  BY Typed
<1>2. d \in Call /\ d.outcome = o
  BY <1>1, EmptySeq DEF Call
<1>3. calls' = [calls EXCEPT ![i] = d]
  <2>1. calls \in [DOMAIN calls -> Call]
    BY Typed, LenProperties DEF TypeOK
  <2> QED
    BY <1>1, <2>1 DEF Call
<1>4. /\ calls' \in Seq(Call) /\ Len(calls') = Len(calls) /\ DOMAIN calls' = DOMAIN calls
      /\ calls'[i] = d /\ \A j \in DOMAIN calls : j # i => calls'[j] = calls[j]
  BY <1>2, <1>3, OneCall
<1>5. calls'[i].outcome # ""
  BY <1>2, <1>4
<1> QED
  BY <1>4, <1>5, LegsKept DEF Settled

-----------------------------------------------------------------------------
(* Lemmas about the chain *)

\* What no step changes: a transaction stays what it was sent as, and a verdict is final.
TxsStable ==
  /\ Len(txs') \in Nat /\ Len(txs) <= Len(txs')
  /\ \A t \in DOMAIN txs :
       /\ t \in DOMAIN txs'
       /\ txs'[t].what = txs[t].what /\ txs'[t].of = txs[t].of /\ txs'[t].by = txs[t].by
       /\ txs'[t].at = txs[t].at /\ txs'[t].checked = txs[t].checked
       /\ txs[t].status # "pending" => txs'[t].status = txs[t].status

\* A chain that is left alone is stable.
LEMMA TxsUnchanged == ASSUME TypeOK, UNCHANGED txs PROVE TxsStable
<1>1. Len(txs) \in Nat
  BY Typed
<1> QED
  BY <1>1 DEF TxsStable

LiveAfter(a, whats) ==
  /\ a \in DOMAIN txs' /\ txs'[a].what \notin {"upgrade", "transfer"} /\ txs'[a].status = "landed"
  /\ txs'[a].what \in whats

\* What is live stays live, as what it is.
LEMMA LiveStays ==
  ASSUME TxsStable
  PROVE  \A a, w : Is(a, w) => LiveAfter(a, w) /\ txs'[a].of = txs[a].of
BY DEF TxsStable, Is, Created, LiveAfter

\* The host accepts a transaction.
LEMMA Sent ==
  ASSUME TypeOK, NEW tx \in Tx, txs' = Append(txs, tx)
  PROVE  /\ txs' \in Seq(Tx) /\ Len(txs') = Len(txs) + 1 /\ Len(txs) \in Nat
         /\ Len(txs) + 1 \notin DOMAIN txs /\ Len(txs) + 1 # 0
         /\ DOMAIN txs' = DOMAIN txs \cup {Len(txs) + 1}
         /\ txs'[Len(txs) + 1] = tx /\ \A t \in DOMAIN txs : txs'[t] = txs[t]
         /\ TxsStable
<1>1. txs \in Seq(Tx) /\ Len(txs) \in Nat /\ DOMAIN txs = 1..Len(txs)
  BY Typed DEF TypeOK
<1>2. /\ txs' \in Seq(Tx) /\ Len(txs') = Len(txs) + 1 /\ txs'[Len(txs) + 1] = tx
      /\ \A t \in 1..Len(txs) : txs'[t] = txs[t]
  BY <1>1, AppendProperties
<1>3. DOMAIN txs' = 1..Len(txs) + 1
  BY <1>2, LenProperties
<1>4. 1..Len(txs) + 1 = (1..Len(txs)) \cup {Len(txs) + 1} /\ Len(txs) + 1 \notin 1..Len(txs) /\ Len(txs) <= Len(txs) + 1
  BY <1>1
<1>5. TxsStable
  BY <1>1, <1>2, <1>3, <1>4 DEF TxsStable
<1> QED
  BY <1>1, <1>2, <1>3, <1>4, <1>5

\* A verdict on one transaction, and what it does to another.
LEMMA Judged ==
  ASSUME TypeOK, NEW t \in DOMAIN txs, NEW tx \in Tx, NEW a \in DOMAIN txs, NEW ta \in Tx,
         txs' = [[txs EXCEPT ![t] = tx] EXCEPT ![a] = ta]
  PROVE  /\ txs' \in Seq(Tx) /\ Len(txs') = Len(txs) /\ DOMAIN txs' = DOMAIN txs
         /\ txs'[a] = ta /\ (t # a => txs'[t] = tx)
         /\ \A u \in DOMAIN txs : u # t /\ u # a => txs'[u] = txs[u]
<1>1. txs \in Seq(Tx) /\ DOMAIN txs = 1..Len(txs)
  BY Typed DEF TypeOK
<1> DEFINE m == [txs EXCEPT ![t] = tx]
<1>2. m \in Seq(Tx) /\ Len(m) = Len(txs) /\ DOMAIN m = 1..Len(txs)
  BY <1>1, ExceptSeq, LenProperties
<1>3. m[t] = tx /\ \A u \in DOMAIN txs : u # t => m[u] = txs[u]
  BY <1>1
<1> HIDE DEF m
<1>4. txs' = [m EXCEPT ![a] = ta]
  BY DEF m
<1>5. txs' \in Seq(Tx) /\ Len(txs') = Len(txs) /\ DOMAIN txs' = 1..Len(txs)
  BY <1>1, <1>2, <1>4, ExceptSeq, LenProperties
<1> QED
  BY <1>1, <1>2, <1>3, <1>4, <1>5

-----------------------------------------------------------------------------
(* The core invariant, part by part *)

\* A step that sends nothing keeps what the chain points at.
LEMMA ChainKept ==
  ASSUME ChainInv, UNCHANGED txs, DOMAIN calls \subseteq DOMAIN calls'
  PROVE  ChainInv'
BY DEF ChainInv, Is, Created

\* A record that only loses addresses still holds what exists.
LEMMA RecordKept ==
  ASSUME TypeOK, RecordInv, TxsStable, proxies' = proxies,
         \A c \in Contracts : Elements(impls'[c]) \subseteq Elements(impls[c])
  PROVE  RecordInv'
<1>1. \A p : Created(p) => Created(p)' /\ txs'[p].what = txs[p].what
  BY DEF Created, TxsStable
<1>2. \A a : Implementation(a) => Implementation(a)' /\ txs'[a].of = txs[a].of
  BY DEF Implementation, TxsStable
<1> QED
  BY <1>1, <1>2 DEF RecordInv

\* What a call knows outlives the steps of the others.
LEMMA CallKept ==
  ASSUME TypeOK, TxsStable, NEW j \in DOMAIN calls, CallFacts(j), calls'[j] = calls[j]
  PROVE  CallFacts(j)'
<1>1. calls[j] \in Call
  BY Typed
<1>2. Legs(j)' = Legs(j) /\ (Settled(j)' <=> Settled(j))
  BY DEF Legs, Settled
<1>3. \A w : Is(calls[j].target, w) => LiveAfter(calls[j].target, w)
  BY LiveStays
<1>4. Is(calls[j].checked, {"implementation"}) =>
        LiveAfter(calls[j].checked, {"implementation"}) /\ txs'[calls[j].checked].of = txs[calls[j].checked].of
  BY LiveStays
<1>5. \A t \in DOMAIN txs : t \in DOMAIN txs' /\ txs'[t].what = txs[t].what /\ txs'[t].of = txs[t].of
        /\ txs'[t].by = txs[t].by /\ (txs[t].status = "landed" => txs'[t].status = "landed")
  BY DEF TxsStable
<1>6. Names(j) /\ Names(j)'
  BY <1>5 DEF CallFacts, Names
<1>7. ASSUME ~Settled(j) PROVE Knows(j)'
  <2>1. Knows(j)
    BY <1>7 DEF CallFacts
  <2>2. /\ calls[j].impl # 0 => calls[j].impl \in DOMAIN txs
        /\ calls[j].tx # 0 => calls[j].tx \in DOMAIN txs
    BY <1>6 DEF Names
  <2> QED
    BY <1>2, <1>3, <1>4, <1>5, <2>1, <2>2 DEF Knows, Is, Created, LiveAfter, creation, sending, targets
<1> QED
  BY <1>2, <1>6, <1>7 DEF CallFacts

\* When one call changes, what every call knows follows from what that one knows.
LEMMA OthersKept ==
  ASSUME CoreInv, NEW i \in DOMAIN calls, TxsStable,
         DOMAIN calls' = DOMAIN calls, \A j \in DOMAIN calls : j # i => calls'[j] = calls[j],
         CallFacts(i)'
  PROVE  CallInv'
<1> SUFFICES ASSUME NEW j \in DOMAIN calls PROVE CallFacts(j)'
  BY DEF CallInv
<1>1. CASE j # i
  BY <1>1, CallKept DEF CoreInv, CallInv
<1> QED
  BY <1>1

\* The artifacts are put back without touching anything else.
LEMMA RestoredType ==
  ASSUME NEW c \in Call, NEW artifacts \in [Contracts \cup Facades -> Address]
  PROVE  restored(c, artifacts) \in [Contracts \cup Facades -> Address]
<1>1. c.prior \in Address /\ c.contract \in Contracts
  BY CallFields DEF Address
<1> QED
  BY <1>1 DEF restored

\* A refusal, wherever it happens.
LEMMA RefuseCore ==
  ASSUME CoreInv, NEW i, NEW leg \in Leg, At(i, leg), NEW o \in {"refused", "stale"},
         NEW names \in SUBSET (0..Len(txs)), NEW artifacts \in [Contracts \cup Facades -> Address],
         RefuseAs(o, i, names, artifacts), UNCHANGED <<txs, proxies, saved, crashes, migration>>,
         impls' \in [Contracts -> Seq(DOMAIN txs)], dropped' \subseteq DOMAIN txs,
         \A c \in Contracts : Elements(impls'[c]) \subseteq Elements(impls[c])
  PROVE  CoreInv'
<1>1. TypeOK /\ LegsInv /\ ChainInv /\ RecordInv /\ CallInv
  BY DEF CoreInv
<1>2. i \in DOMAIN calls /\ calls[i] \in Call /\ ~Settled(i) /\ turn(i)
  BY <1>1, AtLeg DEF At
<1>3. /\ calls' \in Seq(Call) /\ Len(calls') = Len(calls) /\ DOMAIN calls' = DOMAIN calls
      /\ \A j \in DOMAIN calls : j # i => calls'[j] = calls[j]
      /\ calls'[i] = [calls[i] EXCEPT !.todo = << >>, !.outcome = o] /\ Settled(i)' /\ LegsInv'
  BY <1>1, <1>2, Ends DEF RefuseAs
<1>4. TxsStable
  BY <1>1, TxsUnchanged
<1>5. TypeOK'
  <2>1. back' \in [Contracts \cup Facades -> Address]
    BY <1>2, RestoredType DEF RefuseAs
  <2>2. told' \subseteq 0..Len(txs)
    BY <1>1 DEF RefuseAs, TypeOK
  <2> QED
    BY <1>1, <1>3, <2>1, <2>2 DEF TypeOK
<1>6. CallFacts(i)'
  <2>1. Names(i)
    BY <1>1, <1>2 DEF CallInv, CallFacts
  <2>2. /\ calls'[i].name = calls[i].name /\ calls'[i].target = calls[i].target
        /\ calls'[i].impl = calls[i].impl /\ calls'[i].tx = calls[i].tx
        /\ calls'[i].contract = calls[i].contract /\ calls'[i].confirmed = calls[i].confirmed
    BY <1>2, <1>3 DEF Call
  <2> QED
    BY <1>3, <2>1, <2>2 DEF CallFacts, Names
<1>7. ChainInv' /\ RecordInv'
  BY <1>1, <1>3, <1>4, ChainKept, RecordKept
<1> QED
  BY <1>2, <1>3, <1>4, <1>5, <1>6, <1>7, OthersKept DEF CoreInv

\* The same for a refusal that leaves the record alone.
LEMMA RefuseOnly ==
  ASSUME CoreInv, NEW i, NEW leg \in Leg, At(i, leg), NEW o \in {"refused", "stale"},
         NEW names \in SUBSET (0..Len(txs)), RefuseAs(o, i, names, back),
         UNCHANGED <<txs, impls, proxies, saved, dropped, crashes, migration>>
  PROVE  CoreInv'
<1>1. back \in [Contracts \cup Facades -> Address]
  BY DEF CoreInv, TypeOK
<1>2. impls' \in [Contracts -> Seq(DOMAIN txs)] /\ dropped' \subseteq DOMAIN txs
  BY DEF CoreInv, TypeOK
<1>3. \A c \in Contracts : Elements(impls'[c]) \subseteq Elements(impls[c])
  OBVIOUS
<1> QED
  BY <1>1, <1>2, <1>3, RefuseCore

\* What an operation names when it refuses.
LEMMA NamedAreKnown ==
  ASSUME CoreInv, NEW i \in DOMAIN calls
  PROVE  /\ calls[i].tx \in 0..Len(txs) /\ calls[i].impl \in 0..Len(txs)
         /\ calls[i].name \in Targeted => calls[i].target \in DOMAIN txs
         /\ calls[i].name \in {"deployProxy", "upgradeProxy", "deployBeaconProxy", "forceImport"} =>
              subject(calls[i]) \in 0..Len(txs)
<1>1. DOMAIN txs = 1..Len(txs) /\ Len(txs) \in Nat
  BY Typed DEF CoreInv
<1>2. {0} \cup DOMAIN txs \subseteq 0..Len(txs)
  BY <1>1
<1>3. Names(i)
  BY DEF CoreInv, CallInv, CallFacts
<1> QED
  BY <1>2, <1>3 DEF Names, subject, Targeted

-----------------------------------------------------------------------------
(* Every step keeps the core invariant *)

\* A step of a call that goes on, from what it does to the rest.
LEMMA GoesCore ==
  ASSUME CoreInv, NEW i, NEW leg \in Leg \ {"report"}, At(i, leg),
         calls' \in Seq(Call), Len(calls') = Len(calls), DOMAIN calls' = DOMAIN calls,
         \A j \in DOMAIN calls : j # i => calls'[j] = calls[j], LegsInv',
         UNCHANGED <<saved, crashes, migration>>, TxsStable,
         txs' \in Seq(Tx), Len(txs') <= migration.txs,
         impls' \in [Contracts -> Seq(DOMAIN txs')], back' \in [Contracts \cup Facades -> Address],
         told' = told, dropped' \subseteq DOMAIN txs',
         DOMAIN proxies' \subseteq DOMAIN txs',
         \A p \in DOMAIN proxies' : proxies'[p] \in {"transparent", "uups", "beacon"},
         ChainInv', RecordInv', CallFacts(i)'
  PROVE  CoreInv'
<1>1. TypeOK /\ LegsInv /\ i \in DOMAIN calls
  BY DEF CoreInv, At
<1>2. told' \subseteq 0..Len(txs')
  <2>1. 0..Len(txs) \subseteq 0..Len(txs')
    BY <1>1, Typed DEF TxsStable
  <2> QED
    BY <1>1, <2>1 DEF TypeOK
<1>3. TypeOK'
  BY <1>1, <1>2 DEF TypeOK
<1>4. CallInv'
  BY <1>1, OthersKept
<1> QED
  BY <1>3, <1>4 DEF CoreInv

\* A call that has every leg ahead has nothing to know.
LEMMA NothingYet ==
  ASSUME NEW i, calls'[i].name \in Operation, LegsAhead(calls'[i].name, calls'[i].todo),
         Elements(Pipeline[calls'[i].name]) \subseteq Elements(calls'[i].todo),
         "confirm" \in Elements(calls'[i].todo) => ~calls'[i].confirmed
  PROVE  Knows(i)'
<1> DEFINE n == calls'[i].name
           legs == Elements(calls'[i].todo)
<1>1. /\ n \in Operation /\ "check" \in Elements(Pipeline[n])
      /\ "fetch" \in Elements(Pipeline[n]) <=> n \in Fetching
      /\ "create" \in Elements(Pipeline[n]) <=> n \in Creating
      /\ "send" \in Elements(Pipeline[n]) <=> "verify" \in Elements(Pipeline[n])
      /\ "confirm" \in Elements(Pipeline[n]) <=> n # "forceImport"
  BY Pipelines
<1>2. "verify" \in legs => "verify" \in Elements(Pipeline[n])
  BY DEF LegsAhead
<1>3. /\ "check" \in legs /\ (n \in Fetching => "fetch" \in legs) /\ (n \in Creating => "create" \in legs)
      /\ (n # "forceImport" => "confirm" \in legs) /\ ("verify" \in legs => "send" \in legs)
  BY <1>1, <1>2
<1>4. n \in Creating => n # "forceImport"
  BY DEF Creating
<1>5. Legs(i)' = legs
  BY DEF Legs
<1>7. "confirm" \in legs => ~calls'[i].confirmed
  OBVIOUS
<1> HIDE DEF legs
<1>6. n = "forceImport" => n \in Fetching
  BY <1>1 DEF Fetching
<1> QED
  BY <1>3, <1>4, <1>5, <1>6, <1>7 DEF Knows, FetchLegs

\* The record opens, or refuses.
LEMMA OpenCore == ASSUME CoreInv, NEW i, Open(i) PROVE CoreInv'
<1> DEFINE c == calls[i]
           a == IF c.name = "deployProxy" THEN back[c.contract] ELSE 0
           d == [c EXCEPT !.named = a, !.verdict = VerdictFor(a), !.before = back[c.contract]]
<1>1. TypeOK /\ LegsInv /\ ChainInv /\ RecordInv /\ CallInv
  BY DEF CoreInv
<1>2. At(i, "open") /\ "open" \in Leg \ {"report"}
  BY DEF Open, Leg, Rank
<1>3. i \in DOMAIN calls /\ c \in Call /\ ~Settled(i) /\ c.contract \in Contracts
  BY <1>1, <1>2, AtLeg
<1>4. CASE Goes(i, d, << >>) /\ UNCHANGED <<back, told>>
  <2>1. d \in Call /\ Same(d, c) /\ d.outcome = "" /\ d.todo = c.todo
          /\ d.impl = c.impl /\ d.tx = c.tx /\ d.checked = c.checked /\ d.confirmed = c.confirmed
    <3>1. back[c.contract] \in Address /\ a \in Address
      BY <1>1, <1>3 DEF TypeOK, Address
    <3>2. VerdictFor(a) \in {"none", "authoritative", "no-code-at-address", "unrecorded"}
      BY DEF VerdictFor
    <3>3. c.outcome = ""
      BY <1>3 DEF Settled
    <3> QED
      BY <1>3, <3>1, <3>2, <3>3 DEF Call, Same
  <2> HIDE DEF d
  <2>2. /\ calls' \in Seq(Call) /\ Len(calls') = Len(calls) /\ DOMAIN calls' = DOMAIN calls
        /\ \A j \in DOMAIN calls : j # i => calls'[j] = calls[j]
        /\ Same(calls'[i], calls[i]) /\ calls'[i].outcome = "" /\ Carried(calls'[i], d)
        /\ Legs(i)' = Elements(<< >>) \cup (Legs(i) \ {"open"}) /\ LegsInv'
    <3>1. Detour("open", << >>)
      BY DEF Detour
    <3>2. Same(d, calls[i]) /\ d.outcome = "" /\ d.todo = calls[i].todo /\ d \in Call /\ Goes(i, d, << >>)
      BY <1>4, <2>1
    <3> QED
      BY <1>1, <1>2, <3>1, <3>2, GoesOn, Zenon
  <2>3. /\ {"check", "report"} \subseteq Legs(i)' /\ Elements(Pipeline[c.name]) \subseteq Legs(i)'
    <3>1. c.name \in Operation /\ LegsAhead(c.name, c.todo) /\ "open" \in Legs(i)
      BY <1>1, <1>2, AtLeg
    <3>2. /\ Elements(Pipeline[c.name]) \subseteq Legs(i) /\ {"check", "report"} \subseteq Legs(i)
      BY <3>1, NotBegun DEF Legs
    <3>3. "open" \notin Elements(Pipeline[c.name])
      BY <3>1, Pipelines
    <3> QED
      BY <2>2, <3>2, <3>3, ElementsOfFew
  <2>4. CallFacts(i)'
    <3>1. Names(i)
      BY <1>1, <1>3 DEF CallInv, CallFacts
    <3>2. /\ calls'[i].name = c.name /\ calls'[i].target = c.target /\ calls'[i].kind = c.kind
          /\ calls'[i].impl = c.impl /\ calls'[i].tx = c.tx
          /\ calls'[i].contract = c.contract /\ calls'[i].confirmed = c.confirmed
      BY <2>1, <2>2 DEF Same, Carried
    <3>3. Names(i)'
      BY <3>1, <3>2 DEF Names, Open
    <3>4. LegsAhead(c.name, calls'[i].todo) /\ c.name \in Operation
      BY <1>1, <1>2, <1>3, <2>1, <2>2, <3>2, AtLeg DEF LegsInv, Settled, Call
    <3>5. "confirm" \in Legs(i)' => ~calls'[i].confirmed
      BY <1>1, <1>3, <2>2, <3>2, ElementsOfFew DEF CallInv, CallFacts, Knows
    <3>6. Knows(i)'
      BY <2>3, <3>2, <3>4, <3>5, NothingYet DEF Legs
    <3> QED
      BY <3>3, <3>6 DEF CallFacts
  <2>5. TxsStable /\ ChainInv' /\ RecordInv'
    BY <1>1, <2>2, TxsUnchanged, ChainKept, RecordKept DEF Open
  <2> QED
    BY <1>1, <1>2, <1>4, <2>2, <2>4, <2>5, GoesCore DEF Open, TypeOK
<1>5. CASE Refuse(i, {})
  BY <1>2, <1>5, RefuseOnly DEF Open, Refuse
<1> QED
  BY <1>2, <1>4, <1>5 DEF Open

\* What is behind a call that has come to a leg, and what is still ahead of it.
LEMMA Ahead ==
  ASSUME TypeOK, LegsInv, NEW i, NEW leg \in Leg, At(i, leg)
  PROVE  LET n == calls[i].name
             legs == Legs(i)
         IN  /\ n \in Operation /\ "report" \in legs
             /\ leg # "open" => "open" \notin legs
             /\ leg \notin {"open", "check"} => "check" \notin legs
             /\ leg \notin {"open", "check", "fetch"} => "fetch" \notin legs
             /\ leg \notin {"open", "check", "fetch", "store"} => "store" \notin legs
             /\ leg \notin {"open", "check"} \cup FetchLegs => legs \cap FetchLegs = {}
             /\ leg \in {"confirm", "verify", "record", "writeBack", "report"} =>
                  "create" \notin legs /\ "send" \notin legs
             /\ leg \in {"verify", "record", "writeBack", "report"} => "confirm" \notin legs
             /\ leg \in {"record", "writeBack", "report"} => "verify" \notin legs
             /\ leg \in {"writeBack", "report"} => "record" \notin legs
             /\ leg = "check" /\ n \in Fetching => "fetch" \in legs
             /\ leg \in {"check"} \cup FetchLegs /\ n \in Creating => "create" \in legs
             /\ leg \in {"check"} \cup FetchLegs /\ n \in Upgrading \cup {"transferProxyAdminOwnership"} =>
                  "send" \in legs
             /\ leg \in {"check", "create", "send"} \cup FetchLegs /\ n # "forceImport" => "confirm" \in legs
             /\ leg \in {"check", "create", "send", "confirm"} \cup FetchLegs
                  /\ n \in Upgrading \cup {"transferProxyAdminOwnership"} => "verify" \in legs
             /\ leg \notin {"open", "record", "writeBack", "report"}
                  /\ n \in {"deployProxy", "upgradeProxy", "deployBeaconProxy", "forceImport"} => "record" \in legs
             /\ "fetch" \in legs => n \in Fetching
             /\ "create" \in legs => n \in Creating
             /\ "send" \in legs => n \in Upgrading \cup {"transferProxyAdminOwnership"}
             /\ "verify" \in legs => n \in Upgrading \cup {"transferProxyAdminOwnership"}
             /\ "confirm" \in legs => n # "forceImport"
             /\ "record" \in legs => n \in {"deployProxy", "upgradeProxy", "deployBeaconProxy", "forceImport"}
             /\ "writeBack" \in legs => n = "deployProxy"
<1> DEFINE n == calls[i].name
           legs == Legs(i)
           steps == Elements(Pipeline[n])
<1>1. n \in Operation /\ LegsAhead(n, calls[i].todo) /\ leg \in legs
        /\ \A l \in legs : l # leg => Rank[leg] < Rank[l]
  BY AtLeg
<1>2. /\ "report" \in legs /\ legs \subseteq {"open"} \cup steps \cup {"store", "mine"}
      /\ \A l \in steps : Rank[leg] < Rank[l] => l \in legs
      /\ \A l \in legs : l # leg => Rank[leg] < Rank[l]
  BY <1>1 DEF LegsAhead, Legs
<1>3. /\ "report" \in steps /\ steps \cap {"open", "store", "mine"} = {}
      /\ "fetch" \in steps <=> n \in Fetching
      /\ "create" \in steps <=> n \in Creating
      /\ "send" \in steps <=> n \in Upgrading \cup {"transferProxyAdminOwnership"}
      /\ "verify" \in steps <=> n \in Upgrading \cup {"transferProxyAdminOwnership"}
      /\ "confirm" \in steps <=> n # "forceImport"
      /\ "record" \in steps <=> n \in {"deployProxy", "upgradeProxy", "deployBeaconProxy", "forceImport"}
      /\ "writeBack" \in steps <=> n = "deployProxy"
  BY <1>1, Pipelines
<1> HIDE DEF steps, legs
<1>4. /\ "report" \in legs
      /\ leg # "open" => "open" \notin legs
      /\ leg \notin {"open", "check"} => "check" \notin legs
      /\ leg \notin {"open", "check", "fetch"} => "fetch" \notin legs
      /\ leg \notin {"open", "check", "fetch", "store"} => "store" \notin legs
      /\ leg \notin {"open", "check"} \cup FetchLegs => legs \cap FetchLegs = {}
  BY <1>2 DEF FetchLegs, Leg, Rank
<1>5. /\ leg \in {"confirm", "verify", "record", "writeBack", "report"} =>
           "create" \notin legs /\ "send" \notin legs
      /\ leg \in {"verify", "record", "writeBack", "report"} => "confirm" \notin legs
      /\ leg \in {"record", "writeBack", "report"} => "verify" \notin legs
      /\ leg \in {"writeBack", "report"} => "record" \notin legs
  BY <1>2 DEF Leg, Rank
<1>6. /\ leg = "check" /\ "fetch" \in steps => "fetch" \in legs
      /\ leg \in {"check"} \cup FetchLegs /\ "create" \in steps => "create" \in legs
      /\ leg \in {"check"} \cup FetchLegs /\ "send" \in steps => "send" \in legs
      /\ leg \in {"check", "create", "send"} \cup FetchLegs /\ "confirm" \in steps => "confirm" \in legs
      /\ leg \in {"check", "create", "send", "confirm"} \cup FetchLegs /\ "verify" \in steps => "verify" \in legs
      /\ leg \notin {"open", "record", "writeBack", "report"} /\ "record" \in steps => "record" \in legs
  BY <1>2 DEF FetchLegs, Leg, Rank
<1>7. \A l \in {"fetch", "create", "send", "verify", "confirm", "record", "writeBack"} : l \in legs => l \in steps
  BY <1>2
<1> QED
  BY <1>1, <1>3, <1>4, <1>5, <1>6, <1>7 DEF legs

\* The implementation behind anything live is live.
LEMMA BehindIsLive ==
  ASSUME TypeOK, ChainInv, NEW a, Created(a)
  PROVE  Is(Behind(a), {"implementation"}) /\ Behind(a) \in DOMAIN txs /\ Behind(a) \in Nat
<1>1. a \in DOMAIN txs /\ txs[a].what \in What \ {"upgrade", "transfer"} /\ txs[a].status = "landed"
  BY Typed DEF Created, Tx
<1>2. ASSUME txs[a].what \in Upgradeable PROVE Is(Behind(a), {"implementation"})
  <2>1. Behind(a) = txs[a].points
    BY <1>2 DEF Behind, Upgradeable, ProxyWhats
  <2> QED
    BY <1>1, <1>2, <2>1 DEF ChainInv
<1>3. ASSUME txs[a].what = "beacon-proxy" PROVE Is(Behind(a), {"implementation"})
  <2>1. Is(txs[a].points, {"beacon"})
    BY <1>1, <1>3 DEF ChainInv
  <2>2. Is(txs[txs[a].points].points, {"implementation"})
    BY <2>1 DEF ChainInv, Is, Created, Upgradeable
  <2>3. txs[a].what \notin ProxyWhats \cup {"beacon"}
    BY <1>3 DEF ProxyWhats
  <2>4. Behind(a) = txs[txs[a].points].points
    BY <1>3, <2>3 DEF Behind
  <2> QED
    BY <2>2, <2>4
<1>4. ASSUME txs[a].what = "implementation" PROVE Is(Behind(a), {"implementation"})
  <2>1. txs[a].what \notin ProxyWhats \cup {"beacon"} /\ txs[a].what # "beacon-proxy"
    BY <1>4 DEF ProxyWhats
  <2>2. Behind(a) = a
    BY <2>1 DEF Behind
  <2> QED
    BY <1>4, <2>2 DEF Is
<1>5. Is(Behind(a), {"implementation"})
  BY <1>1, <1>2, <1>3, <1>4 DEF What, Upgradeable, ProxyWhats
<1> QED
  BY <1>5, Typed DEF Is, Created

\* The checks ahead of the queue: nothing to do, on to the step, stale, or refused.
LEMMA CheckCore == ASSUME CoreInv, NEW i, Check(i) PROVE CoreInv'
<1> DEFINE c == calls[i]
           d == [c EXCEPT !.prior = back[c.contract], !.checked = compared(c)]
<1>1. TypeOK /\ LegsInv /\ ChainInv /\ RecordInv /\ CallInv
  BY DEF CoreInv
<1>2. At(i, "check") /\ "check" \in Leg \ {"report"}
  BY DEF Check, Leg, Rank
<1>3. i \in DOMAIN calls /\ c \in Call /\ ~Settled(i) /\ c.contract \in Contracts /\ c.name \in Operation
        /\ turn(i) /\ c.outcome = ""
  BY <1>1, <1>2, AtLeg DEF At
<1>4. Names(i)
  BY <1>1, <1>3 DEF CallInv, CallFacts
<1>5. TxsStable /\ RecordInv'
  BY <1>1, TxsUnchanged, RecordKept DEF Check
<1>6. CASE Accepts(c) /\ alreadyHeld(c) /\ calls' = [calls EXCEPT ![i].todo = <<"report">>]
           /\ UNCHANGED <<back, told>>
  <2> DEFINE e == [c EXCEPT !.todo = <<"report">>]
  <2>1. /\ <<"report">> \in Seq(Leg) /\ InOrder(<<"report">>) /\ Elements(<<"report">>) = {"report"}
    BY ElementsOfFew DEF Leg, Rank, InOrder
  <2>2. e \in Call
    <3>1. Leg = QueuedLegs \cup {"open", "check", "writeBack", "report"}
      BY DEF Leg, Rank, QueuedLegs
    <3> QED
      BY <1>3, <2>1, <3>1 DEF Call
  <2>3. calls' = [calls EXCEPT ![i] = e]
    <3>1. calls \in [DOMAIN calls -> Call]
      BY <1>1, Typed, LenProperties DEF TypeOK
    <3> QED
      BY <1>3, <1>6, <3>1 DEF Call
  <2>4. /\ e.name = c.name /\ e.target = c.target /\ e.impl = c.impl /\ e.tx = c.tx
        /\ e.contract = c.contract /\ e.confirmed = c.confirmed /\ e.outcome = "" /\ e.todo = <<"report">>
    BY <1>3 DEF Call
  <2> HIDE DEF e
  <2>5. /\ calls' \in Seq(Call) /\ Len(calls') = Len(calls) /\ DOMAIN calls' = DOMAIN calls
        /\ calls'[i] = e /\ \A j \in DOMAIN calls : j # i => calls'[j] = calls[j]
    BY <1>1, <1>3, <2>2, <2>3, OneCall
  <2>6. c.name = "transferProxyAdminOwnership" /\ Is(c.target, {"transparent"})
    BY <1>6 DEF alreadyHeld, Accepts
  <2>7. LegsAhead(c.name, <<"report">>)
    <3>1. "report" \in Elements(Pipeline[c.name])
      BY <1>3, Pipelines
    <3>2. \A l \in Elements(Pipeline[c.name]) : ~(Rank["report"] < Rank[l])
      BY <1>3, ElementsAreLegs, Ranks
    <3> QED
      BY <2>1, <3>1, <3>2 DEF LegsAhead
  <2>8. LegsInv'
    BY <1>1, <1>3, <2>4, <2>5, <2>7, LegsKept
  <2>9. CallFacts(i)'
    <3>1. Names(i)'
      BY <1>4, <2>4, <2>5 DEF Names, Check
    <3>2. Legs(i)' = {"report"}
      BY <2>1, <2>4, <2>5 DEF Legs
    <3>3. LiveAfter(c.target, {"transparent"})
      BY <1>5, <2>6, LiveStays
    <3>4. "confirm" \notin Legs(i)'
      BY <3>2
    <3>5. targets(e.name) = {"transparent"} /\ e.name \notin Fetching /\ e.name \notin Creating /\ e.name # "forceImport"
      BY <2>4, <2>6 DEF targets, Fetching, Creating
    <3>6. Knows(i)'
      BY <2>4, <2>5, <3>2, <3>3, <3>4, <3>5 DEF Knows, Is, Created, LiveAfter, targets, sending, creation, FetchLegs
    <3> QED
      BY <3>1, <3>6 DEF CallFacts
  <2>10. ChainInv'
    BY <1>1, <2>5, ChainKept DEF Check
  <2> QED
    BY <1>1, <1>2, <1>5, <1>6, <2>5, <2>8, <2>9, <2>10, GoesCore DEF Check, TypeOK
<1>7. CASE Accepts(c) /\ Goes(i, d, << >>) /\ UNCHANGED <<back, told>>
  <2>1. c.name \in Targeted => Created(c.target)
    BY <1>7 DEF Accepts, Targeted, Is
  <2>2. compared(c) \in Address
    BY <1>1, <2>1, BehindIsLive DEF compared, Address
  <2>3. d \in Call /\ Same(d, c) /\ d.outcome = "" /\ d.todo = c.todo /\ d.impl = c.impl /\ d.tx = c.tx
          /\ d.confirmed = c.confirmed /\ d.checked = compared(c)
    <3>1. back[c.contract] \in Address
      BY <1>1, <1>3 DEF TypeOK
    <3> QED
      BY <1>3, <2>2, <3>1 DEF Call, Same
  <2> HIDE DEF d
  <2>4. /\ calls' \in Seq(Call) /\ Len(calls') = Len(calls) /\ DOMAIN calls' = DOMAIN calls
        /\ \A j \in DOMAIN calls : j # i => calls'[j] = calls[j]
        /\ Same(calls'[i], calls[i]) /\ calls'[i].outcome = "" /\ Carried(calls'[i], d)
        /\ Legs(i)' = Legs(i) \ {"check"} /\ LegsInv'
    <3>1. /\ calls' \in Seq(Call) /\ Len(calls') = Len(calls) /\ DOMAIN calls' = DOMAIN calls
          /\ \A j \in DOMAIN calls : j # i => calls'[j] = calls[j]
          /\ Same(calls'[i], calls[i]) /\ calls'[i].outcome = "" /\ Carried(calls'[i], d)
          /\ Legs(i)' = Elements(<< >>) \cup (Legs(i) \ {"check"}) /\ LegsInv'
      <4>1. Detour("check", << >>)
        BY DEF Detour
      <4>2. Same(d, calls[i]) /\ d.outcome = "" /\ d.todo = calls[i].todo /\ d \in Call /\ Goes(i, d, << >>)
        BY <1>7, <2>3
      <4> QED
        BY <1>1, <1>2, <4>1, <4>2, GoesOn, Zenon
    <3> QED
      BY <3>1, ElementsOfFew
  <2>5. /\ calls'[i].name = c.name /\ calls'[i].target = c.target /\ calls'[i].kind = c.kind
        /\ calls'[i].impl = c.impl /\ calls'[i].tx = c.tx /\ calls'[i].checked = compared(c)
        /\ calls'[i].contract = c.contract /\ calls'[i].confirmed = c.confirmed
    BY <2>3, <2>4 DEF Same, Carried
  <2>6. CallFacts(i)'
    <3>1. Names(i)'
      BY <1>4, <2>5 DEF Names, Check
    <3>2. c.name \in Targeted => LiveAfter(c.target, targets(c.name))
      <4>1. c.name \in Targeted => Is(c.target, targets(c.name))
        <5>1. c.name = "forceImport" => Is(c.target, What)
          BY <1>1, <1>7, Typed DEF Accepts, Is, Created, Tx
        <5>2. c.name \in Targeted \ {"forceImport"} => Is(c.target, targets(c.name))
          BY <1>7 DEF Accepts, targets, Targeted
        <5>3. c.name = "forceImport" => targets(c.name) = What
          BY DEF targets
        <5> QED
          BY <5>1, <5>2, <5>3
      <4> QED
        BY <1>5, <4>1, LiveStays
    <3>3. c.name = "forceImport" => /\ LiveAfter(compared(c), {"implementation"})
                                    /\ txs'[compared(c)].of = c.contract
      <4>1. c.name = "forceImport" => /\ compared(c) = Behind(c.target) /\ Created(c.target)
                                      /\ txs[Behind(c.target)].of = c.contract
        BY <1>7 DEF Accepts, compared, Targeted
      <4>2. c.name = "forceImport" => Is(compared(c), {"implementation"}) /\ compared(c) \in DOMAIN txs
        BY <1>1, <4>1, BehindIsLive
      <4> QED
        BY <1>5, <4>1, <4>2, LiveStays DEF TxsStable
    <3>4. /\ c.name \in Fetching => "fetch" \in Legs(i)'
          /\ c.name \in Creating => "create" \in Legs(i)' /\ "confirm" \in Legs(i)'
          /\ c.name = "forceImport" => c.name \in Fetching
          /\ "verify" \in Legs(i)' => "send" \in Legs(i)'
          /\ "confirm" \in Legs(i)' => ~calls'[i].confirmed
      <4>1. /\ c.name \in Fetching => "fetch" \in Legs(i)
            /\ c.name \in Creating => "create" \in Legs(i)
            /\ c.name # "forceImport" => "confirm" \in Legs(i)
            /\ "verify" \in Legs(i) => c.name \in Upgrading \cup {"transferProxyAdminOwnership"}
            /\ c.name \in Upgrading \cup {"transferProxyAdminOwnership"} => "send" \in Legs(i)
        BY <1>1, <1>2, Ahead
      <4>3. "confirm" \in Legs(i)' => ~calls'[i].confirmed
        BY <1>1, <1>3, <2>4, <2>5 DEF CallInv, CallFacts, Knows
      <4>2. (c.name \in Creating => c.name # "forceImport") /\ (c.name = "forceImport" => c.name \in Fetching)
        BY <1>3 DEF Creating, Fetching
      <4> QED
        BY <2>4, <4>1, <4>2, <4>3
    <3>5. Knows(i)'
      BY <2>5, <3>2, <3>3, <3>4 DEF Knows, Is, Created, LiveAfter, targets, FetchLegs
    <3> QED
      BY <3>1, <3>5 DEF CallFacts
  <2>7. ChainInv'
    BY <1>1, <2>4, ChainKept DEF Check
  <2> QED
    BY <1>1, <1>2, <1>5, <1>7, <2>4, <2>6, <2>7, GoesCore DEF Check, TypeOK
<1>8. CASE RefuseAs("stale", i, {}, back) \/ RefuseAs("refused", i, {}, back)
  BY <1>2, <1>8, RefuseOnly DEF Check
<1> QED
  BY <1>6, <1>7, <1>8 DEF Check, Refuse

\* A call that goes on, and the legs it has ahead then.
LEMMA GoesOnPlain ==
  ASSUME TypeOK, LegsInv, NEW i, NEW leg \in Leg \ {"report"}, At(i, leg),
         NEW d \in Call, Same(d, calls[i]), d.outcome = "", d.todo = calls[i].todo, Goes(i, d, << >>)
  PROVE  /\ calls' \in Seq(Call) /\ Len(calls') = Len(calls) /\ DOMAIN calls' = DOMAIN calls
         /\ \A j \in DOMAIN calls : j # i => calls'[j] = calls[j]
         /\ Legs(i)' = Legs(i) \ {leg}
         /\ Same(calls'[i], calls[i]) /\ calls'[i].outcome = ""
         /\ calls'[i].impl = d.impl /\ calls'[i].tx = d.tx /\ calls'[i].checked = d.checked
         /\ calls'[i].confirmed = d.confirmed /\ calls'[i].prior = d.prior
         /\ calls'[i].before = d.before /\ calls'[i].named = d.named /\ calls'[i].verdict = d.verdict
         /\ LegsInv'
<1>1. /\ calls' \in Seq(Call) /\ Len(calls') = Len(calls) /\ DOMAIN calls' = DOMAIN calls
      /\ \A j \in DOMAIN calls : j # i => calls'[j] = calls[j]
      /\ Same(calls'[i], calls[i]) /\ calls'[i].outcome = "" /\ Carried(calls'[i], d)
      /\ Legs(i)' = Elements(<< >>) \cup (Legs(i) \ {leg}) /\ LegsInv'
  BY GoesOn DEF Detour
<1>2. /\ Same(calls'[i], calls[i]) /\ calls'[i].outcome = ""
      /\ calls'[i].impl = d.impl /\ calls'[i].tx = d.tx /\ calls'[i].checked = d.checked
      /\ calls'[i].confirmed = d.confirmed /\ calls'[i].prior = d.prior
      /\ calls'[i].before = d.before /\ calls'[i].named = d.named /\ calls'[i].verdict = d.verdict
  BY <1>1 DEF Same, Carried
<1> QED
  BY <1>1, <1>2, ElementsOfFew

\* What a call knows once its fetch has an address.
LEMMA FetchedFacts ==
  ASSUME CoreInv, NEW i, At(i, "fetch"), TxsStable,
         Same(calls'[i], calls[i]), calls'[i].outcome = "",
         calls'[i].checked = calls[i].checked, calls'[i].confirmed = calls[i].confirmed,
         calls'[i].impl \in DOMAIN txs', calls'[i].impl # 0, calls'[i].tx \in {0} \cup DOMAIN txs',
         txs'[calls'[i].impl].what = "implementation", txs'[calls'[i].impl].of = calls[i].contract,
         calls[i].name = "forceImport" => calls'[i].impl = calls[i].checked /\ calls'[i].tx = calls[i].tx,
         NEW more \in {{"mine"}, {"store", "mine"}}, Legs(i)' = more \cup (Legs(i) \ {"fetch"})
  PROVE  CallFacts(i)'
<1> DEFINE c == calls[i]
<1>1. TypeOK /\ LegsInv /\ CallInv /\ "fetch" \in Leg /\ "fetch" \in FetchLegs
  BY DEF CoreInv, Leg, Rank, FetchLegs
<1>2. /\ i \in DOMAIN calls /\ c \in Call /\ ~Settled(i) /\ c.name \in Fetching /\ "fetch" \in Legs(i)
      /\ Legs(i) \cap {"open", "check", "store", "mine"} = {}
  BY <1>1, AtLeg, AtFetch
<1>3. Names(i) /\ Knows(i)
  BY <1>1, <1>2 DEF CallInv, CallFacts
<1>4. /\ c.name \in Creating => "create" \in Legs(i)
      /\ c.name \in Upgrading => "send" \in Legs(i)
      /\ c.name # "forceImport" => "confirm" \in Legs(i)
      /\ "verify" \in Legs(i) => c.name \in Upgrading \cup {"transferProxyAdminOwnership"}
  BY <1>1, Ahead
<1>5. c.confirmed => c.name = "forceImport"
  BY <1>3, <1>4 DEF Knows
<1>6. /\ calls'[i].name = c.name /\ calls'[i].target = c.target /\ calls'[i].contract = c.contract
      /\ calls'[i].kind = c.kind
  BY DEF Same
<1>7. \A t \in DOMAIN txs : t \in DOMAIN txs' /\ (txs[t].status = "landed" => txs'[t].status = "landed")
  BY DEF TxsStable
<1>8. Names(i)'
  BY <1>3, <1>5, <1>6, <1>7 DEF Names
<1>9. /\ c.name \in Targeted => LiveAfter(c.target, targets(c.name))
      /\ c.name = "forceImport" => LiveAfter(c.checked, {"implementation"}) /\ txs'[c.checked].of = c.contract
  BY <1>2, <1>3, LiveStays DEF Knows
<1>10. Legs(i)' \cap FetchLegs # {} /\ "fetch" \notin Legs(i)' /\ "check" \notin Legs(i)'
  BY <1>2 DEF FetchLegs
<1>11. /\ c.name \in Creating => "create" \in Legs(i)' /\ "confirm" \in Legs(i)'
       /\ "verify" \in Legs(i)' => "send" \in Legs(i)'
       /\ "confirm" \in Legs(i)' => ~calls'[i].confirmed
  <2>1. c.name \in Creating => c.name # "forceImport"
    BY DEF Creating
  <2>2. c.name # "transferProxyAdminOwnership"
    BY <1>2 DEF Fetching
  <2> QED
    BY <1>3, <1>4, <2>1, <2>2 DEF Knows
<1>12. Knows(i)'
  BY <1>6, <1>9, <1>10, <1>11 DEF Knows, Is, Created, LiveAfter, targets
<1> QED
  BY <1>8, <1>12 DEF CallFacts

\* A transaction that points at what is live, and goes to what is live, is added to the chain.
LEMMA ChainSent ==
  ASSUME TypeOK, ChainInv, NEW tx \in Tx, txs' = Append(txs, tx), DOMAIN calls' = DOMAIN calls,
         tx.what \notin {"upgrade", "transfer"} => tx.at = 0,
         tx.what \in Upgradeable \cup {"upgrade"} => Is(tx.points, {"implementation"}),
         tx.what = "beacon-proxy" => Is(tx.points, {"beacon"}),
         tx.what = "upgrade" => Is(tx.at, Upgradeable),
         tx.what = "transfer" => Is(tx.at, {"transparent"}),
         tx.by \in {0} \cup DOMAIN calls
  PROVE  ChainInv'
<1> DEFINE new == Len(txs) + 1
<1>1. /\ DOMAIN txs' = DOMAIN txs \cup {new} /\ txs'[new] = tx
      /\ \A t \in DOMAIN txs : txs'[t] = txs[t]
  BY Sent
<1> HIDE DEF new
<1>2. \A a, w : Is(a, w) => LiveAfter(a, w)
  BY <1>1 DEF Is, Created, LiveAfter
<1>3. ASSUME NEW t \in DOMAIN txs'
      PROVE  /\ txs'[t].what \notin {"upgrade", "transfer"} => txs'[t].at = 0
             /\ txs'[t].what \in Upgradeable \cup {"upgrade"} => LiveAfter(txs'[t].points, {"implementation"})
             /\ txs'[t].what = "beacon-proxy" => LiveAfter(txs'[t].points, {"beacon"})
             /\ txs'[t].what = "upgrade" => LiveAfter(txs'[t].at, Upgradeable)
             /\ txs'[t].what = "transfer" => LiveAfter(txs'[t].at, {"transparent"})
             /\ txs'[t].by \in {0} \cup DOMAIN calls'
  <2>1. CASE t \in DOMAIN txs
    BY <1>1, <1>2, <2>1 DEF ChainInv
  <2>2. CASE t = new
    BY <1>1, <1>2, <2>2
  <2> QED
    BY <1>1, <2>1, <2>2
<1> QED
  BY <1>3 DEF ChainInv, Is, Created, LiveAfter

\* The record answers, a deployed one is taken over, a new one is deployed, or the fetch refuses.
LEMMA FetchCore == ASSUME CoreInv, NEW i, Fetch(i) PROVE CoreInv'
<1> DEFINE c == calls[i]
           new == Len(txs) + 1
           hit == impls[c.contract] # << >> /\ mode(c) # "always"
           d1 == [c EXCEPT !.impl = Head(impls[c.contract])]
           d2 == [c EXCEPT !.impl = c.checked]
           d3 == [c EXCEPT !.impl = new, !.tx = new]
<1>1. TypeOK /\ LegsInv /\ ChainInv /\ RecordInv /\ CallInv
  BY DEF CoreInv
<1>2. At(i, "fetch") /\ "fetch" \in Leg \ {"report"} /\ "fetch" \in FetchLegs
  BY DEF Fetch, Leg, Rank, FetchLegs
<1>3. /\ i \in DOMAIN calls /\ c \in Call /\ ~Settled(i) /\ c.contract \in Contracts /\ c.name \in Fetching
      /\ c.outcome = "" /\ Legs(i) \cap {"open", "check", "store", "mine"} = {}
  BY <1>1, <1>2, AtLeg, AtFetch
<1>4. Names(i) /\ Knows(i)
  BY <1>1, <1>3 DEF CallInv, CallFacts
<1>5. CASE hit /\ Goes(i, d1, <<"mine">>) /\ UNCHANGED <<txs, back, told>>
  <2>1. /\ Head(impls[c.contract]) \in DOMAIN txs /\ Head(impls[c.contract]) \in Elements(impls[c.contract])
        /\ Head(impls[c.contract]) \in Nat \ {0}
    <3>1. /\ impls[c.contract] \in Seq(DOMAIN txs) /\ impls[c.contract] # << >>
          /\ DOMAIN txs = 1..Len(txs) /\ Len(txs) \in Nat
      BY <1>1, <1>3, <1>5, Typed
    <3>2. /\ Head(impls[c.contract]) = impls[c.contract][1] /\ Len(impls[c.contract]) \in Nat \ {0}
          /\ DOMAIN impls[c.contract] = 1..Len(impls[c.contract])
      BY <3>1, HeadTailProperties, EmptySeq, LenProperties
    <3>3. Head(impls[c.contract]) \in Elements(impls[c.contract])
      BY <3>2 DEF Elements
    <3>4. Head(impls[c.contract]) \in DOMAIN txs
      BY <1>1, <1>3, <3>3, Typed
    <3>5. \A t \in 1..Len(txs) : t \in Nat \ {0}
      BY <3>1
    <3> QED
      BY <3>1, <3>3, <3>4, <3>5
  <2>2. txs[Head(impls[c.contract])].what = "implementation" /\ txs[Head(impls[c.contract])].of = c.contract
    BY <1>1, <1>3, <2>1 DEF RecordInv, Implementation
  <2>3. d1 \in Call /\ Same(d1, c) /\ d1.outcome = "" /\ d1.todo = c.todo /\ d1.tx = c.tx /\ d1.checked = c.checked
          /\ d1.confirmed = c.confirmed /\ d1.impl = Head(impls[c.contract])
    BY <1>3, <2>1 DEF Call, Same, Address
  <2> HIDE DEF d1
  <2>4. /\ calls' \in Seq(Call) /\ Len(calls') = Len(calls) /\ DOMAIN calls' = DOMAIN calls
        /\ \A j \in DOMAIN calls : j # i => calls'[j] = calls[j]
        /\ Same(calls'[i], calls[i]) /\ calls'[i].outcome = "" /\ Carried(calls'[i], d1)
        /\ Legs(i)' = Elements(<<"mine">>) \cup (Legs(i) \ {"fetch"}) /\ LegsInv'
    <3>1. Detour("fetch", <<"mine">>)
      BY DEF Detour
    <3>2. Same(d1, calls[i]) /\ d1.outcome = "" /\ d1.todo = calls[i].todo /\ d1 \in Call /\ Goes(i, d1, <<"mine">>)
      BY <1>5, <2>3
    <3> QED
      BY <1>1, <1>2, <3>1, <3>2, GoesOn, Zenon
  <2>5. /\ Same(calls'[i], c) /\ calls'[i].outcome = "" /\ calls'[i].checked = c.checked
        /\ calls'[i].confirmed = c.confirmed /\ calls'[i].tx = c.tx /\ calls'[i].impl = Head(impls[c.contract])
    BY <2>3, <2>4 DEF Same, Carried
  <2>6. TxsStable /\ RecordInv' /\ ChainInv'
    BY <1>1, <1>5, <2>4, TxsUnchanged, RecordKept, ChainKept DEF Fetch
  <2>7. c.name # "forceImport"
    BY <1>5 DEF mode
  <2>8. CallFacts(i)'
    BY <1>2, <1>4, <1>5, <2>1, <2>2, <2>4, <2>5, <2>6, <2>7, FetchedFacts, ElementsOfFew DEF Names
  <2> QED
    BY <1>1, <1>2, <1>5, <2>4, <2>6, <2>8, GoesCore DEF Fetch, TypeOK
<1>6. CASE c.name = "forceImport" /\ Goes(i, d2, <<"store", "mine">>) /\ UNCHANGED <<txs, back, told>>
  <2>1. Is(c.checked, {"implementation"}) /\ txs[c.checked].of = c.contract
    BY <1>3, <1>4, <1>6 DEF Knows
  <2>2. c.checked \in DOMAIN txs /\ c.checked \in Nat \ {0} /\ txs[c.checked].what = "implementation"
    BY <1>1, <2>1, Typed DEF Is, Created
  <2>3. d2 \in Call /\ Same(d2, c) /\ d2.outcome = "" /\ d2.todo = c.todo /\ d2.tx = c.tx /\ d2.checked = c.checked
          /\ d2.confirmed = c.confirmed /\ d2.impl = c.checked
    BY <1>3, <2>2 DEF Call, Same, Address
  <2> HIDE DEF d2
  <2>4. /\ calls' \in Seq(Call) /\ Len(calls') = Len(calls) /\ DOMAIN calls' = DOMAIN calls
        /\ \A j \in DOMAIN calls : j # i => calls'[j] = calls[j]
        /\ Same(calls'[i], calls[i]) /\ calls'[i].outcome = "" /\ Carried(calls'[i], d2)
        /\ Legs(i)' = Elements(<<"store", "mine">>) \cup (Legs(i) \ {"fetch"}) /\ LegsInv'
    <3>1. Detour("fetch", <<"store", "mine">>)
      BY DEF Detour
    <3>2. Same(d2, calls[i]) /\ d2.outcome = "" /\ d2.todo = calls[i].todo /\ d2 \in Call /\ Goes(i, d2, <<"store", "mine">>)
      BY <1>6, <2>3
    <3> QED
      BY <1>1, <1>2, <3>1, <3>2, GoesOn, Zenon
  <2>5. /\ Same(calls'[i], c) /\ calls'[i].outcome = "" /\ calls'[i].checked = c.checked
        /\ calls'[i].confirmed = c.confirmed /\ calls'[i].tx = c.tx /\ calls'[i].impl = c.checked
    BY <2>3, <2>4 DEF Same, Carried
  <2>6. TxsStable /\ RecordInv' /\ ChainInv'
    BY <1>1, <1>6, <2>4, TxsUnchanged, RecordKept, ChainKept DEF Fetch
  <2>7. CallFacts(i)'
    <3>1. /\ c.checked # 0 /\ txs' = txs /\ calls[i].tx \in {0} \cup DOMAIN txs
      BY <1>4, <1>6, <2>2 DEF Names
    <3>2. Legs(i)' = {"store", "mine"} \cup (Legs(i) \ {"fetch"})
      BY <2>4, ElementsOfFew
    <3> QED
      BY <1>2, <2>1, <2>2, <2>4, <2>5, <2>6, <3>1, <3>2, FetchedFacts
  <2> QED
    BY <1>1, <1>2, <1>6, <2>4, <2>6, <2>7, GoesCore DEF Fetch, TypeOK
<1>7. CASE c.name # "forceImport" /\ hostDeploy(NewTx("implementation", c.contract, 0, 0, 0, i), c.contract)
           /\ Goes(i, d3, <<"store", "mine">>) /\ told' = told
  <2> DEFINE tx == NewTx("implementation", c.contract, 0, 0, 0, i)
  <2>1. /\ tx \in Tx /\ tx.what = "implementation" /\ tx.of = c.contract /\ tx.by = i /\ tx.at = 0
        /\ i \in Nat
    <3>1. i \in Nat
      <4>1. i \in 1..Len(calls) /\ Len(calls) \in Nat
        BY <1>1, <1>3, Typed
      <4> QED
        BY <4>1
    <3> QED
      BY <1>3, <3>1 DEF NewTx, Tx, What, Address, Owner
  <2> HIDE DEF tx
  <2>2. txs' = Append(txs, tx) /\ Len(txs) < migration.txs /\ back' = [back EXCEPT ![c.contract] = new]
    BY <1>7 DEF hostDeploy, tx
  <2>3. /\ txs' \in Seq(Tx) /\ Len(txs') = new /\ Len(txs) \in Nat /\ new \notin DOMAIN txs /\ new # 0
        /\ DOMAIN txs' = DOMAIN txs \cup {new} /\ txs'[new] = tx /\ \A t \in DOMAIN txs : txs'[t] = txs[t]
        /\ TxsStable
    BY <1>1, <2>1, <2>2, Sent
  <2>4. new \in Nat /\ Len(txs') <= migration.txs
    <3>1. migration.txs \in Nat
      BY <1>1, OperationsAssumption DEF TypeOK, Migration
    <3> QED
      BY <2>2, <2>3, <3>1
  <2> HIDE DEF new
  <2>5. d3 \in Call /\ Same(d3, c) /\ d3.outcome = "" /\ d3.todo = c.todo /\ d3.tx = new /\ d3.checked = c.checked
          /\ d3.confirmed = c.confirmed /\ d3.impl = new
    BY <1>3, <2>4 DEF Call, Same, Address
  <2> HIDE DEF d3
  <2>6. /\ calls' \in Seq(Call) /\ Len(calls') = Len(calls) /\ DOMAIN calls' = DOMAIN calls
        /\ \A j \in DOMAIN calls : j # i => calls'[j] = calls[j]
        /\ Same(calls'[i], calls[i]) /\ calls'[i].outcome = "" /\ Carried(calls'[i], d3)
        /\ Legs(i)' = Elements(<<"store", "mine">>) \cup (Legs(i) \ {"fetch"}) /\ LegsInv'
    <3>1. Detour("fetch", <<"store", "mine">>)
      BY DEF Detour
    <3>2. Same(d3, calls[i]) /\ d3.outcome = "" /\ d3.todo = calls[i].todo /\ d3 \in Call /\ Goes(i, d3, <<"store", "mine">>)
      BY <1>7, <2>5
    <3> QED
      BY <1>1, <1>2, <3>1, <3>2, GoesOn, Zenon
  <2>7. /\ Same(calls'[i], c) /\ calls'[i].outcome = "" /\ calls'[i].checked = c.checked
        /\ calls'[i].confirmed = c.confirmed /\ calls'[i].tx = new /\ calls'[i].impl = new
    BY <2>5, <2>6 DEF Same, Carried
  <2>8. RecordInv'
    BY <1>1, <2>3, RecordKept DEF Fetch
  <2>9. CallFacts(i)'
    <3>1. /\ new \in DOMAIN txs' /\ new # 0 /\ txs'[new].what = "implementation"
          /\ txs'[new].of = c.contract /\ c.name # "forceImport"
      BY <1>7, <2>1, <2>3
    <3>2. Legs(i)' = {"store", "mine"} \cup (Legs(i) \ {"fetch"})
      BY <2>6, ElementsOfFew
    <3> QED
      BY <1>2, <2>3, <2>6, <2>7, <3>1, <3>2, FetchedFacts
  <2>10. ChainInv'
    <3>1. tx.what \notin Upgradeable \cup {"upgrade", "beacon-proxy", "transfer"}
      BY <2>1 DEF Upgradeable, ProxyWhats
    <3> QED
      BY <1>1, <1>3, <2>1, <2>2, <2>6, <3>1, ChainSent
  <2>11. /\ impls' \in [Contracts -> Seq(DOMAIN txs')] /\ back' \in [Contracts \cup Facades -> Address]
         /\ dropped' \subseteq DOMAIN txs' /\ DOMAIN proxies' \subseteq DOMAIN txs'
    <3>1. \A s \in Seq(DOMAIN txs) : s \in Seq(DOMAIN txs')
      BY <2>3, SeqMonotonic
    <3> QED
      BY <1>1, <2>2, <2>3, <2>4, <3>1 DEF Fetch, TypeOK, Address
  <2> QED
    BY <1>1, <1>2, <1>7, <2>3, <2>4, <2>6, <2>8, <2>9, <2>10, <2>11, GoesCore DEF Fetch, TypeOK
<1>8. CASE Refuse(i, {}) /\ UNCHANGED txs
  BY <1>2, <1>8, RefuseOnly DEF Fetch, Refuse
<1> QED
  BY <1>5, <1>6, <1>7, <1>8 DEF Fetch

\* What a call knows after a leg at which it sends nothing.
LEMMA StaysFacts ==
  ASSUME CoreInv, NEW i, NEW leg \in Leg \ {"report", "check", "fetch", "create", "send"}, At(i, leg), TxsStable,
         Same(calls'[i], calls[i]), calls'[i].outcome = "",
         calls'[i].impl = calls[i].impl, calls'[i].tx = calls[i].tx, calls'[i].checked = calls[i].checked,
         calls'[i].confirmed # calls[i].confirmed =>
           leg = "confirm" /\ calls[i].tx # 0 /\ txs[calls[i].tx].status = "landed",
         NEW more \in {{}, {"fetch"}}, more # {} => leg = "mine",
         Legs(i)' = more \cup (Legs(i) \ {leg}),
         leg = "mine" /\ more = {} => txs[calls[i].impl].status = "landed",
         leg = "confirm" /\ calls[i].name \in Creating => txs[calls[i].tx].status = "landed"
  PROVE  CallFacts(i)'
<1> DEFINE c == calls[i]
<1>1. TypeOK /\ LegsInv /\ CallInv /\ i \in DOMAIN calls /\ ~Settled(i) /\ "open" \in Leg
  BY DEF CoreInv, At, Leg, Rank
<1>2. Names(i) /\ Knows(i)
  BY <1>1 DEF CallInv, CallFacts
<1>3. /\ calls'[i].name = c.name /\ calls'[i].target = c.target /\ calls'[i].contract = c.contract
      /\ calls'[i].kind = c.kind
  BY DEF Same
<1>4. \A t \in DOMAIN txs : t \in DOMAIN txs' /\ (txs[t].status = "landed" => txs'[t].status = "landed")
        /\ txs'[t].what = txs[t].what /\ txs'[t].of = txs[t].of /\ txs'[t].by = txs[t].by
  BY DEF TxsStable
<1>5. /\ c.impl # 0 => c.impl \in DOMAIN txs /\ txs[c.impl].what = "implementation" /\ txs[c.impl].of = c.contract
      /\ c.tx # 0 => c.tx \in DOMAIN txs
      /\ c.confirmed => c.tx # 0 /\ txs[c.tx].status = "landed"
  BY <1>2 DEF Names
<1>6. Names(i)'
  <2>1. calls'[i].name \in Targeted => calls'[i].target \in DOMAIN txs'
    BY <1>2, <1>3, <1>4 DEF Names
  <2>2. calls'[i].impl \in {0} \cup DOMAIN txs' /\ calls'[i].tx \in {0} \cup DOMAIN txs'
    BY <1>2, <1>4 DEF Names
  <2>3. calls'[i].impl # 0 => /\ txs'[calls'[i].impl].what = "implementation"
                             /\ txs'[calls'[i].impl].of = calls'[i].contract
    BY <1>3, <1>4, <1>5
  <2>4. calls'[i].confirmed => calls'[i].tx # 0 /\ txs'[calls'[i].tx].status = "landed"
    BY <1>4, <1>5
  <2> QED
    BY <2>1, <2>2, <2>3, <2>4 DEF Names
<1>7. Legs(i)' = IF more = {} THEN Legs(i) \ {leg} ELSE {"fetch"} \cup (Legs(i) \ {leg})
  OBVIOUS
<1>8. leg = "open" =>
        /\ "check" \in Legs(i)' /\ (c.name \in Fetching => "fetch" \in Legs(i)')
        /\ (c.name \in Creating => "create" \in Legs(i)' /\ "confirm" \in Legs(i)')
  <2>1. leg = "open" => /\ c.name \in Operation /\ LegsAhead(c.name, c.todo) /\ "open" \in Legs(i)
    BY <1>1, AtLeg
  <2>2. leg = "open" => Elements(Pipeline[c.name]) \subseteq Legs(i) /\ "check" \in Legs(i)
    <3> SUFFICES ASSUME leg = "open" PROVE Elements(Pipeline[c.name]) \subseteq Legs(i) /\ "check" \in Legs(i)
      OBVIOUS
    <3>1. c.name \in Operation /\ LegsAhead(c.name, c.todo) /\ "open" \in Elements(c.todo)
      BY <2>1 DEF Legs
    <3> HIDE DEF c
    <3>2. /\ Elements(Pipeline[c.name]) \subseteq Elements(c.todo) /\ {"check", "report"} \subseteq Elements(c.todo)
          /\ Elements(c.todo) \cap {"store", "mine"} = {}
      BY <3>1, NotBegun, Zenon
    <3> QED
      BY <3>2 DEF Legs, c
  <2>3. c.name \in Creating => c.name # "forceImport"
    BY DEF Creating
  <2> QED
    BY <1>7, <2>1, <2>2, <2>3, Pipelines
<1>9. /\ c.name \in Targeted /\ Is(c.target, targets(c.name)) => LiveAfter(c.target, targets(c.name))
      /\ Is(c.checked, {"implementation"}) => LiveAfter(c.checked, {"implementation"}) /\ txs'[c.checked].of = txs[c.checked].of
  BY LiveStays
<1>10. Legs(i)' \cap FetchLegs = {} /\ c.name \in Fetching => c.impl # 0 /\ txs'[c.impl].status = "landed"
  <2>1. CASE leg = "mine"
    <3>1. "fetch" \notin Legs(i)
      BY <1>1, <2>1, AtFetch DEF FetchLegs
    <3> QED
      BY <1>2, <1>4, <1>5, <1>7, <2>1, <3>1 DEF Knows, FetchLegs
  <2>2. CASE leg = "store"
    <3>1. "mine" \in Legs(i)
      BY <1>1, <2>2, AtFetch DEF FetchLegs
    <3> QED
      BY <1>7, <2>2, <3>1 DEF FetchLegs
  <2>3. CASE leg \notin {"mine", "store"}
    <3>1. Legs(i)' \cap FetchLegs = {} => Legs(i) \cap FetchLegs = {}
      BY <1>7, <2>3 DEF FetchLegs
    <3> QED
      BY <1>2, <1>4, <1>5, <3>1 DEF Knows
  <2> QED
    BY <2>1, <2>2, <2>3
<1>11. leg \in {"store", "mine"} => "check" \notin Legs(i)
  BY <1>1, AtFetch DEF FetchLegs
<1>12. Knows(i)'
  <2>1. "check" \notin Legs(i)' => "check" \notin Legs(i)
    BY <1>7, <1>8
  <2>2. "fetch" \notin Legs(i)' => "fetch" \notin Legs(i)
    BY <1>7
  <2>3. /\ "create" \notin Legs(i)' => "create" \notin Legs(i)
        /\ "send" \notin Legs(i)' /\ "verify" \in Legs(i)' => "send" \notin Legs(i) /\ "verify" \in Legs(i)
        /\ "confirm" \in Legs(i)' => "confirm" \in Legs(i) /\ leg # "confirm"
        /\ "confirm" \notin Legs(i)' => "confirm" \notin Legs(i) \/ leg = "confirm"
    BY <1>7
  <2>4. leg = "confirm" /\ c.name \in Creating => c.tx # 0
    <3>1. leg = "confirm" => "create" \notin Legs(i)
      BY <1>1, Ahead
    <3> QED
      BY <1>2, <3>1 DEF Knows
  <2>5. /\ "check" \notin Legs(i)' /\ c.name \in Targeted => LiveAfter(c.target, targets(c.name))
        /\ "check" \notin Legs(i)' /\ c.name = "forceImport" =>
             LiveAfter(c.checked, {"implementation"}) /\ txs'[c.checked].of = c.contract
    BY <1>2, <1>9, <2>1 DEF Knows
  <2>6. /\ "fetch" \notin Legs(i)' /\ c.name \in Fetching => c.impl # 0
        /\ "fetch" \notin Legs(i)' /\ c.name = "forceImport" => c.impl = c.checked
    BY <1>2, <2>2 DEF Knows
  <2>7. /\ "create" \notin Legs(i)' /\ c.name \in Creating =>
             c.tx # 0 /\ txs'[c.tx].what = creation(c) /\ txs'[c.tx].by = i
        /\ "send" \notin Legs(i)' /\ "verify" \in Legs(i)' =>
             c.tx # 0 /\ txs'[c.tx].what = sending(c) /\ txs'[c.tx].by = i
    BY <1>2, <1>4, <1>5, <2>3 DEF Knows
  <2>8. "confirm" \notin Legs(i)' /\ c.name \in Creating => c.tx # 0 /\ txs'[c.tx].status = "landed"
    BY <1>2, <1>4, <1>5, <2>3, <2>4 DEF Knows
  <2>9. "confirm" \in Legs(i)' => ~calls'[i].confirmed
    BY <1>2, <2>3 DEF Knows
  <2>10. creation(calls'[i]) = creation(c) /\ sending(calls'[i]) = sending(c) /\ targets(calls'[i].name) = targets(c.name)
    BY <1>3 DEF creation, sending, targets
  <2>11. \A a, w : LiveAfter(a, w) => a \in DOMAIN txs' /\ Is(a, w)'
    BY DEF Is, Created, LiveAfter
  <2>12. calls'[i].checked = c.checked /\ calls'[i].impl = c.impl /\ calls'[i].tx = c.tx
    OBVIOUS
  <2>13. /\ "check" \notin Legs(i)' /\ calls'[i].name \in Targeted => Is(calls[i].target, targets(calls[i].name))'
         /\ "check" \notin Legs(i)' /\ calls'[i].name = "forceImport" =>
              Is(calls[i].checked, {"implementation"})' /\ txs'[calls'[i].checked].of = calls'[i].contract
    BY <1>3, <2>5, <2>10, <2>11, <2>12
  <2> QED
    BY <1>3, <1>10, <2>6, <2>7, <2>8, <2>9, <2>10, <2>12, <2>13 DEF Knows
<1> QED
  BY <1>6, <1>12 DEF CallFacts

\* The engine stores the address under its version.
LEMMA StoreCore == ASSUME CoreInv, NEW i, Store(i) PROVE CoreInv'
<1> DEFINE c == calls[i]
           s == impls[c.contract]
<1>1. TypeOK /\ LegsInv /\ ChainInv /\ RecordInv /\ CallInv
  BY DEF CoreInv
<1>2. At(i, "store") /\ "store" \in Leg \ {"report", "check", "fetch", "create", "send"} /\ "store" \in FetchLegs
  BY DEF Store, Leg, Rank, FetchLegs
<1>3. /\ i \in DOMAIN calls /\ c \in Call /\ ~Settled(i) /\ c.contract \in Contracts /\ c.name \in Fetching
      /\ c.outcome = "" /\ "fetch" \notin Legs(i)
  BY <1>1, <1>2, AtLeg, AtFetch
<1>4. Names(i) /\ Knows(i)
  BY <1>1, <1>3 DEF CallInv, CallFacts
<1>5. Goes(i, c, << >>) /\ UNCHANGED <<txs, proxies, back, saved, told, dropped, crashes, migration>>
        /\ impls' = [impls EXCEPT ![c.contract] = IF c.impl \in Elements(s) THEN s ELSE Append(s, c.impl)]
  BY DEF Store
<1>6. c.impl \in DOMAIN txs /\ txs[c.impl].what = "implementation" /\ txs[c.impl].of = c.contract
  BY <1>3, <1>4 DEF Names, Knows
<1>7. /\ calls' \in Seq(Call) /\ Len(calls') = Len(calls) /\ DOMAIN calls' = DOMAIN calls
      /\ \A j \in DOMAIN calls : j # i => calls'[j] = calls[j]
      /\ Legs(i)' = Legs(i) \ {"store"}
      /\ Same(calls'[i], calls[i]) /\ calls'[i].outcome = ""
      /\ calls'[i].impl = c.impl /\ calls'[i].tx = c.tx /\ calls'[i].checked = c.checked
      /\ calls'[i].confirmed = c.confirmed /\ LegsInv'
  <2>1. Same(c, c)
    BY DEF Same
  <2> QED
    BY <1>1, <1>2, <1>3, <1>5, <2>1, GoesOnPlain
<1>8. TxsStable /\ ChainInv'
  BY <1>1, <1>5, <1>7, TxsUnchanged, ChainKept
<1>9. Append(s, c.impl) \in Seq(DOMAIN txs) /\ Elements(Append(s, c.impl)) = Elements(s) \cup {c.impl}
  <2>1. s \in Seq(DOMAIN txs)
    BY <1>1, <1>3, Typed
  <2> QED
    BY <1>6, <2>1, ElementsOfAppend
<1>10. impls' \in [Contracts -> Seq(DOMAIN txs)]
  BY <1>1, <1>3, <1>5, <1>9 DEF TypeOK
<1>11. \A v \in Contracts : Elements(impls'[v]) \subseteq Elements(impls[v]) \cup (IF v = c.contract THEN {c.impl} ELSE {})
  BY <1>1, <1>3, <1>5, <1>9 DEF TypeOK
<1>12. RecordInv'
  BY <1>1, <1>5, <1>6, <1>11 DEF RecordInv, Implementation, Created
<1>13. CallFacts(i)'
  BY <1>2, <1>7, <1>8, StaysFacts
<1> QED
  BY <1>1, <1>2, <1>5, <1>7, <1>8, <1>10, <1>12, <1>13, GoesCore DEF TypeOK

\* The engine's wait: the deployment is there, undecided, or invalid and forgotten.
LEMMA MineCore == ASSUME CoreInv, NEW i, Mine(i) PROVE CoreInv'
<1> DEFINE c == calls[i]
           judged == impls[c.contract] # << >> /\ Head(impls[c.contract]) = c.impl
           d == [c EXCEPT !.retried = TRUE]
<1>1. TypeOK /\ LegsInv /\ ChainInv /\ RecordInv /\ CallInv
  BY DEF CoreInv
<1>2. At(i, "mine") /\ "mine" \in Leg \ {"report", "check", "fetch", "create", "send"} /\ "mine" \in FetchLegs
  BY DEF Mine, Leg, Rank, FetchLegs
<1>3. /\ i \in DOMAIN calls /\ c \in Call /\ ~Settled(i) /\ c.contract \in Contracts /\ c.name \in Fetching
      /\ c.outcome = "" /\ "fetch" \notin Legs(i)
  BY <1>1, <1>2, AtLeg, AtFetch
<1>4. TxsStable
  BY <1>1, TxsUnchanged DEF Mine
<1>5. CASE txs[c.impl].status = "landed" /\ Goes(i, c, << >>) /\ UNCHANGED <<impls, back, told, dropped, migration>>
  <2>1. Same(c, c)
    BY DEF Same
  <2>2. /\ calls' \in Seq(Call) /\ Len(calls') = Len(calls) /\ DOMAIN calls' = DOMAIN calls
        /\ \A j \in DOMAIN calls : j # i => calls'[j] = calls[j]
        /\ Legs(i)' = Legs(i) \ {"mine"}
        /\ Same(calls'[i], calls[i]) /\ calls'[i].outcome = ""
        /\ calls'[i].impl = c.impl /\ calls'[i].tx = c.tx /\ calls'[i].checked = c.checked
        /\ calls'[i].confirmed = c.confirmed /\ LegsInv'
    <3>1. /\ TypeOK /\ LegsInv /\ "mine" \in Leg \ {"report"} /\ At(i, "mine") /\ c \in Call
          /\ Same(c, calls[i]) /\ c.outcome = "" /\ c.todo = calls[i].todo /\ Goes(i, c, << >>)
      BY <1>1, <1>2, <1>3, <1>5, <2>1
    <3> HIDE DEF c, judged, d
    <3>2. /\ calls' \in Seq(Call) /\ Len(calls') = Len(calls) /\ DOMAIN calls' = DOMAIN calls
          /\ \A j \in DOMAIN calls : j # i => calls'[j] = calls[j]
          /\ Legs(i)' = Legs(i) \ {"mine"}
          /\ Same(calls'[i], calls[i]) /\ calls'[i].outcome = ""
          /\ calls'[i].impl = c.impl /\ calls'[i].tx = c.tx /\ calls'[i].checked = c.checked
          /\ calls'[i].confirmed = c.confirmed /\ calls'[i].prior = c.prior
          /\ calls'[i].before = c.before /\ calls'[i].named = c.named /\ calls'[i].verdict = c.verdict
          /\ LegsInv'
      BY <3>1, GoesOnPlain
    <3> QED
      BY <3>2
  <2>3. ChainInv' /\ RecordInv'
    BY <1>1, <1>4, <1>5, <2>2, ChainKept, RecordKept DEF Mine
  <2>4. CallFacts(i)'
    BY <1>2, <1>4, <1>5, <2>2, StaysFacts
  <2> QED
    BY <1>1, <1>2, <1>4, <1>5, <2>2, <2>3, <2>4, GoesCore DEF Mine, TypeOK
<1>6. CASE Refuse(i, {c.impl}) /\ UNCHANGED <<impls, dropped>>
  <2>1. {c.impl} \subseteq 0..Len(txs)
    BY <1>3, NamedAreKnown
  <2> QED
    BY <1>2, <1>6, <2>1, RefuseOnly DEF Mine, Refuse
<1>7. ASSUME impls' = IF judged THEN [impls EXCEPT ![c.contract] = << >>] ELSE impls,
             dropped' = dropped \cup (IF judged THEN Elements(impls[c.contract]) \ {c.impl} ELSE {})
      PROVE  /\ impls' \in [Contracts -> Seq(DOMAIN txs)] /\ dropped' \subseteq DOMAIN txs
             /\ \A v \in Contracts : Elements(impls'[v]) \subseteq Elements(impls[v])
  <2>1. << >> \in Seq(DOMAIN txs) /\ Elements(<< >>) = {}
    BY EmptySeq, ElementsOfFew
  <2>2. Elements(impls[c.contract]) \subseteq DOMAIN txs
    BY <1>1, <1>3, Typed
  <2>3. impls \in [Contracts -> Seq(DOMAIN txs)] /\ dropped \subseteq DOMAIN txs
    BY <1>1 DEF TypeOK
  <2> HIDE DEF judged
  <2> QED
    BY <1>3, <1>7, <2>1, <2>2, <2>3
<1>8. CASE /\ txs[c.impl].status = "reverted"
           /\ impls' = IF judged THEN [impls EXCEPT ![c.contract] = << >>] ELSE impls
           /\ dropped' = dropped \cup (IF judged THEN Elements(impls[c.contract]) \ {c.impl} ELSE {})
           /\ Goes(i, d, <<"fetch">>) /\ UNCHANGED <<back, told>>
  <2>1. d \in Call /\ Same(d, c) /\ d.outcome = "" /\ d.todo = c.todo /\ d.tx = c.tx /\ d.checked = c.checked
          /\ d.confirmed = c.confirmed /\ d.impl = c.impl
    BY <1>3 DEF Call, Same
  <2> HIDE DEF d
  <2>2. /\ calls' \in Seq(Call) /\ Len(calls') = Len(calls) /\ DOMAIN calls' = DOMAIN calls
        /\ \A j \in DOMAIN calls : j # i => calls'[j] = calls[j]
        /\ Same(calls'[i], calls[i]) /\ calls'[i].outcome = "" /\ Carried(calls'[i], d)
        /\ Legs(i)' = Elements(<<"fetch">>) \cup (Legs(i) \ {"mine"}) /\ LegsInv'
    <3>1. Detour("mine", <<"fetch">>)
      BY DEF Detour
    <3>2. Same(d, calls[i]) /\ d.outcome = "" /\ d.todo = calls[i].todo /\ d \in Call /\ Goes(i, d, <<"fetch">>)
      BY <1>8, <2>1
    <3>3. TypeOK /\ LegsInv /\ "mine" \in Leg \ {"report"} /\ At(i, "mine")
      BY <1>1, <1>2
    <3> QED
      BY ONLY <3>1, <3>2, <3>3, GoesOn
  <2>3. /\ Same(calls'[i], c) /\ calls'[i].outcome = "" /\ calls'[i].checked = c.checked
        /\ calls'[i].confirmed = c.confirmed /\ calls'[i].tx = c.tx /\ calls'[i].impl = c.impl
    BY <2>1, <2>2 DEF Same, Carried
  <2>4. impls' \in [Contracts -> Seq(DOMAIN txs)] /\ dropped' \subseteq DOMAIN txs
          /\ \A v \in Contracts : Elements(impls'[v]) \subseteq Elements(impls[v])
    BY <1>7, <1>8
  <2>5. ChainInv' /\ RecordInv'
    BY <1>1, <1>4, <2>2, <2>4, ChainKept, RecordKept DEF Mine
  <2>6. CallFacts(i)'
    BY <1>2, <1>4, <2>2, <2>3, StaysFacts, ElementsOfFew
  <2> QED
    BY <1>1, <1>2, <1>4, <1>8, <2>2, <2>4, <2>5, <2>6, GoesCore DEF Mine, TypeOK
<1>9. CASE /\ impls' = IF judged THEN [impls EXCEPT ![c.contract] = << >>] ELSE impls
           /\ dropped' = dropped \cup (IF judged THEN Elements(impls[c.contract]) \ {c.impl} ELSE {})
           /\ Refuse(i, {})
  <2>1. impls' \in [Contracts -> Seq(DOMAIN txs)] /\ dropped' \subseteq DOMAIN txs
          /\ \A v \in Contracts : Elements(impls'[v]) \subseteq Elements(impls[v])
    BY <1>7, <1>9
  <2>2. back \in [Contracts \cup Facades -> Address]
    BY <1>1 DEF TypeOK
  <2> QED
    BY <1>2, <1>9, <2>1, <2>2, RefuseCore DEF Mine, Refuse
<1> QED
  BY <1>5, <1>6, <1>8, <1>9 DEF Mine

\* A transaction of the operation itself goes out.
SendsAs(i, leg, tx, d) ==
  /\ txs' = Append(txs, tx) /\ Len(txs) < migration.txs /\ tx.by = i
  /\ tx.what \notin {"upgrade", "transfer"} => tx.at = 0
  /\ tx.what \in Upgradeable \cup {"upgrade"} => Is(tx.points, {"implementation"})
  /\ tx.what = "beacon-proxy" => Is(tx.points, {"beacon"})
  /\ tx.what = "upgrade" => Is(tx.at, Upgradeable)
  /\ tx.what = "transfer" => Is(tx.at, {"transparent"})
  /\ leg = "create" => tx.what = creation(calls[i])
  /\ leg = "send" => tx.what = sending(calls[i])
  /\ Same(d, calls[i]) /\ d.outcome = "" /\ d.todo = calls[i].todo /\ Goes(i, d, << >>)
  /\ d.impl = calls[i].impl /\ d.tx = Len(txs) + 1 /\ d.checked = calls[i].checked
  /\ d.confirmed = calls[i].confirmed
  /\ back' \in [Contracts \cup Facades -> Address]
  /\ UNCHANGED <<told, impls, proxies, saved, dropped, crashes, migration>>

\* What the call and the chain know then.
LEMMA SentCore ==
  ASSUME CoreInv, NEW i, NEW leg \in {"create", "send"}, At(i, leg), NEW tx \in Tx, NEW d \in Call,
         SendsAs(i, leg, tx, d)
  PROVE  CoreInv'
<1> DEFINE c == calls[i]
           new == Len(txs) + 1
<1>1. TypeOK /\ LegsInv /\ ChainInv /\ RecordInv /\ CallInv
  BY DEF CoreInv
<1>2. leg \in Leg \ {"report"} /\ leg # "check" /\ leg \notin FetchLegs
  BY DEF Leg, Rank, FetchLegs
<1>3. i \in DOMAIN calls /\ c \in Call /\ ~Settled(i)
  BY <1>1, <1>2, AtLeg
<1>4. Names(i) /\ Knows(i)
  BY <1>1, <1>3 DEF CallInv, CallFacts
<1>5. /\ calls' \in Seq(Call) /\ Len(calls') = Len(calls) /\ DOMAIN calls' = DOMAIN calls
      /\ \A j \in DOMAIN calls : j # i => calls'[j] = calls[j]
      /\ Legs(i)' = Legs(i) \ {leg}
      /\ Same(calls'[i], calls[i]) /\ calls'[i].outcome = ""
      /\ calls'[i].impl = c.impl /\ calls'[i].tx = new /\ calls'[i].checked = c.checked
      /\ calls'[i].confirmed = c.confirmed /\ LegsInv'
  <2>1. /\ Same(d, c) /\ d.outcome = "" /\ d.todo = c.todo /\ Goes(i, d, << >>)
        /\ d.impl = c.impl /\ d.tx = new /\ d.checked = c.checked /\ d.confirmed = c.confirmed
    BY DEF SendsAs
  <2> HIDE DEF new
  <2>2. /\ calls' \in Seq(Call) /\ Len(calls') = Len(calls) /\ DOMAIN calls' = DOMAIN calls
        /\ \A j \in DOMAIN calls : j # i => calls'[j] = calls[j]
        /\ Legs(i)' = Legs(i) \ {leg}
        /\ Same(calls'[i], calls[i]) /\ calls'[i].outcome = ""
        /\ calls'[i].impl = d.impl /\ calls'[i].tx = d.tx /\ calls'[i].checked = d.checked
        /\ calls'[i].confirmed = d.confirmed /\ LegsInv'
    <3>1. TypeOK /\ LegsInv /\ leg \in Leg \ {"report"} /\ At(i, leg)
      BY <1>1, <1>2
    <3>2. Same(d, calls[i]) /\ d.outcome = "" /\ d.todo = calls[i].todo /\ Goes(i, d, << >>)
      BY <2>1
    <3> HIDE DEF c
    <3>3. /\ calls' \in Seq(Call) /\ Len(calls') = Len(calls) /\ DOMAIN calls' = DOMAIN calls
          /\ \A j \in DOMAIN calls : j # i => calls'[j] = calls[j]
          /\ Legs(i)' = Legs(i) \ {leg}
          /\ Same(calls'[i], calls[i]) /\ calls'[i].outcome = ""
          /\ calls'[i].impl = d.impl /\ calls'[i].tx = d.tx /\ calls'[i].checked = d.checked
          /\ calls'[i].confirmed = d.confirmed /\ calls'[i].prior = d.prior
          /\ calls'[i].before = d.before /\ calls'[i].named = d.named /\ calls'[i].verdict = d.verdict
          /\ LegsInv'
      BY <3>1, <3>2, GoesOnPlain, Zenon
    <3> QED
      BY <3>3, Zenon
  <2> QED
    BY <2>1, <2>2
<1>6. /\ txs' \in Seq(Tx) /\ Len(txs') = new /\ Len(txs) \in Nat /\ new \notin DOMAIN txs /\ new # 0
      /\ DOMAIN txs' = DOMAIN txs \cup {new} /\ txs'[new] = tx /\ \A t \in DOMAIN txs : txs'[t] = txs[t]
      /\ TxsStable
  <2>1. txs' = Append(txs, tx)
    BY DEF SendsAs
  <2> QED
    BY <1>1, <2>1, Sent
<1>7. Len(txs') <= migration.txs
  <2>1. migration.txs \in Nat
    BY <1>1, OperationsAssumption DEF TypeOK, Migration
  <2>2. Len(txs) < migration.txs
    BY DEF SendsAs
  <2> QED
    BY <1>6, <2>1, <2>2
<1> HIDE DEF new
<1>8. RecordInv'
  BY <1>1, <1>6, RecordKept DEF SendsAs
<1>9. ChainInv'
  BY <1>1, <1>3, <1>5, ChainSent DEF SendsAs
<1>10. /\ impls' \in [Contracts -> Seq(DOMAIN txs')] /\ dropped' \subseteq DOMAIN txs'
       /\ DOMAIN proxies' \subseteq DOMAIN txs'
  <2>1. \A s \in Seq(DOMAIN txs) : s \in Seq(DOMAIN txs')
    BY <1>6, SeqMonotonic
  <2> QED
    BY <1>1, <1>6, <2>1 DEF TypeOK, SendsAs
<1>11. /\ calls'[i].name = c.name /\ calls'[i].target = c.target /\ calls'[i].contract = c.contract
       /\ calls'[i].kind = c.kind
  BY <1>5 DEF Same
<1>12. /\ "confirm" \in Legs(i) /\ ~c.confirmed
       /\ leg = "create" => c.name \in Creating /\ "verify" \notin Legs(i)
       /\ leg = "send" => c.name \notin Creating /\ "create" \notin Legs(i)
  <2>0. leg \in Legs(i)
    BY <1>1, <1>2, AtLeg
  <2>1. /\ "create" \in Legs(i) => c.name \in Creating
        /\ "send" \in Legs(i) => c.name \in Upgrading \cup {"transferProxyAdminOwnership"}
        /\ "verify" \in Legs(i) => c.name \in Upgrading \cup {"transferProxyAdminOwnership"}
        /\ c.name # "forceImport" => "confirm" \in Legs(i)
    BY <1>1, <1>2, Ahead
  <2>2. /\ Creating \cap (Upgrading \cup {"transferProxyAdminOwnership"}) = {}
        /\ "forceImport" \notin Creating \cup Upgrading \cup {"transferProxyAdminOwnership"}
    BY DEF Creating, Upgrading
  <2>3. c.name # "forceImport"
    BY <2>0, <2>1, <2>2
  <2> QED
    BY <1>4, <2>0, <2>1, <2>2, <2>3 DEF Knows
<1>13. Names(i)'
  BY <1>4, <1>5, <1>6, <1>11, <1>12 DEF Names
<1>14. Knows(i)'
  <2>1. /\ c.name \in Targeted /\ Is(c.target, targets(c.name)) => LiveAfter(c.target, targets(c.name))
        /\ Is(c.checked, {"implementation"}) => LiveAfter(c.checked, {"implementation"}) /\ txs'[c.checked].of = txs[c.checked].of
    BY <1>6, LiveStays
  <2>2. c.impl # 0 => c.impl \in DOMAIN txs
    BY <1>4 DEF Names
  <2>3. /\ "check" \notin Legs(i)' => "check" \notin Legs(i)
        /\ "fetch" \notin Legs(i)' => "fetch" \notin Legs(i)
        /\ Legs(i)' \cap FetchLegs = {} => Legs(i) \cap FetchLegs = {}
        /\ "confirm" \in Legs(i)' /\ ("verify" \in Legs(i)' => leg = "send")
    BY <1>2, <1>5, <1>12 DEF FetchLegs
  <2>4. creation(calls'[i]) = creation(c) /\ sending(calls'[i]) = sending(c) /\ targets(calls'[i].name) = targets(c.name)
    BY <1>11 DEF creation, sending, targets
  <2>5. /\ "create" \notin Legs(i)' /\ c.name \in Creating =>
             new # 0 /\ txs'[new].what = creation(c) /\ txs'[new].by = i
        /\ "send" \notin Legs(i)' /\ "verify" \in Legs(i)' =>
             new # 0 /\ txs'[new].what = sending(c) /\ txs'[new].by = i
    <3>1. leg = "create" => tx.what = creation(c)
      BY DEF SendsAs
    <3>2. leg = "send" => tx.what = sending(c)
      BY DEF SendsAs
    <3>3. tx.by = i
      BY DEF SendsAs
    <3> QED
      BY <1>6, <1>12, <2>3, <3>1, <3>2, <3>3
  <2>6. /\ "check" \notin Legs(i)' /\ c.name \in Targeted => LiveAfter(c.target, targets(c.name))
        /\ "check" \notin Legs(i)' /\ c.name = "forceImport" =>
             LiveAfter(c.checked, {"implementation"}) /\ txs'[c.checked].of = c.contract
        /\ "fetch" \notin Legs(i)' /\ c.name \in Fetching => c.impl # 0
        /\ "fetch" \notin Legs(i)' /\ c.name = "forceImport" => c.impl = c.checked
        /\ Legs(i)' \cap FetchLegs = {} /\ c.name \in Fetching =>
             c.impl # 0 /\ txs'[c.impl].status = "landed"
    BY <1>4, <1>6, <2>1, <2>2, <2>3 DEF Knows
  <2>7. /\ "check" \notin Legs(i)' /\ calls'[i].name \in Targeted => Is(calls[i].target, targets(calls[i].name))'
        /\ "check" \notin Legs(i)' /\ calls'[i].name = "forceImport" =>
             Is(calls[i].checked, {"implementation"})' /\ txs'[calls'[i].checked].of = calls'[i].contract
    BY <1>5, <1>11, <2>4, <2>6 DEF Is, Created, LiveAfter, targets
  <2>8. /\ "fetch" \notin Legs(i)' /\ calls'[i].name \in Fetching => calls'[i].impl # 0
        /\ "fetch" \notin Legs(i)' /\ calls'[i].name = "forceImport" => calls'[i].impl = calls'[i].checked
        /\ Legs(i)' \cap FetchLegs = {} /\ calls'[i].name \in Fetching =>
             calls'[i].impl # 0 /\ txs'[calls'[i].impl].status = "landed"
    BY <1>5, <1>11, <2>6
  <2>9. /\ "create" \notin Legs(i)' /\ calls'[i].name \in Creating =>
             calls'[i].tx # 0 /\ txs'[calls'[i].tx].what = creation(calls'[i]) /\ txs'[calls'[i].tx].by = i
        /\ "send" \notin Legs(i)' /\ "verify" \in Legs(i)' =>
             calls'[i].tx # 0 /\ txs'[calls'[i].tx].what = sending(calls'[i]) /\ txs'[calls'[i].tx].by = i
    BY <1>5, <1>11, <2>4, <2>5
  <2>10. "confirm" \in Legs(i)' /\ ~calls'[i].confirmed
    BY <1>5, <1>12, <2>3
  <2> QED
    BY <2>7, <2>8, <2>9, <2>10 DEF Knows, creation, sending
<1> QED
  BY <1>1, <1>2, <1>5, <1>6, <1>7, <1>8, <1>9, <1>10, <1>13, <1>14, GoesCore DEF CallFacts, TypeOK, SendsAs

\* The deploy of a proxy or a beacon.
LEMMA CreateCore == ASSUME CoreInv, NEW i, Create(i) PROVE CoreInv'
<1> DEFINE c == calls[i]
           tx == IF c.name = "deployBeaconProxy"
                 THEN NewTx("beacon-proxy", "-", c.target, 0, 0, i)
                 ELSE NewTx(IF c.name = "deployBeacon" THEN "beacon" ELSE c.kind, "-", c.impl, 0, 0, i)
           d == [c EXCEPT !.tx = Len(txs) + 1, !.priorFacade = back[Facade(c)]]
<1>1. TypeOK /\ LegsInv /\ ChainInv /\ RecordInv /\ CallInv
  BY DEF CoreInv
<1>2. At(i, "create") /\ "create" \in Leg
  BY DEF Create, Leg, Rank
<1>3. /\ i \in DOMAIN calls /\ c \in Call /\ ~Settled(i) /\ c.contract \in Contracts
      /\ c.outcome = "" /\ "create" \in Legs(i)
  BY <1>1, <1>2, AtLeg
<1>4. Names(i) /\ Knows(i)
  BY <1>1, <1>3 DEF CallInv, CallFacts
<1>5. c.name \in Creating /\ "check" \notin Legs(i) /\ Legs(i) \cap FetchLegs = {}
  BY <1>1, <1>2, <1>3, Ahead DEF FetchLegs
<1>6. CASE hostDeploy(tx, Facade(c)) /\ Goes(i, d, << >>) /\ told' = told
  <2>1. i \in Nat
    <3>1. i \in 1..Len(calls) /\ Len(calls) \in Nat
      BY <1>1, <1>3, Typed
    <3> QED
      BY <3>1
  <2>2. c.name = "deployBeaconProxy" => Is(c.target, {"beacon"}) /\ c.target \in Nat
    BY <1>3, <1>4, <1>5, CallFields DEF Knows, Targeted, targets
  <2>3. c.name # "deployBeaconProxy" => Is(c.impl, {"implementation"}) /\ c.impl \in Nat
    <3>1. c.name # "deployBeaconProxy" => c.name \in Fetching
      BY <1>3, <1>5, CallFields DEF Creating, Fetching
    <3> QED
      BY <1>3, <1>4, <1>5, <3>1, CallFields DEF Knows, Names, Is, Created
  <2>4. /\ tx \in Tx /\ tx.by = i /\ tx.what = creation(c) /\ tx.at = 0
        /\ tx.points = IF c.name = "deployBeaconProxy" THEN c.target ELSE c.impl
    <3>1. c.kind \in {"transparent", "uups"} /\ c.kind \in What /\ {"beacon-proxy", "beacon"} \subseteq What
      BY <1>3, CallFields DEF What
    <3>2. "-" \in Contracts \cup {"-"} /\ "sender" \in Owner /\ 0 \in Nat
      BY DEF Owner
    <3> QED
      BY <2>1, <2>2, <2>3, <3>1, <3>2 DEF NewTx, Tx, Address, creation
  <2> HIDE DEF tx
  <2>5. creation(c) \in ProxyWhats \cup {"beacon", "beacon-proxy"} /\ (creation(c) = "beacon-proxy" <=> c.name = "deployBeaconProxy")
    BY <1>3, CallFields DEF creation, ProxyWhats
  <2>6. /\ Len(txs) + 1 \in Nat /\ back[Facade(c)] \in Nat /\ Facade(c) \in Facades
        /\ back' \in [Contracts \cup Facades -> Address]
    <3>1. Len(txs) + 1 \in Nat
      BY <1>1, Typed
    <3>2. Facade(c) \in Facades
      BY DEF Facade, Facades
    <3>3. back' = [back EXCEPT ![Facade(c)] = Len(txs) + 1]
      BY <1>6 DEF hostDeploy
    <3> QED
      BY <1>1, <3>1, <3>2, <3>3 DEF TypeOK, Address
  <2>7. d \in Call /\ Same(d, c) /\ d.outcome = "" /\ d.todo = c.todo /\ d.impl = c.impl
          /\ d.tx = Len(txs) + 1 /\ d.checked = c.checked /\ d.confirmed = c.confirmed
    BY <1>3, <2>6 DEF Call, Same, Address
  <2> HIDE DEF d
  <2>8. SendsAs(i, "create", tx, d)
    <3>1. txs' = Append(txs, tx) /\ Len(txs) < migration.txs
      BY <1>6 DEF hostDeploy, tx
    <3>2. /\ tx.what \notin {"upgrade", "transfer"}
          /\ tx.what \in Upgradeable \cup {"upgrade"} => c.name # "deployBeaconProxy"
          /\ tx.what = "beacon-proxy" => c.name = "deployBeaconProxy"
      BY <2>4, <2>5 DEF Upgradeable, ProxyWhats
    <3>3. UNCHANGED <<told, impls, proxies, saved, dropped, crashes, migration>>
      BY <1>6 DEF Create
    <3>4. tx.what \in Upgradeable \cup {"upgrade"} => Is(tx.points, {"implementation"})
      <4>1. c.name # "deployBeaconProxy" => tx.points = c.impl
        BY <2>4
      <4> QED
        BY <2>3, <3>2, <4>1
    <3>5. tx.what = "beacon-proxy" => Is(tx.points, {"beacon"})
      <4>1. c.name = "deployBeaconProxy" => tx.points = c.target
        BY <2>4
      <4> QED
        BY <2>2, <3>2, <4>1
    <3>6. Goes(i, d, << >>)
      BY <1>6 DEF d
    <3>7. /\ tx.at = 0 /\ tx.by = i
          /\ tx.what = "upgrade" => Is(tx.at, Upgradeable)
          /\ tx.what = "transfer" => Is(tx.at, {"transparent"})
          /\ "create" = "create" => tx.what = creation(c)
          /\ "create" = "send" => tx.what = sending(c)
      BY <2>4, <3>2
    <3> QED
      BY <2>6, <2>7, <3>1, <3>3, <3>4, <3>5, <3>6, <3>7 DEF SendsAs
  <2> QED
    BY <1>2, <2>4, <2>7, <2>8, SentCore
<1>7. CASE Refuse(i, {}) /\ UNCHANGED txs
  BY <1>2, <1>7, RefuseOnly DEF Create, Refuse
<1> QED
  BY <1>6, <1>7 DEF Create

\* The call that upgrades, or transfers the admin.
LEMMA SendCore == ASSUME CoreInv, NEW i, Send(i) PROVE CoreInv'
<1> DEFINE c == calls[i]
           tx == [NewTx(sending(c), "-", c.impl, c.target, c.checked, i) EXCEPT !.owner = c.newOwner]
           d == [c EXCEPT !.tx = Len(txs) + 1]
<1>1. TypeOK /\ LegsInv /\ ChainInv /\ RecordInv /\ CallInv
  BY DEF CoreInv
<1>2. At(i, "send") /\ "send" \in Leg
  BY DEF Send, Leg, Rank
<1>3. /\ i \in DOMAIN calls /\ c \in Call /\ ~Settled(i) /\ c.contract \in Contracts
      /\ c.outcome = "" /\ "send" \in Legs(i)
  BY <1>1, <1>2, AtLeg
<1>4. Names(i) /\ Knows(i)
  BY <1>1, <1>3 DEF CallInv, CallFacts
<1>5. c.name \in Upgrading \cup {"transferProxyAdminOwnership"} /\ "check" \notin Legs(i) /\ Legs(i) \cap FetchLegs = {}
  BY <1>1, <1>2, <1>3, Ahead DEF FetchLegs
<1>6. CASE /\ Len(txs) < migration.txs /\ txs' = Append(txs, tx) /\ Goes(i, d, << >>)
           /\ UNCHANGED <<back, told>>
  <2>1. i \in Nat
    <3>1. i \in 1..Len(calls) /\ Len(calls) \in Nat
      BY <1>1, <1>3, Typed
    <3> QED
      BY <3>1
  <2>2. /\ tx \in Tx /\ tx.by = i /\ tx.what = sending(c) /\ tx.at = c.target /\ tx.points = c.impl
        /\ sending(c) \in {"upgrade", "transfer"}
    <3>1. c.impl \in Nat /\ c.target \in Nat /\ c.checked \in Nat /\ c.newOwner \in Owner
      BY <1>3, CallFields
    <3>2. sending(c) \in What /\ sending(c) \in {"upgrade", "transfer"}
      BY DEF What, sending
    <3>3. "-" \in Contracts \cup {"-"} /\ "sender" \in Owner /\ 0 \in Nat
      BY DEF Owner
    <3> QED
      BY <2>1, <3>1, <3>2, <3>3 DEF NewTx, Tx, Address
  <2>3. tx.what \in Upgradeable \cup {"upgrade"} => Is(tx.points, {"implementation"})
    <3>1. tx.what \in Upgradeable \cup {"upgrade"} => c.name \in Upgrading
      BY <1>5, <2>2 DEF sending, Upgradeable, ProxyWhats
    <3>2. c.name \in Upgrading => c.name \in Fetching
      BY <1>3, CallFields DEF Upgrading, Fetching
    <3>3. c.name \in Upgrading => Is(c.impl, {"implementation"})
      BY <1>4, <1>5, <3>2 DEF Knows, Names, Is, Created
    <3> QED
      BY <2>2, <3>1, <3>3
  <2>4. Is(c.target, targets(c.name))
    BY <1>4, <1>5 DEF Knows, Upgrading, Targeted
  <2>5. tx.what = "upgrade" => Is(tx.at, Upgradeable)
    <3>1. tx.what = "upgrade" => c.name \in Upgrading
      BY <1>5, <2>2 DEF sending
    <3>2. c.name \in Upgrading => targets(c.name) \subseteq Upgradeable
      BY DEF Upgrading, targets, Upgradeable
    <3> QED
      BY <2>2, <2>4, <3>1, <3>2 DEF Is
  <2>6. tx.what = "transfer" => Is(tx.at, {"transparent"})
    <3>1. tx.what = "transfer" => c.name = "transferProxyAdminOwnership"
      BY <1>5, <2>2 DEF sending
    <3>2. c.name = "transferProxyAdminOwnership" => targets(c.name) = {"transparent"}
      BY DEF targets
    <3> QED
      BY <2>2, <2>4, <3>1, <3>2
  <2>7. txs' = Append(txs, tx) /\ Goes(i, d, << >>)
    BY <1>6
  <2> HIDE DEF tx
  <2>8. d \in Call /\ Same(d, c) /\ d.outcome = "" /\ d.todo = c.todo /\ d.impl = c.impl
          /\ d.tx = Len(txs) + 1 /\ d.checked = c.checked /\ d.confirmed = c.confirmed
    <3>1. Len(txs) + 1 \in Nat
      BY <1>1, Typed
    <3> QED
      BY <1>3, <3>1 DEF Call, Same, Address
  <2> HIDE DEF d
  <2>9. SendsAs(i, "send", tx, d)
    <3>1. /\ tx.what \notin {"upgrade", "transfer"} => tx.at = 0
          /\ tx.what = "beacon-proxy" => Is(tx.points, {"beacon"})
          /\ "send" = "create" => tx.what = creation(c)
          /\ "send" = "send" => tx.what = sending(c)
      BY <2>2
    <3>2. back' \in [Contracts \cup Facades -> Address]
      BY <1>1, <1>6 DEF TypeOK
    <3>3. UNCHANGED <<told, impls, proxies, saved, dropped, crashes, migration>>
      BY <1>6 DEF Send
    <3> QED
      BY <1>6, <2>2, <2>3, <2>5, <2>6, <2>7, <2>8, <3>1, <3>2, <3>3 DEF SendsAs
  <2> QED
    BY <1>2, <2>2, <2>8, <2>9, SentCore
<1>7. CASE Refuse(i, {}) /\ UNCHANGED txs
  BY <1>2, <1>7, RefuseOnly DEF Send, Refuse
<1> QED
  BY <1>6, <1>7 DEF Send, sending

\* A leg that sends nothing and leaves the implementations alone.
GoesAs(i, leg, d) ==
  /\ Same(d, calls[i]) /\ d.outcome = "" /\ d.todo = calls[i].todo /\ Goes(i, d, << >>)
  /\ d.impl = calls[i].impl /\ d.tx = calls[i].tx /\ d.checked = calls[i].checked
  /\ d.confirmed # calls[i].confirmed =>
       leg = "confirm" /\ calls[i].tx # 0 /\ txs[calls[i].tx].status = "landed"
  /\ leg = "confirm" /\ calls[i].name \in Creating => txs[calls[i].tx].status = "landed"
  /\ UNCHANGED <<txs, impls, saved, told, dropped, crashes, migration>>
  /\ back' \in [Contracts \cup Facades -> Address] /\ DOMAIN proxies' \subseteq DOMAIN txs
  /\ \A p \in DOMAIN proxies' : proxies'[p] \in {"transparent", "uups", "beacon"}

\* What the call knows then.
LEMMA PlainCore ==
  ASSUME CoreInv, NEW i, NEW leg \in {"confirm", "verify", "record", "writeBack"}, At(i, leg),
         NEW d \in Call, GoesAs(i, leg, d), RecordInv'
  PROVE  CoreInv'
<1>1. TypeOK /\ LegsInv /\ ChainInv
  BY DEF CoreInv
<1>2. leg \in Leg \ {"report", "check", "fetch", "create", "send"} /\ leg # "mine"
  BY DEF Leg, Rank
<1>3. /\ calls' \in Seq(Call) /\ Len(calls') = Len(calls) /\ DOMAIN calls' = DOMAIN calls
      /\ \A j \in DOMAIN calls : j # i => calls'[j] = calls[j]
      /\ Legs(i)' = Legs(i) \ {leg}
      /\ Same(calls'[i], calls[i]) /\ calls'[i].outcome = ""
      /\ calls'[i].impl = d.impl /\ calls'[i].tx = d.tx /\ calls'[i].checked = d.checked
      /\ calls'[i].confirmed = d.confirmed /\ calls'[i].prior = d.prior
      /\ calls'[i].before = d.before /\ calls'[i].named = d.named /\ calls'[i].verdict = d.verdict
      /\ LegsInv'
  <2>1. TypeOK /\ LegsInv /\ leg \in Leg \ {"report"} /\ At(i, leg)
    BY <1>1, <1>2
  <2>2. Same(d, calls[i]) /\ d.outcome = "" /\ d.todo = calls[i].todo /\ Goes(i, d, << >>)
    BY DEF GoesAs
  <2> QED
    BY <2>1, <2>2, GoesOnPlain, ZenonT(60)
<1>4. TxsStable /\ ChainInv'
  BY <1>1, <1>3, TxsUnchanged, ChainKept DEF GoesAs
<1>5. CallFacts(i)'
  <2>1. /\ calls'[i].impl = calls[i].impl /\ calls'[i].tx = calls[i].tx /\ calls'[i].checked = calls[i].checked
        /\ calls'[i].confirmed # calls[i].confirmed =>
             leg = "confirm" /\ calls[i].tx # 0 /\ txs[calls[i].tx].status = "landed"
        /\ Legs(i)' = {} \cup (Legs(i) \ {leg})
        /\ leg = "confirm" /\ calls[i].name \in Creating => txs[calls[i].tx].status = "landed"
    BY <1>3 DEF GoesAs
  <2> QED
    BY <1>2, <1>3, <1>4, <2>1, StaysFacts
<1>6. /\ txs' \in Seq(Tx) /\ Len(txs') <= migration.txs /\ impls' \in [Contracts -> Seq(DOMAIN txs')]
      /\ dropped' \subseteq DOMAIN txs' /\ DOMAIN proxies' \subseteq DOMAIN txs'
  BY <1>1 DEF GoesAs, TypeOK
<1> QED
  BY <1>2, <1>3, <1>4, <1>5, <1>6, GoesCore DEF GoesAs

\* The verdict on the transaction.
LEMMA ConfirmCore == ASSUME CoreInv, NEW i, Confirm(i) PROVE CoreInv'
<1> DEFINE c == calls[i]
           d == [c EXCEPT !.confirmed = TRUE]
<1>1. TypeOK /\ LegsInv /\ ChainInv /\ RecordInv /\ CallInv
  BY DEF CoreInv
<1>2. At(i, "confirm") /\ "confirm" \in Leg
  BY DEF Confirm, Leg, Rank
<1>3. i \in DOMAIN calls /\ c \in Call /\ ~Settled(i) /\ c.contract \in Contracts /\ c.outcome = ""
  BY <1>1, <1>2, AtLeg
<1>4. Names(i) /\ Knows(i)
  BY <1>1, <1>3 DEF CallInv, CallFacts
<1>5. c.name \in Creating => c.tx # 0
  <2>1. "create" \notin Legs(i)
    BY <1>1, <1>2, Ahead
  <2> QED
    BY <1>4, <2>1 DEF Knows
<1>6. /\ back \in [Contracts \cup Facades -> Address] /\ DOMAIN proxies \subseteq DOMAIN txs
      /\ \A p \in DOMAIN proxies : proxies[p] \in {"transparent", "uups", "beacon"}
  BY <1>1 DEF TypeOK
<1>7. UNCHANGED <<txs, impls, proxies, saved, dropped, crashes, migration>>
  BY DEF Confirm
<1>8. RecordInv'
  BY <1>1, <1>7, TxsUnchanged, RecordKept
<1>9. CASE c.tx = 0 /\ Goes(i, c, << >>) /\ UNCHANGED <<back, told>>
  <2>1. Same(c, c) /\ c.name \notin Creating
    BY <1>5, <1>9 DEF Same
  <2> QED
    BY <1>2, <1>3, <1>6, <1>7, <1>8, <1>9, <2>1, PlainCore DEF GoesAs
<1>10. CASE c.tx # 0 /\ txs[c.tx].status = "landed" /\ Goes(i, d, << >>) /\ UNCHANGED <<back, told>>
  <2>1. d \in Call /\ Same(d, c) /\ d.outcome = "" /\ d.todo = c.todo /\ d.impl = c.impl /\ d.tx = c.tx
          /\ d.checked = c.checked
    BY <1>3 DEF Call, Same
  <2> HIDE DEF d
  <2> QED
    BY <1>2, <1>3, <1>6, <1>7, <1>8, <1>10, <2>1, PlainCore DEF GoesAs
<1>11. CASE RefuseAs("refused", i, {}, undone(c))
  <2>1. undone(c) \in [Contracts \cup Facades -> Address]
    <3>1. c.priorFacade \in Address /\ c.prior \in Address
      BY <1>3, CallFields DEF Address
    <3> QED
      BY <1>6, <3>1 DEF undone
  <2>2. impls' \in [Contracts -> Seq(DOMAIN txs)] /\ dropped' \subseteq DOMAIN txs
          /\ \A v \in Contracts : Elements(impls'[v]) \subseteq Elements(impls[v])
    BY <1>1, <1>7 DEF TypeOK
  <2> QED
    BY <1>2, <1>7, <1>11, <2>1, <2>2, RefuseCore
<1>12. CASE Refuse(i, {c.tx})
  <2>1. {c.tx} \subseteq 0..Len(txs)
    BY <1>3, NamedAreKnown
  <2> QED
    BY <1>2, <1>7, <1>12, <2>1, RefuseOnly DEF Refuse
<1> QED
  BY <1>9, <1>10, <1>11, <1>12 DEF Confirm

\* The chain is read again.
LEMMA VerifyCore == ASSUME CoreInv, NEW i, Verify(i) PROVE CoreInv'
<1> DEFINE c == calls[i]
<1>1. TypeOK /\ LegsInv /\ RecordInv
  BY DEF CoreInv
<1>2. At(i, "verify") /\ "verify" \in Leg
  BY DEF Verify, Leg, Rank
<1>3. i \in DOMAIN calls /\ c \in Call /\ c.outcome = ""
  BY <1>1, <1>2, AtLeg
<1>4. /\ back \in [Contracts \cup Facades -> Address] /\ DOMAIN proxies \subseteq DOMAIN txs
      /\ \A p \in DOMAIN proxies : proxies[p] \in {"transparent", "uups", "beacon"}
  BY <1>1 DEF TypeOK
<1>5. UNCHANGED <<txs, impls, proxies, saved, dropped, crashes, migration>>
  BY DEF Verify
<1>6. RecordInv'
  BY <1>1, <1>5, TxsUnchanged, RecordKept
<1>7. CASE Goes(i, c, << >>) /\ UNCHANGED <<back, told>>
  <2>1. Same(c, c)
    BY DEF Same
  <2> QED
    BY <1>2, <1>3, <1>4, <1>5, <1>6, <1>7, <2>1, PlainCore DEF GoesAs
<1>8. CASE Refuse(i, {c.tx}) \/ Refuse(i, {})
  <2>1. {c.tx} \subseteq 0..Len(txs)
    BY <1>3, NamedAreKnown
  <2> QED
    BY <1>2, <1>5, <1>8, <2>1, RefuseOnly DEF Refuse
<1> QED
  BY <1>7, <1>8 DEF Verify

\* The proxy is written into the record.
LEMMA RecordCore == ASSUME CoreInv, NEW i, Record(i) PROVE CoreInv'
<1> DEFINE c == calls[i]
           p == subject(c)
<1>1. TypeOK /\ LegsInv /\ RecordInv /\ CallInv
  BY DEF CoreInv
<1>2. At(i, "record") /\ "record" \in Leg
  BY DEF Record, Leg, Rank
<1>3. i \in DOMAIN calls /\ c \in Call /\ c.outcome = "" /\ ~Settled(i)
  BY <1>1, <1>2, AtLeg
<1>4. /\ back \in [Contracts \cup Facades -> Address] /\ DOMAIN proxies \subseteq DOMAIN txs
      /\ \A q \in DOMAIN proxies : proxies[q] \in {"transparent", "uups", "beacon"}
  BY <1>1 DEF TypeOK
<1>5. UNCHANGED <<txs, impls, saved, dropped, crashes, migration>>
  BY DEF Record
<1>6. Names(i) /\ Knows(i)
  BY <1>1, <1>3 DEF CallInv, CallFacts
<1>7. /\ c.name \in {"deployProxy", "upgradeProxy", "deployBeaconProxy", "forceImport"}
      /\ "check" \notin Legs(i) /\ "create" \notin Legs(i) /\ "confirm" \notin Legs(i)
  <2>1. "record" \in Legs(i)
    BY <1>1, <1>2, AtLeg
  <2> QED
    BY <1>1, <1>2, <2>1, Ahead
<1>8. Same(c, c)
  BY DEF Same
<1>9. CASE Goes(i, c, << >>) /\ UNCHANGED <<proxies, back, told>>
  <2>1. RecordInv'
    BY <1>1, <1>5, <1>9, TxsUnchanged, RecordKept
  <2> QED
    BY <1>2, <1>3, <1>4, <1>5, <1>8, <1>9, <2>1, PlainCore DEF GoesAs
<1>10. CASE /\ records(c)
            /\ proxies' = [q \in DOMAIN proxies \cup {p} |->
                             IF q = p THEN RecordedKind(txs[p].what) ELSE proxies[q]]
            /\ Goes(i, c, << >>) /\ UNCHANGED <<back, told>>
  <2>1. Is(p, ProxyWhats \cup {"beacon-proxy"})
    <3>1. CASE c.name \in {"deployProxy", "deployBeaconProxy"}
      <4>1. p = c.tx /\ c.name \in Creating
        BY <3>1 DEF subject, Creating
      <4>2. c.tx # 0 /\ txs[c.tx].what = creation(c) /\ txs[c.tx].status = "landed"
        BY <1>6, <1>7, <4>1 DEF Knows
      <4>3. c.tx \in DOMAIN txs
        BY <1>6, <4>2 DEF Names
      <4>4. creation(c) \in ProxyWhats \cup {"beacon-proxy"}
        BY <1>3, <3>1, CallFields DEF creation, ProxyWhats
      <4>5. creation(c) \notin {"upgrade", "transfer"}
        BY <4>4 DEF ProxyWhats
      <4> HIDE DEF p
      <4> QED
        BY <4>1, <4>2, <4>3, <4>4, <4>5 DEF Is, Created
    <3>2. CASE c.name \in {"upgradeProxy", "forceImport"}
      <4>1. p = c.target /\ c.name \in Targeted
        BY <3>2 DEF subject, Targeted
      <4>2. Is(c.target, targets(c.name))
        BY <1>6, <1>7, <4>1 DEF Knows
      <4>3. c.name = "upgradeProxy" => targets(c.name) = ProxyWhats
        BY DEF targets
      <4>4. c.name = "forceImport" => txs[c.target].what \in ProxyWhats
        BY <1>10 DEF records
      <4> HIDE DEF p
      <4> QED
        BY <3>2, <4>1, <4>2, <4>3, <4>4 DEF Is
    <3> QED
      BY <1>7, <3>1, <3>2
  <2>2. p \in DOMAIN txs /\ RecordedKind(txs[p].what) \in {"transparent", "uups", "beacon"}
    BY <2>1 DEF Is, Created, RecordedKind, ProxyWhats
  <2> HIDE DEF p
  <2>3. /\ DOMAIN proxies' \subseteq DOMAIN txs
        /\ \A q \in DOMAIN proxies' : proxies'[q] \in {"transparent", "uups", "beacon"}
    BY <1>4, <1>10, <2>2
  <2>4. RecordInv'
    <3>1. \A q \in DOMAIN proxies' : Created(q) /\ proxies'[q] = RecordedKind(txs[q].what)
      BY <1>1, <1>10, <2>1 DEF RecordInv, Is
    <3> QED
      BY <1>1, <1>5, <3>1 DEF RecordInv, Created, Implementation, RecordedKind
  <2> QED
    BY <1>2, <1>3, <1>4, <1>5, <1>8, <1>10, <2>3, <2>4, PlainCore DEF GoesAs
<1>11. CASE (Refuse(i, {c.tx, p}) \/ Refuse(i, {})) /\ UNCHANGED proxies
  <2>1. {c.tx, p} \subseteq 0..Len(txs)
    BY <1>3, <1>7, NamedAreKnown
  <2> QED
    BY <1>2, <1>5, <1>11, <2>1, RefuseOnly DEF Refuse
<1> QED
  BY <1>9, <1>10, <1>11 DEF Record

\* deployProxy's last assignment.
LEMMA WriteBackCore == ASSUME CoreInv, NEW i, WriteBack(i) PROVE CoreInv'
<1> DEFINE c == calls[i]
<1>1. TypeOK /\ LegsInv /\ RecordInv
  BY DEF CoreInv
<1>2. At(i, "writeBack") /\ "writeBack" \in Leg
  BY DEF WriteBack, Leg, Rank
<1>3. i \in DOMAIN calls /\ c \in Call /\ c.outcome = "" /\ c.tx \in Address /\ c.contract \in Contracts
  BY <1>1, <1>2, AtLeg, CallFields DEF Address
<1>4. /\ back \in [Contracts \cup Facades -> Address] /\ DOMAIN proxies \subseteq DOMAIN txs
      /\ \A q \in DOMAIN proxies : proxies[q] \in {"transparent", "uups", "beacon"}
  BY <1>1 DEF TypeOK
<1>5. UNCHANGED <<txs, impls, proxies, saved, told, dropped, crashes, migration>> /\ Goes(i, c, << >>)
        /\ back' = [back EXCEPT ![c.contract] = c.tx]
  BY DEF WriteBack
<1>6. RecordInv'
  BY <1>1, <1>5, TxsUnchanged, RecordKept
<1>7. GoesAs(i, "writeBack", c)
  BY <1>3, <1>4, <1>5 DEF GoesAs, Same
<1> QED
  BY <1>2, <1>3, <1>6, <1>7, PlainCore

\* The result, or the attach that fails.
LEMMA ReportCore == ASSUME CoreInv, NEW i, Report(i) PROVE CoreInv'
<1> DEFINE c == calls[i]
<1>1. TypeOK /\ LegsInv /\ ChainInv /\ RecordInv /\ CallInv
  BY DEF CoreInv
<1>2. At(i, "report") /\ "report" \in Leg
  BY DEF Report, Leg, Rank
<1>3. i \in DOMAIN calls /\ c \in Call /\ ~Settled(i) /\ turn(i)
  BY <1>1, <1>2, AtLeg DEF At
<1>4. UNCHANGED <<txs, impls, proxies, saved, dropped, crashes, migration>>
  BY DEF Report
<1>5. CASE /\ calls' = [calls EXCEPT ![i].todo = << >>, ![i].outcome = "ok"]
           /\ told' = told \cup ({c.tx, c.impl} \ {0}) /\ UNCHANGED back
  <2>1. /\ calls' \in Seq(Call) /\ Len(calls') = Len(calls) /\ DOMAIN calls' = DOMAIN calls
        /\ \A j \in DOMAIN calls : j # i => calls'[j] = calls[j]
        /\ calls'[i] = [c EXCEPT !.todo = << >>, !.outcome = "ok"] /\ Settled(i)' /\ LegsInv'
    BY <1>1, <1>3, <1>5, Ends
  <2>2. TxsStable /\ ChainInv' /\ RecordInv'
    BY <1>1, <1>4, <2>1, TxsUnchanged, ChainKept, RecordKept
  <2>3. TypeOK'
    <3>1. c.tx \in 0..Len(txs) /\ c.impl \in 0..Len(txs)
      BY <1>3, NamedAreKnown
    <3> QED
      BY <1>1, <1>4, <1>5, <2>1, <3>1 DEF TypeOK
  <2>4. CallFacts(i)'
    <3>1. Names(i)
      BY <1>1, <1>3 DEF CallInv, CallFacts
    <3>2. /\ calls'[i].name = c.name /\ calls'[i].target = c.target
          /\ calls'[i].impl = c.impl /\ calls'[i].tx = c.tx
          /\ calls'[i].contract = c.contract /\ calls'[i].confirmed = c.confirmed
      BY <1>3, <2>1 DEF Call
    <3> QED
      BY <1>4, <2>1, <3>1, <3>2 DEF CallFacts, Names
  <2> QED
    BY <1>3, <2>1, <2>2, <2>3, <2>4, OthersKept DEF CoreInv
<1>6. CASE Refuse(i, {})
  BY <1>2, <1>4, <1>6, RefuseOnly DEF Refuse
<1> QED
  BY <1>5, <1>6 DEF Report

\* Every leg.
LEMMA StepCore == ASSUME CoreInv, NEW i, Step(i) PROVE CoreInv'
BY OpenCore, CheckCore, FetchCore, StoreCore, MineCore, CreateCore, SendCore, ConfirmCore, VerifyCore,
   RecordCore, WriteBackCore, ReportCore DEF Step

\* A migration calls an operation.
LEMMA CallCore ==
  ASSUME CoreInv, NEW name \in migration.operations, NEW c \in migration.contracts,
         NEW kind \in migration.kinds, NEW redeploy \in migration.redeploys,
         NEW a \in {0} \cup DOMAIN txs, NEW o \in Owner, name \in Targeted => a # 0,
         CallOperation(name, c, kind, redeploy, a, o)
  PROVE  CoreInv'
<1> DEFINE todo == <<"open">> \o Pipeline[name]
           d == [name |-> name, contract |-> c, kind |-> kind, redeploy |-> redeploy, target |-> a,
                 newOwner |-> o, todo |-> todo, outcome |-> "", named |-> 0, verdict |-> "none", prior |-> 0,
                 priorFacade |-> 0, impl |-> 0, tx |-> 0, checked |-> 0, retried |-> FALSE,
                 confirmed |-> FALSE, before |-> 0]
<1>1. TypeOK /\ LegsInv /\ ChainInv /\ RecordInv /\ CallInv
  BY DEF CoreInv
<1>0. PICK new \in Nat : new = Len(calls) + 1
  BY <1>1, Typed
<1>2. /\ name \in Operation /\ c \in Contracts /\ kind \in {"transparent", "uups"}
      /\ redeploy \in {"onchange", "always", "never"} /\ migration.calls \in Nat
  BY <1>1, OperationsAssumption DEF TypeOK, Migration
<1>3. LegsAhead(name, todo) /\ Elements(todo) = {"open"} \cup Elements(Pipeline[name])
  BY <1>2, CallBegins
<1>4. a \in Nat
  BY <1>1, Typed
<1>5. /\ calls' = Append(calls, d) /\ Len(calls) < migration.calls
      /\ UNCHANGED <<txs, impls, proxies, back, saved, told, dropped, crashes, migration>>
  BY DEF CallOperation
<1> HIDE DEF todo
<1>6. /\ d \in Call /\ d.name = name /\ d.contract = c /\ d.target = a /\ d.todo = todo /\ d.outcome = ""
      /\ d.impl = 0 /\ d.tx = 0 /\ d.confirmed = FALSE
  <2>1. todo \in Seq(QueuedLegs \cup {"open", "check", "writeBack", "report"})
    <3>1. Leg = QueuedLegs \cup {"open", "check", "writeBack", "report"}
      BY DEF Leg, Rank, QueuedLegs
    <3> QED
      BY <1>3, <3>1 DEF LegsAhead
  <2> QED
    BY <1>2, <1>4, <2>1 DEF Call, Address
<1> HIDE DEF d
<1>7. /\ calls' \in Seq(Call) /\ Len(calls') = new /\ calls'[new] = d /\ Len(calls) \in Nat
      /\ DOMAIN calls' = DOMAIN calls \cup {new} /\ new \notin DOMAIN calls
      /\ \A j \in DOMAIN calls : calls'[j] = calls[j]
  <2>1. calls \in Seq(Call) /\ DOMAIN calls = 1..Len(calls) /\ Len(calls) \in Nat
    BY <1>1, Typed DEF TypeOK
  <2>2. /\ calls' \in Seq(Call) /\ Len(calls') = new /\ calls'[new] = d
        /\ \A j \in 1..Len(calls) : calls'[j] = calls[j]
    <3>1. calls' = Append(calls, d) /\ d \in Call
      BY <1>5, <1>6
    <3> QED
      BY <1>0, <2>1, <3>1, AppendProperties
  <2>3. DOMAIN calls' = 1..new
    BY <2>2, LenProperties
  <2>4. 1..new = (1..Len(calls)) \cup {new} /\ new \notin 1..Len(calls)
    BY <1>0, <2>1
  <2> QED
    BY <2>1, <2>2, <2>3, <2>4
<1>8. TypeOK'
  <2>1. Len(calls') <= migration.calls
    BY <1>0, <1>2, <1>5, <1>7
  <2> QED
    BY <1>1, <1>5, <1>7, <2>1 DEF TypeOK
<1>9. LegsInv'
  <2> SUFFICES ASSUME NEW j \in DOMAIN calls', ~Settled(j)'
               PROVE  LegsAhead(calls'[j].name, calls'[j].todo) /\ ("open" \notin Legs(j)' => turn(j)')
    BY DEF LegsInv
  <2>1. CASE j = new
    BY <1>3, <1>6, <1>7, <2>1 DEF Legs
  <2>2. CASE j \in DOMAIN calls
    <3>1. calls'[j] = calls[j] /\ ~Settled(j) /\ Legs(j)' = Legs(j)
      BY <1>7, <2>2 DEF Settled, Legs
    <3>2. ASSUME turn(j) PROVE turn(j)'
      <4>1. j \in 1..Len(calls) /\ Len(calls) \in Nat /\ DOMAIN calls = 1..Len(calls)
        BY <1>1, <2>2, Typed
      <4>2. \A k \in 1..j-1 : k \in DOMAIN calls
        BY <4>1, EarlierCalls
      <4> QED
        BY <1>7, <3>2, <4>2 DEF turn, Settled
    <3> QED
      BY <1>1, <2>2, <3>1, <3>2 DEF LegsInv
  <2> QED
    BY <1>7, <2>1, <2>2
<1>10. TxsStable /\ ChainInv' /\ RecordInv'
  BY <1>1, <1>5, <1>7, TxsUnchanged, ChainKept, RecordKept
<1>11. CallFacts(new)'
  <2>1. Names(new)'
    BY <1>5, <1>6, <1>7 DEF Names
  <2>2. Knows(new)'
    BY <1>2, <1>3, <1>6, <1>7, NothingYet
  <2> QED
    BY <2>1, <2>2 DEF CallFacts
<1>12. \A j \in DOMAIN calls : CallFacts(j)'
  BY <1>1, <1>7, <1>10, CallKept DEF CallInv
<1> QED
  BY <1>7, <1>8, <1>9, <1>10, <1>11, <1>12 DEF CoreInv, CallInv

\* A verdict is written on the chain: a slot holds an implementation before and after.
LEMMA ChainMoves ==
  ASSUME CoreInv, TxsStable, txs' \in Seq(Tx), Len(txs') = Len(txs), DOMAIN txs' = DOMAIN txs,
         \A u \in DOMAIN txs : \/ txs'[u].points = txs[u].points
                               \/ txs[u].what \in Upgradeable /\ Is(txs'[u].points, {"implementation"}),
         UNCHANGED <<impls, proxies, back, saved, calls, told, dropped, crashes, migration>>
  PROVE  CoreInv'
<1>1. TypeOK /\ LegsInv /\ ChainInv /\ RecordInv /\ CallInv
  BY DEF CoreInv
<1>2. TypeOK'
  BY <1>1 DEF TypeOK
<1>3. LegsInv'
  BY <1>1 DEF LegsInv, Settled, Legs, turn
<1>4. RecordInv'
  BY <1>1, RecordKept
<1>5. CallInv'
  BY <1>1, CallKept DEF CallInv
<1>6. ChainInv'
  <2> SUFFICES ASSUME NEW u \in DOMAIN txs
               PROVE  /\ txs'[u].what \notin {"upgrade", "transfer"} => txs'[u].at = 0
                      /\ txs'[u].what \in Upgradeable \cup {"upgrade"} => LiveAfter(txs'[u].points, {"implementation"})
                      /\ txs'[u].what = "beacon-proxy" => LiveAfter(txs'[u].points, {"beacon"})
                      /\ txs'[u].what = "upgrade" => LiveAfter(txs'[u].at, Upgradeable)
                      /\ txs'[u].what = "transfer" => LiveAfter(txs'[u].at, {"transparent"})
                      /\ txs'[u].by \in {0} \cup DOMAIN calls
    BY DEF ChainInv, Is, Created, LiveAfter
  <2>1. txs'[u].what = txs[u].what /\ txs'[u].at = txs[u].at /\ txs'[u].by = txs[u].by
    BY DEF TxsStable
  <2>2. \A x, w : Is(x, w) => LiveAfter(x, w)
    BY LiveStays
  <2>3. txs[u].what = "beacon-proxy" => txs'[u].points = txs[u].points
    BY DEF Upgradeable, ProxyWhats
  <2> QED
    BY <1>1, <2>1, <2>2, <2>3 DEF ChainInv
<1> QED
  BY <1>2, <1>3, <1>4, <1>5, <1>6 DEF CoreInv

\* One transaction, before and after a verdict on it or on one that goes to it.
StillThat(after, before) ==
  /\ after.what = before.what /\ after.of = before.of /\ after.by = before.by
  /\ after.at = before.at /\ after.checked = before.checked
  /\ before.status # "pending" => after.status = before.status

\* A transaction executes.
LEMMA LandCore == ASSUME CoreInv, NEW t \in DOMAIN txs, Land(t) PROVE CoreInv'
<1> DEFINE a == txs[t].at
           done == [txs[t] EXCEPT !.status = "landed"]
           placed == [txs[t] EXCEPT !.status = "landed", !.replaced = txs[a].points]
           moved == [txs[a] EXCEPT !.points = txs[t].points]
           given == [txs[a] EXCEPT !.owner = txs[t].owner]
<1>1. TypeOK /\ ChainInv /\ txs \in Seq(Tx) /\ txs[t] \in Tx
  BY Typed DEF CoreInv, TypeOK
<1>2. txs \in [DOMAIN txs -> Tx] /\ Len(txs) \in Nat /\ Len(txs) <= Len(txs)
  BY <1>1, Typed, LenProperties
<1>3. UNCHANGED <<impls, proxies, back, saved, calls, told, dropped, crashes, migration>> /\ txs[t].status = "pending"
  BY DEF Land
<1>4. CASE txs[t].what = "upgrade"
  <2>1. Is(a, Upgradeable) /\ Is(txs[t].points, {"implementation"}) /\ a \in DOMAIN txs /\ a # t /\ txs[a] \in Tx
    BY <1>1, <1>4, Typed DEF ChainInv, Is, Created, Upgradeable, ProxyWhats
  <2>2. txs' = [[txs EXCEPT ![t] = placed] EXCEPT ![a] = moved]
    BY <1>1, <1>2, <1>4, <2>1 DEF Land, Tx
  <2>3. placed \in Tx /\ moved \in Tx
    BY <1>1, <2>1 DEF Tx
  <2>4. /\ txs' \in Seq(Tx) /\ Len(txs') = Len(txs) /\ DOMAIN txs' = DOMAIN txs
        /\ txs'[a] = moved /\ txs'[t] = placed
        /\ \A u \in DOMAIN txs : u # t /\ u # a => txs'[u] = txs[u]
    BY <1>1, <2>1, <2>2, <2>3, Judged
  <2>6. /\ moved.points = txs[t].points /\ placed.points = txs[t].points /\ txs[a].what \in Upgradeable
        /\ StillThat(moved, txs[a]) /\ StillThat(placed, txs[t])
    BY <1>1, <1>3, <2>1 DEF Tx, Is, StillThat
  <2> HIDE DEF moved, placed
  <2>5. TxsStable
    BY <1>2, <2>1, <2>4, <2>6 DEF TxsStable, StillThat
  <2>7. \A u \in DOMAIN txs : \/ txs'[u].points = txs[u].points
                              \/ txs[u].what \in Upgradeable /\ Is(txs'[u].points, {"implementation"})
    BY <2>1, <2>4, <2>6
  <2> QED
    BY <1>3, <2>4, <2>5, <2>7, ChainMoves
<1>5. CASE txs[t].what = "transfer"
  <2>1. Is(a, {"transparent"}) /\ a \in DOMAIN txs /\ a # t /\ txs[a] \in Tx
    BY <1>1, <1>5, Typed DEF ChainInv, Is, Created
  <2>2. txs' = [[txs EXCEPT ![t] = done] EXCEPT ![a] = given]
    BY <1>1, <1>2, <1>5, <2>1 DEF Land, Tx
  <2>3. done \in Tx /\ given \in Tx
    BY <1>1, <2>1 DEF Tx
  <2>4. /\ txs' \in Seq(Tx) /\ Len(txs') = Len(txs) /\ DOMAIN txs' = DOMAIN txs
        /\ txs'[a] = given /\ txs'[t] = done
        /\ \A u \in DOMAIN txs : u # t /\ u # a => txs'[u] = txs[u]
    BY <1>1, <2>1, <2>2, <2>3, Judged
  <2>6. /\ given.points = txs[a].points /\ done.points = txs[t].points
        /\ StillThat(given, txs[a]) /\ StillThat(done, txs[t])
    BY <1>1, <1>3, <2>1 DEF Tx, Is, StillThat
  <2> HIDE DEF given, done
  <2>5. TxsStable
    BY <1>2, <2>1, <2>4, <2>6 DEF TxsStable, StillThat
  <2>7. \A u \in DOMAIN txs : txs'[u].points = txs[u].points
    BY <2>1, <2>4, <2>6
  <2> QED
    BY <1>3, <2>4, <2>5, <2>7, ChainMoves
<1>6. CASE txs[t].what \notin {"upgrade", "transfer"}
  <2>1. txs' = [[txs EXCEPT ![t] = done] EXCEPT ![t] = done]
    BY <1>1, <1>2, <1>6 DEF Land, Tx
  <2>2. done \in Tx
    BY <1>1 DEF Tx
  <2>3. /\ txs' \in Seq(Tx) /\ Len(txs') = Len(txs) /\ DOMAIN txs' = DOMAIN txs /\ txs'[t] = done
        /\ \A u \in DOMAIN txs : u # t => txs'[u] = txs[u]
    BY <1>1, <2>1, <2>2, Judged
  <2>4. TxsStable
    <3>1. /\ done.what = txs[t].what /\ done.of = txs[t].of /\ done.by = txs[t].by
          /\ done.at = txs[t].at /\ done.checked = txs[t].checked /\ txs[t].status = "pending"
      BY <1>1, <1>2, <1>3 DEF Tx
    <3> HIDE DEF done
    <3>2. ASSUME NEW u \in DOMAIN txs
          PROVE  /\ u \in DOMAIN txs'
                 /\ txs'[u].what = txs[u].what /\ txs'[u].of = txs[u].of /\ txs'[u].by = txs[u].by
                 /\ txs'[u].at = txs[u].at /\ txs'[u].checked = txs[u].checked
                 /\ txs[u].status # "pending" => txs'[u].status = txs[u].status
      BY <2>3, <3>1
    <3> QED
      BY <1>2, <2>3, <3>2 DEF TxsStable
  <2>5. done.points = txs[t].points
    BY <1>1 DEF Tx
  <2> HIDE DEF done
  <2>6. \A u \in DOMAIN txs : txs'[u].points = txs[u].points
    BY <2>3, <2>5
  <2> QED
    BY <1>3, <2>3, <2>4, <2>6, ChainMoves
<1> QED
  BY <1>4, <1>5, <1>6

\* A transaction fails, or is never included.
LEMMA FailCore == ASSUME CoreInv, NEW t \in DOMAIN txs, Fail(t) PROVE CoreInv'
<1> DEFINE lost == [txs[t] EXCEPT !.status = "reverted"]
<1>1. TypeOK /\ txs \in Seq(Tx) /\ txs[t] \in Tx
  BY Typed DEF CoreInv, TypeOK
<1>2. txs \in [DOMAIN txs -> Tx] /\ Len(txs) \in Nat /\ Len(txs) <= Len(txs)
  BY <1>1, Typed, LenProperties
<1>3. UNCHANGED <<impls, proxies, back, saved, calls, told, dropped, crashes, migration>> /\ txs[t].status = "pending"
  BY DEF Fail
<1>4. txs' = [[txs EXCEPT ![t] = lost] EXCEPT ![t] = lost]
  BY <1>1, <1>2 DEF Fail, Tx
<1>5. lost \in Tx
  BY <1>1 DEF Tx
<1>6. /\ txs' \in Seq(Tx) /\ Len(txs') = Len(txs) /\ DOMAIN txs' = DOMAIN txs /\ txs'[t] = lost
      /\ \A u \in DOMAIN txs : u # t => txs'[u] = txs[u]
  BY <1>1, <1>4, <1>5, Judged
<1>7. TxsStable
  <2>1. /\ lost.what = txs[t].what /\ lost.of = txs[t].of /\ lost.by = txs[t].by
        /\ lost.at = txs[t].at /\ lost.checked = txs[t].checked
    BY <1>1 DEF Tx
  <2> HIDE DEF lost
  <2>2. ASSUME NEW u \in DOMAIN txs
        PROVE  /\ u \in DOMAIN txs'
               /\ txs'[u].what = txs[u].what /\ txs'[u].of = txs[u].of /\ txs'[u].by = txs[u].by
               /\ txs'[u].at = txs[u].at /\ txs'[u].checked = txs[u].checked
               /\ txs[u].status # "pending" => txs'[u].status = txs[u].status
    BY <1>3, <1>6, <2>1
  <2> QED
    BY <1>2, <1>6, <2>2 DEF TxsStable
<1>8. lost.points = txs[t].points
  BY <1>1 DEF Tx
<1> HIDE DEF lost
<1>9. \A u \in DOMAIN txs : txs'[u].points = txs[u].points
  BY <1>6, <1>8
<1> QED
  BY <1>3, <1>6, <1>7, <1>9, ChainMoves

\* The artifacts are persisted.
LEMMA SaveCore == ASSUME CoreInv, Save PROVE CoreInv'
<1>1. TypeOK /\ LegsInv /\ ChainInv /\ RecordInv /\ CallInv
  BY DEF CoreInv
<1>2. UNCHANGED <<txs, impls, proxies, back, calls, told, dropped, crashes, migration>> /\ saved' = back
  BY DEF Save
<1>3. TypeOK'
  BY <1>1, <1>2 DEF TypeOK
<1>4. TxsStable
  BY <1>1, <1>2, TxsUnchanged
<1>5. ChainInv' /\ RecordInv'
  BY <1>1, <1>2, <1>4, ChainKept, RecordKept
<1>6. LegsInv'
  BY <1>1, <1>2 DEF LegsInv, Settled, Legs, turn
<1>7. CallInv'
  BY <1>1, <1>2, <1>4, CallKept DEF CallInv
<1> QED
  BY <1>3, <1>5, <1>6, <1>7 DEF CoreInv

\* The run dies with its calls.
LEMMA CrashCore == ASSUME CoreInv, Crash PROVE CoreInv'
<1>1. TypeOK /\ LegsInv /\ ChainInv /\ RecordInv /\ CallInv
  BY DEF CoreInv
<1>2. /\ UNCHANGED <<txs, impls, proxies, saved, told, dropped, migration>> /\ back' = saved
      /\ crashes < migration.crashes /\ crashes' = crashes + 1
  BY DEF Crash
<1>3. /\ DOMAIN calls' = DOMAIN calls
      /\ \A i \in DOMAIN calls : calls'[i] =
           IF Settled(i) THEN calls[i] ELSE [calls[i] EXCEPT !.todo = << >>, !.outcome = "crashed"]
  BY DEF Crash
<1>4. \A i \in DOMAIN calls :
        /\ calls'[i] \in Call /\ calls'[i].outcome # "" /\ Same(calls'[i], calls[i])
        /\ calls'[i].impl = calls[i].impl /\ calls'[i].tx = calls[i].tx /\ calls'[i].confirmed = calls[i].confirmed
  <2> TAKE i \in DOMAIN calls
  <2>1. calls[i] \in Call
    BY <1>1, Typed
  <2>2. CASE Settled(i)
    BY <1>3, <2>1, <2>2 DEF Settled, Same
  <2>3. CASE ~Settled(i)
    <3>1. calls'[i] = [calls[i] EXCEPT !.todo = << >>, !.outcome = "crashed"]
      BY <1>3, <2>3
    <3> DEFINE d == [calls[i] EXCEPT !.todo = << >>, !.outcome = "crashed"]
    <3>2. /\ d \in Call /\ d.outcome # "" /\ Same(d, calls[i])
          /\ d.impl = calls[i].impl /\ d.tx = calls[i].tx /\ d.confirmed = calls[i].confirmed
      BY <2>1, EmptySeq DEF Call, Same
    <3> HIDE DEF d
    <3>3. calls'[i] = d
      BY <3>1 DEF d
    <3> QED
      BY <3>2, <3>3
  <2> QED
    BY <2>2, <2>3
<1>5. calls' \in Seq(Call) /\ Len(calls') = Len(calls)
  <2>1. DOMAIN calls = 1..Len(calls) /\ Len(calls) \in Nat
    BY <1>1, Typed
  <2>2. calls' = [i \in 1..Len(calls) |-> calls'[i]]
    BY <2>1 DEF Crash
  <2>3. \A i \in 1..Len(calls) : calls'[i] \in Call
    BY <1>4, <2>1
  <2> QED
    BY <2>1, <2>2, <2>3, IsASeq, LenProperties
<1>6. TypeOK'
  <2>1. crashes' \in 0..migration.crashes
    <3>1. migration.crashes \in Nat /\ crashes \in 0..migration.crashes
      BY <1>1, OperationsAssumption DEF TypeOK, Migration
    <3> QED
      BY <1>2, <3>1
  <2> QED
    BY <1>1, <1>2, <1>5, <2>1 DEF TypeOK
<1>7. LegsInv'
  BY <1>3, <1>4 DEF LegsInv, Settled
<1>8. TxsStable
  BY <1>1, <1>2, TxsUnchanged
<1>9. ChainInv' /\ RecordInv'
  BY <1>1, <1>2, <1>3, <1>8, ChainKept, RecordKept
<1>10. CallInv'
  <2> SUFFICES ASSUME NEW i \in DOMAIN calls PROVE CallFacts(i)'
    BY <1>3 DEF CallInv
  <2>1. Names(i)
    BY <1>1 DEF CallInv, CallFacts
  <2>2. Names(i)'
    BY <1>2, <1>4, <2>1 DEF Names, Same
  <2> QED
    BY <1>4, <2>2 DEF CallFacts, Settled
<1> QED
  BY <1>6, <1>7, <1>9, <1>10 DEF CoreInv

\* A run begins on a chain that is empty, or holds what somebody else deployed.
LEMMA InitCore == Init => CoreInv
<1> SUFFICES ASSUME Init PROVE CoreInv
  OBVIOUS
<1>1. migration \in Migrations /\ migration \in Migration
  BY OperationsAssumption DEF Init
<1>2. calls = << >> /\ DOMAIN calls = {} /\ Len(calls) = 0
  BY DEF Init
<1>3. CASE txs = << >>
  <2>1. txs \in Seq(Tx) /\ Len(txs) = 0 /\ DOMAIN txs = {}
    BY <1>3
  <2>2. TypeOK
    BY <1>1, <1>2, <2>1, EmptySeq DEF Init, TypeOK, Migration, Address
  <2>3. \A c \in Contracts : Elements(impls[c]) = {}
    BY ElementsOfFew DEF Init
  <2> QED
    BY <1>2, <2>1, <2>2, <2>3 DEF CoreInv, LegsInv, ChainInv, RecordInv, CallInv, Init
<1>4. CASE \E c \in migration.foreign : txs = foreign(c)
  <2>1. PICK c \in migration.foreign : txs = foreign(c)
    BY <1>4
  <2>2. c \in Contracts /\ migration.txs >= 2 /\ migration.txs \in Nat
    BY <1>1, OperationsAssumption DEF Migration
  <2> DEFINE one == [NewTx("implementation", c, 0, 0, 0, 0) EXCEPT !.status = "landed"]
             two == [NewTx("uups", "-", 1, 0, 0, 0) EXCEPT !.status = "landed"]
  <2>3. /\ one \in Tx /\ one.what = "implementation" /\ one.status = "landed" /\ one.at = 0 /\ one.by = 0
        /\ two \in Tx /\ two.what = "uups" /\ two.status = "landed" /\ two.at = 0 /\ two.by = 0 /\ two.points = 1
    BY <2>2 DEF NewTx, Tx, What, Owner, Address
  <2>4. txs = <<one, two>>
    BY <2>1 DEF foreign
  <2> HIDE DEF one, two
  <2>5. txs \in Seq(Tx) /\ Len(txs) = 2 /\ DOMAIN txs = {1, 2} /\ txs[1] = one /\ txs[2] = two
    BY <2>3, <2>4
  <2>6. TypeOK
    BY <1>1, <1>2, <2>2, <2>5, EmptySeq DEF Init, TypeOK, Migration, Address
  <2>7. \A v \in Contracts : Elements(impls[v]) = {}
    BY ElementsOfFew DEF Init
  <2>8. ChainInv
    BY <2>3, <2>5 DEF ChainInv, Is, Created, Upgradeable, ProxyWhats
  <2> QED
    BY <1>2, <2>6, <2>7, <2>8 DEF CoreInv, LegsInv, RecordInv, CallInv, Init
<1> QED
  BY <1>3, <1>4 DEF Init

\* The core invariant is inductive.
LEMMA NextCore == CoreInv /\ [Next]_vars => CoreInv'
<1> SUFFICES ASSUME CoreInv, [Next]_vars PROVE CoreInv'
  OBVIOUS
<1>1. ASSUME NEW name \in migration.operations, NEW c \in migration.contracts,
             NEW kind \in migration.kinds, NEW redeploy \in migration.redeploys,
             NEW a \in {0} \cup DOMAIN txs, NEW o \in Owner, (name \in Targeted) = (a # 0),
             CallOperation(name, c, kind, redeploy, a, o)
      PROVE  CoreInv'
  BY <1>1, CallCore
<1>2. CASE UNCHANGED vars
  <2>1. TypeOK /\ LegsInv /\ ChainInv /\ RecordInv /\ CallInv
    BY DEF CoreInv
  <2>2. TypeOK'
    BY <1>2, <2>1 DEF TypeOK, vars
  <2>3. TxsStable
    BY <1>2, <2>1, TxsUnchanged DEF vars
  <2>4. ChainInv' /\ RecordInv'
    BY <1>2, <2>1, <2>3, ChainKept, RecordKept DEF vars
  <2>5. LegsInv'
    BY <1>2, <2>1 DEF LegsInv, Settled, Legs, turn, vars
  <2>6. CallInv'
    BY <1>2, <2>1, <2>3, CallKept DEF CallInv, vars
  <2> QED
    BY <2>2, <2>4, <2>5, <2>6 DEF CoreInv
<1> QED
  BY <1>1, <1>2, StepCore, LandCore, FailCore, SaveCore, CrashCore DEF Next

\* Every reachable state.
LEMMA CoreHolds == Spec => []CoreInv
BY InitCore, NextCore, PTL DEF Spec

\* Everything has its type, and what the record holds exists, under the kind the chain shows:
\* no path records a creation that is undecided or reverted.
THEOREM RecordedProxiesExist == Spec => []RecordedProxiesAreReal
<1>1. CoreInv => RecordedProxiesAreReal
  BY DEF CoreInv, RecordInv, RecordedProxiesAreReal
<1> QED
  BY <1>1, CoreHolds, PTL

-----------------------------------------------------------------------------
(* What a step of a call does *)

\* A transaction is out, at the address the next number names.
Sends(i, tx) ==
  /\ txs' = Append(txs, tx) /\ tx \in Tx /\ tx.by = i /\ tx.status = "pending"
  /\ Len(txs) + 1 \notin DOMAIN txs /\ DOMAIN txs' = DOMAIN txs \cup {Len(txs) + 1}
  /\ txs'[Len(txs) + 1] = tx /\ \A t \in DOMAIN txs : txs'[t] = txs[t]

Opens(i) ==
  LET c == calls[i]
      e == calls'[i]
  IN /\ Continues(i, "open", {})
     /\ e.impl = c.impl /\ e.tx = c.tx /\ e.checked = c.checked /\ e.confirmed = c.confirmed /\ e.prior = c.prior
     /\ e.before = back[c.contract] /\ e.named = (IF c.name = "deployProxy" THEN e.before ELSE 0)
     /\ e.verdict = VerdictFor(e.named)
     /\ UNCHANGED <<txs, impls, proxies, back, told, dropped>>

Skips(i) ==
  /\ Acts(i, "check") /\ calls'[i].outcome = "" /\ Legs(i)' = {"report"} /\ Carried(calls'[i], calls[i])
  /\ Accepts(calls[i]) /\ alreadyHeld(calls[i])
  /\ UNCHANGED <<txs, impls, proxies, back, told, dropped>>

Checks(i) ==
  LET c == calls[i]
      e == calls'[i]
  IN /\ Continues(i, "check", {})
     /\ e.impl = c.impl /\ e.tx = c.tx /\ e.confirmed = c.confirmed
     /\ e.before = c.before /\ e.named = c.named /\ e.verdict = c.verdict
     /\ e.prior = back[c.contract] /\ e.checked = compared(c)
     /\ Accepts(c) /\ ~alreadyHeld(c) /\ (c.name = "deployProxy" => Vouched(c))
     /\ UNCHANGED <<txs, impls, proxies, back, told, dropped>>

\* A fetch: the record's address, an adoption's, or a new one.
Fetches(i) ==
  LET c == calls[i]
      e == calls'[i]
      s == impls[c.contract]
      hit == s # << >> /\ mode(c) # "always"
  IN /\ e.checked = c.checked /\ e.confirmed = c.confirmed
     /\ e.prior = c.prior /\ e.before = c.before /\ e.named = c.named /\ e.verdict = c.verdict
     /\ UNCHANGED <<impls, proxies, told, dropped>>
     /\ \/ /\ hit /\ Continues(i, "fetch", {"mine"})
           /\ e.impl = Head(s) /\ e.tx = c.tx /\ UNCHANGED <<txs, back>>
        \/ /\ ~hit /\ c.name = "forceImport" /\ Continues(i, "fetch", {"store", "mine"})
           /\ e.impl = c.checked /\ e.tx = c.tx /\ UNCHANGED <<txs, back>>
        \/ /\ ~hit /\ c.name # "forceImport" /\ mode(c) # "never" /\ Continues(i, "fetch", {"store", "mine"})
           /\ e.impl = Len(txs) + 1 /\ e.tx = Len(txs) + 1
           /\ back' = [back EXCEPT ![c.contract] = Len(txs) + 1]
           /\ Sends(i, NewTx("implementation", c.contract, 0, 0, 0, i))

Stores(i) ==
  LET c == calls[i]
      s == impls[c.contract]
  IN /\ Continues(i, "store", {}) /\ Carried(calls'[i], c)
     /\ impls' = [impls EXCEPT ![c.contract] = IF c.impl \in Elements(s) THEN s ELSE Append(s, c.impl)]
     /\ UNCHANGED <<txs, proxies, back, told, dropped>>

\* An invalid deployment leaves the record.
Forgets(i) ==
  LET c == calls[i]
      judged == impls[c.contract] # << >> /\ Head(impls[c.contract]) = c.impl
  IN /\ txs[c.impl].status = "reverted"
     /\ impls' = IF judged THEN [impls EXCEPT ![c.contract] = << >>] ELSE impls
     /\ dropped' = dropped \cup (IF judged THEN Elements(impls[c.contract]) \ {c.impl} ELSE {})

Mines(i) ==
  /\ Carried(calls'[i], calls[i]) /\ UNCHANGED <<txs, proxies, back, told>>
  /\ \/ /\ txs[calls[i].impl].status = "landed" /\ Continues(i, "mine", {})
        /\ UNCHANGED <<impls, dropped>>
     \/ Forgets(i) /\ retries(calls[i]) /\ Continues(i, "mine", {"fetch"})

Creates(i) ==
  LET c == calls[i]
      e == calls'[i]
  IN /\ Continues(i, "create", {})
     /\ e.impl = c.impl /\ e.tx = Len(txs) + 1 /\ e.checked = c.checked /\ e.confirmed = c.confirmed
     /\ e.prior = c.prior /\ e.before = c.before /\ e.named = c.named /\ e.verdict = c.verdict
     /\ Sends(i, NewTx(creation(c), "-", IF c.name = "deployBeaconProxy" THEN c.target ELSE c.impl, 0, 0, i))
     /\ back' = [back EXCEPT ![Facade(c)] = Len(txs) + 1]
     /\ UNCHANGED <<impls, proxies, told, dropped>>

SendsCall(i) ==
  LET c == calls[i]
      e == calls'[i]
  IN /\ Continues(i, "send", {})
     /\ e.impl = c.impl /\ e.tx = Len(txs) + 1 /\ e.checked = c.checked /\ e.confirmed = c.confirmed
     /\ e.prior = c.prior /\ e.before = c.before /\ e.named = c.named /\ e.verdict = c.verdict
     /\ Sends(i, [NewTx(sending(c), "-", c.impl, c.target, c.checked, i) EXCEPT !.owner = c.newOwner])
     /\ UNCHANGED <<impls, proxies, back, told, dropped>>

Confirms(i) ==
  LET c == calls[i]
      e == calls'[i]
  IN /\ Continues(i, "confirm", {})
     /\ e.impl = c.impl /\ e.tx = c.tx /\ e.checked = c.checked
     /\ e.prior = c.prior /\ e.before = c.before /\ e.named = c.named /\ e.verdict = c.verdict
     /\ \/ c.tx = 0 /\ e.confirmed = c.confirmed
        \/ c.tx # 0 /\ txs[c.tx].status = "landed" /\ e.confirmed
     /\ UNCHANGED <<txs, impls, proxies, back, told, dropped>>

Verifies(i) ==
  LET c == calls[i]
  IN /\ Continues(i, "verify", {}) /\ Carried(calls'[i], c)
     /\ IF c.name = "transferProxyAdminOwnership" THEN txs[c.target].owner = c.newOwner
        ELSE txs[c.target].points = c.impl
     /\ UNCHANGED <<txs, impls, proxies, back, told, dropped>>

Writes(i) ==
  LET c == calls[i]
      p == subject(c)
  IN /\ Continues(i, "record", {}) /\ Carried(calls'[i], c)
     /\ IF records(c)
        THEN proxies' = [q \in DOMAIN proxies \cup {p} |->
                           IF q = p THEN RecordedKind(txs[p].what) ELSE proxies[q]]
        ELSE proxies' = proxies
     /\ UNCHANGED <<txs, impls, back, told, dropped>>

WritesBack(i) ==
  /\ Continues(i, "writeBack", {}) /\ Carried(calls'[i], calls[i])
  /\ back' = [back EXCEPT ![calls[i].contract] = calls[i].tx]
  /\ UNCHANGED <<txs, impls, proxies, told, dropped>>

Reports(i) ==
  LET c == calls[i]
  IN /\ Acts(i, "report") /\ calls'[i].outcome = "ok" /\ Carried(calls'[i], c)
     /\ told' = told \cup ({c.tx, c.impl} \ {0})
     /\ UNCHANGED <<txs, impls, proxies, back, dropped>>

\* A refusal, at any leg but those that cannot fail.
Refuses(i, leg) ==
  LET c == calls[i]
      e == calls'[i]
  IN /\ Acts(i, leg) /\ leg \notin {"store", "writeBack"}
     /\ e.outcome \in {"refused", "stale"} /\ Carried(e, c)
     /\ e.outcome = "stale" => leg = "check" /\ c.name = "deployProxy" /\ ~Vouched(c)
     /\ told \subseteq told' /\ UNCHANGED <<txs, proxies>>
     /\ leg # "mine" => UNCHANGED <<impls, dropped>>
     /\ leg = "mine" => \/ txs[c.impl].status = "pending" /\ c.impl \in told' /\ UNCHANGED <<impls, dropped>>
                        \/ Forgets(i) /\ ~retries(c)
     /\ leg = "confirm" => c.tx # 0 /\ (txs[c.tx].status = "reverted" \/ c.tx \in told')
     /\ leg = "record" => \/ c.name \in {"upgradeProxy", "forceImport"}
                          \/ c.tx \in told' /\ subject(c) \in told'
     /\ leg = "report" => c.name \notin Standalone \cup {"transferProxyAdminOwnership"}
     /\ \/ back' = restored(c, back)
        \/ leg = "confirm" /\ txs[c.tx].status = "reverted" /\ back' = restored(c, undone(c))

StepEffect(i) ==
  \/ Opens(i) \/ Skips(i) \/ Checks(i) \/ Fetches(i) \/ Stores(i) \/ Mines(i) \/ Creates(i) \/ SendsCall(i)
  \/ Confirms(i) \/ Verifies(i) \/ Writes(i) \/ WritesBack(i) \/ Reports(i) \/ \E leg \in Leg : Refuses(i, leg)

\* A call that goes on to its next leg.
LEMMA Continued ==
  ASSUME TypeOK, LegsInv, NEW i, NEW leg \in Leg \ {"report"}, At(i, leg),
         NEW d \in Call, Same(d, calls[i]), d.outcome = "", d.todo = calls[i].todo,
         NEW more, Goes(i, d, more), Detour(leg, more)
  PROVE  Continues(i, leg, Elements(more)) /\ Carried(calls'[i], d)
BY GoesOn, Zenon

\* The same with nothing put ahead.
LEMMA ContinuedPlainly ==
  ASSUME CoreInv, NEW i, NEW leg \in Leg \ {"report"}, At(i, leg),
         NEW d \in Call, Same(d, calls[i]), d.outcome = "", d.todo = calls[i].todo, Goes(i, d, << >>)
  PROVE  Continues(i, leg, {}) /\ Carried(calls'[i], d)
<1>1. TypeOK /\ LegsInv /\ Elements(<< >>) = {} /\ Detour(leg, << >>)
  BY ElementsOfFew DEF CoreInv, Detour
<1>2. Continues(i, leg, Elements(<< >>)) /\ Carried(calls'[i], d)
  BY <1>1, Continued, Zenon
<1> QED
  BY <1>1, <1>2

\* A call that ends.
LEMMA Ended ==
  ASSUME CoreInv, NEW i, NEW leg \in Leg, At(i, leg), NEW o \in {"ok", "refused", "stale"},
         calls' = [calls EXCEPT ![i].todo = << >>, ![i].outcome = o]
  PROVE  Acts(i, leg) /\ calls'[i].outcome = o /\ Carried(calls'[i], calls[i])
<1>1. TypeOK /\ LegsInv /\ i \in DOMAIN calls /\ ~Settled(i) /\ turn(i)
  BY DEF CoreInv, At
<1>2. /\ DOMAIN calls' = DOMAIN calls /\ \A j \in DOMAIN calls : j # i => calls'[j] = calls[j]
      /\ calls'[i] = [calls[i] EXCEPT !.todo = << >>, !.outcome = o]
  BY <1>1, Ends
<1>3. calls[i] \in Call
  BY <1>1, Typed
<1>4. Same(calls'[i], calls[i]) /\ calls'[i].outcome = o /\ Carried(calls'[i], calls[i])
  <2> DEFINE d == [calls[i] EXCEPT !.todo = << >>, !.outcome = o]
  <2>1. Same(d, calls[i]) /\ d.outcome = o /\ Carried(d, calls[i])
    BY <1>3 DEF Call, Same, Carried
  <2>2. calls'[i] = d
    BY <1>2
  <2> HIDE DEF d
  <2> QED
    BY <2>1, <2>2
<1> QED
  BY <1>1, <1>2, <1>4 DEF Acts

\* A refusal that leaves the chain and the record alone, at the legs where that is all.
LEMMA RefusedPlainly ==
  ASSUME CoreInv, NEW i, NEW leg \in {"open", "check", "fetch", "create", "send", "verify"}, At(i, leg),
         NEW o \in {"refused", "stale"}, NEW names, RefuseAs(o, i, names, back),
         o = "stale" => leg = "check" /\ calls[i].name = "deployProxy" /\ ~Vouched(calls[i]),
         UNCHANGED <<txs, impls, proxies, saved, dropped, crashes, migration>>
  PROVE  Refuses(i, leg)
<1>1. leg \in Leg
  BY DEF Leg, Rank
<1>2. /\ calls' = [calls EXCEPT ![i].todo = << >>, ![i].outcome = o]
      /\ back' = restored(calls[i], back) /\ told \subseteq told'
  BY DEF RefuseAs
<1>3. Acts(i, leg) /\ calls'[i].outcome = o /\ Carried(calls'[i], calls[i])
  BY <1>1, <1>2, Ended
<1> QED
  BY <1>2, <1>3 DEF Refuses

\* Each leg, in the order of the code.
LEMMA OpenEffect == ASSUME CoreInv, NEW i, Open(i) PROVE Opens(i) \/ Refuses(i, "open")
<1> DEFINE c == calls[i]
           a == IF c.name = "deployProxy" THEN back[c.contract] ELSE 0
           d == [c EXCEPT !.named = a, !.verdict = VerdictFor(a), !.before = back[c.contract]]
<1>1. /\ At(i, "open") /\ "open" \in Leg \ {"report"} /\ TypeOK /\ LegsInv
      /\ UNCHANGED <<txs, impls, proxies, saved, dropped, crashes, migration>>
  BY DEF Open, Leg, Rank, CoreInv
<1>2. c \in Call /\ c.contract \in Contracts /\ c.outcome = ""
  BY <1>1, AtLeg
<1>3. CASE Goes(i, d, << >>) /\ UNCHANGED <<back, told>>
  <2>1. /\ d \in Call /\ Same(d, c) /\ d.outcome = "" /\ d.todo = c.todo /\ d.before = back[c.contract]
        /\ d.named = a /\ d.verdict = VerdictFor(a) /\ d.impl = c.impl /\ d.tx = c.tx /\ d.checked = c.checked
        /\ d.confirmed = c.confirmed /\ d.prior = c.prior
    <3>1. back[c.contract] \in Address /\ a \in Address
      BY <1>1, <1>2 DEF TypeOK, Address
    <3>2. VerdictFor(a) \in {"none", "authoritative", "no-code-at-address", "unrecorded"}
      BY DEF VerdictFor
    <3> QED
      BY <1>2, <3>1, <3>2 DEF Call, Same
  <2>2. Goes(i, d, << >>)
    BY <1>3
  <2> HIDE DEF d
  <2>3. Continues(i, "open", {}) /\ Carried(calls'[i], d)
    BY <1>1, <2>1, <2>2, ContinuedPlainly, Zenon
  <2> QED
    BY <1>1, <1>3, <2>1, <2>3 DEF Opens, Carried
<1>4. CASE Refuse(i, {})
  BY <1>1, <1>4, RefusedPlainly DEF Refuse
<1> QED
  BY <1>3, <1>4 DEF Open

\* The check finds a transfer done, goes on with what it captured, or refuses.
LEMMA CheckEffect == ASSUME CoreInv, NEW i, Check(i) PROVE Skips(i) \/ Checks(i) \/ Refuses(i, "check")
<1> DEFINE c == calls[i]
           d == [c EXCEPT !.prior = back[c.contract], !.checked = compared(c)]
<1>1. /\ At(i, "check") /\ "check" \in Leg \ {"report"} /\ TypeOK /\ LegsInv /\ ChainInv
      /\ UNCHANGED <<txs, impls, proxies, saved, dropped, crashes, migration>>
  BY DEF Check, Leg, Rank, CoreInv
<1>2. c \in Call /\ c.contract \in Contracts /\ c.outcome = "" /\ i \in DOMAIN calls /\ ~Settled(i)
  BY <1>1, AtLeg
<1>3. CASE Accepts(c) /\ alreadyHeld(c) /\ calls' = [calls EXCEPT ![i].todo = <<"report">>]
           /\ UNCHANGED <<back, told>>
  <2> DEFINE e == [c EXCEPT !.todo = <<"report">>]
  <2>1. /\ e \in Call /\ Same(e, c) /\ e.outcome = "" /\ e.todo = <<"report">> /\ Carried(e, c)
    <3>1. Leg = QueuedLegs \cup {"open", "check", "writeBack", "report"} /\ <<"report">> \in Seq(Leg)
      BY DEF Leg, Rank, QueuedLegs
    <3> QED
      BY <1>2, <3>1 DEF Call, Same, Carried
  <2>2. calls' = [calls EXCEPT ![i] = e]
    <3>1. calls \in [DOMAIN calls -> Call]
      BY <1>1, Typed, LenProperties DEF TypeOK
    <3> QED
      BY <1>2, <1>3, <3>1 DEF Call
  <2> HIDE DEF e
  <2>3. /\ DOMAIN calls' = DOMAIN calls /\ calls'[i] = e /\ \A j \in DOMAIN calls : j # i => calls'[j] = calls[j]
    BY <1>1, <1>2, <2>1, <2>2, OneCall
  <2>4. Legs(i)' = {"report"}
    BY <2>1, <2>3, ElementsOfFew DEF Legs
  <2> QED
    BY <1>1, <1>2, <1>3, <2>1, <2>3, <2>4 DEF Skips, Acts
<1>4. CASE /\ ~(c.name = "deployProxy" /\ ~Vouched(c)) /\ Accepts(c) /\ ~alreadyHeld(c)
           /\ Goes(i, d, << >>) /\ UNCHANGED <<back, told>>
  <2>1. c.name \in Targeted => Created(c.target)
    BY <1>4 DEF Accepts, Targeted, Is
  <2>2. compared(c) \in Address
    BY <1>1, <2>1, BehindIsLive DEF compared, Address
  <2>3. /\ d \in Call /\ Same(d, c) /\ d.outcome = "" /\ d.todo = c.todo /\ d.impl = c.impl /\ d.tx = c.tx
        /\ d.confirmed = c.confirmed /\ d.checked = compared(c) /\ d.prior = back[c.contract]
        /\ d.before = c.before /\ d.named = c.named /\ d.verdict = c.verdict
    <3>1. back[c.contract] \in Address
      BY <1>1, <1>2 DEF TypeOK
    <3> QED
      BY <1>2, <2>2, <3>1 DEF Call, Same
  <2>4. Goes(i, d, << >>)
    BY <1>4
  <2> HIDE DEF d
  <2>5. Continues(i, "check", {}) /\ Carried(calls'[i], d)
    BY <1>1, <2>3, <2>4, ContinuedPlainly, Zenon
  <2> QED
    BY <1>1, <1>4, <2>3, <2>5 DEF Checks, Carried
<1>5. CASE c.name = "deployProxy" /\ ~Vouched(c) /\ RefuseAs("stale", i, {}, back)
  BY <1>1, <1>5, RefusedPlainly
<1>6. CASE Refuse(i, {})
  BY <1>1, <1>6, RefusedPlainly DEF Refuse
<1> QED
  BY <1>3, <1>4, <1>5, <1>6 DEF Check

\* What going out does to the chain.
LEMMA GoneOut ==
  ASSUME TypeOK, NEW i, NEW tx \in Tx, tx.by = i, tx.status = "pending", txs' = Append(txs, tx)
  PROVE  Sends(i, tx)
BY Sent DEF Sends

\* The engine answers from the record, adopts, deploys, or refuses.
LEMMA FetchEffect == ASSUME CoreInv, NEW i, Fetch(i) PROVE Fetches(i) \/ Refuses(i, "fetch")
<1> DEFINE c == calls[i]
           s == impls[c.contract]
           hit == s # << >> /\ mode(c) # "always"
           new == Len(txs) + 1
           d1 == [c EXCEPT !.impl = Head(s)]
           d2 == [c EXCEPT !.impl = c.checked]
           d3 == [c EXCEPT !.impl = new, !.tx = new]
           tx == NewTx("implementation", c.contract, 0, 0, 0, i)
<1>1. /\ At(i, "fetch") /\ "fetch" \in Leg \ {"report"} /\ TypeOK /\ LegsInv
      /\ UNCHANGED <<impls, proxies, saved, dropped, crashes, migration>>
  BY DEF Fetch, Leg, Rank, CoreInv
<1>2. c \in Call /\ c.contract \in Contracts /\ c.outcome = "" /\ i \in DOMAIN calls
  BY <1>1, AtLeg
<1>3. CASE hit /\ Goes(i, d1, <<"mine">>) /\ UNCHANGED <<txs, back, told>>
  <2>1. Head(s) \in Nat
    <3>1. s \in Seq(DOMAIN txs) /\ s # << >>
      BY <1>1, <1>2, <1>3, Typed
    <3>2. DOMAIN txs \subseteq Nat
      <4>1. DOMAIN txs = 1..Len(txs) /\ Len(txs) \in Nat
        BY <1>1, Typed
      <4> QED
        BY <4>1
    <3> QED
      BY <3>1, <3>2, HeadTailProperties
  <2>2. /\ d1 \in Call /\ Same(d1, c) /\ d1.outcome = "" /\ d1.todo = c.todo /\ d1.impl = Head(s) /\ d1.tx = c.tx
        /\ d1.confirmed = c.confirmed /\ d1.checked = c.checked /\ d1.prior = c.prior
        /\ d1.before = c.before /\ d1.named = c.named /\ d1.verdict = c.verdict
    BY <1>2, <2>1 DEF Call, Same, Address
  <2>3. Goes(i, d1, <<"mine">>) /\ Detour("fetch", <<"mine">>)
    BY <1>3 DEF Detour
  <2> HIDE DEF d1
  <2>4. Continues(i, "fetch", Elements(<<"mine">>)) /\ Carried(calls'[i], d1)
    BY <1>1, <2>2, <2>3, Continued, Zenon
  <2>5. Continues(i, "fetch", {"mine"})
    BY <2>4, ElementsOfFew
  <2> QED
    BY <1>1, <1>3, <2>2, <2>4, <2>5 DEF Fetches, Carried
<1>4. CASE ~hit /\ c.name = "forceImport" /\ Goes(i, d2, <<"store", "mine">>) /\ UNCHANGED <<txs, back, told>>
  <2>1. c.checked \in Nat
    BY <1>2, CallFields
  <2>2. /\ d2 \in Call /\ Same(d2, c) /\ d2.outcome = "" /\ d2.todo = c.todo /\ d2.impl = c.checked /\ d2.tx = c.tx
        /\ d2.confirmed = c.confirmed /\ d2.checked = c.checked /\ d2.prior = c.prior
        /\ d2.before = c.before /\ d2.named = c.named /\ d2.verdict = c.verdict
    BY <1>2, <2>1 DEF Call, Same, Address
  <2>3. Goes(i, d2, <<"store", "mine">>) /\ Detour("fetch", <<"store", "mine">>)
    BY <1>4 DEF Detour
  <2> HIDE DEF d2
  <2>4. Continues(i, "fetch", Elements(<<"store", "mine">>)) /\ Carried(calls'[i], d2)
    BY <1>1, <2>2, <2>3, Continued, Zenon
  <2>5. Continues(i, "fetch", {"store", "mine"})
    BY <2>4, ElementsOfFew
  <2> QED
    BY <1>1, <1>4, <2>2, <2>4, <2>5 DEF Fetches, Carried
<1>5. CASE /\ ~hit /\ c.name # "forceImport" /\ mode(c) # "never" /\ hostDeploy(tx, c.contract)
           /\ Goes(i, d3, <<"store", "mine">>) /\ UNCHANGED told
  <2>1. new \in Nat
    BY <1>1, Typed
  <2>2. tx \in Tx /\ tx.by = i /\ tx.status = "pending"
    <3>1. i \in Nat
      <4>1. i \in 1..Len(calls) /\ Len(calls) \in Nat
        BY <1>1, <1>2, Typed
      <4> QED
        BY <4>1
    <3> QED
      BY <1>2, <3>1 DEF NewTx, Tx, What, Address, Owner
  <2>3. txs' = Append(txs, tx) /\ back' = [back EXCEPT ![c.contract] = new]
    BY <1>5 DEF hostDeploy
  <2>4. Goes(i, d3, <<"store", "mine">>) /\ Detour("fetch", <<"store", "mine">>)
    BY <1>5 DEF Detour
  <2> HIDE DEF tx
  <2>5. Sends(i, tx)
    BY <1>1, <2>2, <2>3, GoneOut
  <2> HIDE DEF new
  <2>6. /\ d3 \in Call /\ Same(d3, c) /\ d3.outcome = "" /\ d3.todo = c.todo /\ d3.impl = new /\ d3.tx = new
        /\ d3.confirmed = c.confirmed /\ d3.checked = c.checked /\ d3.prior = c.prior
        /\ d3.before = c.before /\ d3.named = c.named /\ d3.verdict = c.verdict
    BY <1>2, <2>1 DEF Call, Same, Address
  <2> HIDE DEF d3
  <2>7. Continues(i, "fetch", Elements(<<"store", "mine">>)) /\ Carried(calls'[i], d3)
    BY <1>1, <2>6, <2>4, Continued, Zenon
  <2>8. Continues(i, "fetch", {"store", "mine"})
    BY <2>7, ElementsOfFew
  <2> QED
    BY <1>1, <1>5, <2>3, <2>5, <2>6, <2>7, <2>8 DEF Fetches, Carried, new, tx
<1>6. CASE Refuse(i, {}) /\ UNCHANGED txs
  BY <1>1, <1>6, RefusedPlainly DEF Refuse
<1> QED
  BY <1>3, <1>4, <1>5, <1>6 DEF Fetch

\* What the callback returned joins its version.
LEMMA StoreEffect == ASSUME CoreInv, NEW i, Store(i) PROVE Stores(i)
<1> DEFINE c == calls[i]
<1>1. /\ At(i, "store") /\ "store" \in Leg \ {"report"} /\ TypeOK /\ LegsInv /\ Goes(i, c, << >>)
      /\ UNCHANGED <<txs, proxies, back, saved, told, dropped, crashes, migration>>
  BY DEF Store, Leg, Rank, CoreInv
<1>2. c \in Call /\ Same(c, c) /\ c.outcome = ""
  BY <1>1, AtLeg DEF Same
<1>3. Continues(i, "store", {}) /\ Carried(calls'[i], c)
  BY <1>1, <1>2, ContinuedPlainly, Zenon
<1> QED
  BY <1>1, <1>3 DEF Stores, Store

\* The engine goes on with a live implementation, retries an invalid one, or refuses.
LEMMA MineEffect == ASSUME CoreInv, NEW i, Mine(i) PROVE Mines(i) \/ Refuses(i, "mine")
<1> DEFINE c == calls[i]
           d == [c EXCEPT !.retried = TRUE]
<1>1. /\ At(i, "mine") /\ "mine" \in Leg \ {"report"} /\ "mine" \in Leg /\ TypeOK /\ LegsInv
      /\ UNCHANGED <<txs, proxies, saved, crashes, migration>>
  BY DEF Mine, Leg, Rank, CoreInv
<1>2. c \in Call /\ Same(c, c) /\ c.outcome = ""
  BY <1>1, AtLeg DEF Same
<1>3. CASE txs[c.impl].status = "landed" /\ Goes(i, c, << >>) /\ UNCHANGED <<impls, back, told, dropped, migration>>
  <2>1. Continues(i, "mine", {}) /\ Carried(calls'[i], c)
    BY <1>1, <1>2, <1>3, ContinuedPlainly, Zenon
  <2> QED
    BY <1>1, <1>3, <2>1 DEF Mines
<1>4. CASE txs[c.impl].status = "pending" /\ Refuse(i, {c.impl}) /\ UNCHANGED <<impls, dropped>>
  <2>1. /\ calls' = [calls EXCEPT ![i].todo = << >>, ![i].outcome = "refused"]
        /\ back' = restored(c, back) /\ told \subseteq told' /\ c.impl \in told'
    BY <1>4 DEF Refuse, RefuseAs
  <2>2. Acts(i, "mine") /\ calls'[i].outcome = "refused" /\ Carried(calls'[i], c)
    BY <1>1, <2>1, Ended
  <2> QED
    BY <1>1, <1>4, <2>1, <2>2 DEF Refuses
<1>5. CASE Forgets(i) /\ retries(c) /\ Goes(i, d, <<"fetch">>) /\ UNCHANGED <<back, told>>
  <2>1. d \in Call /\ Same(d, c) /\ d.outcome = "" /\ d.todo = c.todo /\ Carried(d, c)
    BY <1>2 DEF Call, Same, Carried
  <2>2. Goes(i, d, <<"fetch">>) /\ Detour("mine", <<"fetch">>)
    BY <1>5 DEF Detour
  <2> HIDE DEF d
  <2>3. Continues(i, "mine", Elements(<<"fetch">>)) /\ Carried(calls'[i], d)
    BY <1>1, <2>1, <2>2, Continued, Zenon
  <2>4. Continues(i, "mine", {"fetch"}) /\ Carried(calls'[i], c)
    BY <2>1, <2>3, ElementsOfFew DEF Carried
  <2> QED
    BY <1>1, <1>5, <2>4 DEF Mines
<1>6. CASE Forgets(i) /\ ~retries(c) /\ Refuse(i, {})
  <2>1. /\ calls' = [calls EXCEPT ![i].todo = << >>, ![i].outcome = "refused"]
        /\ back' = restored(c, back) /\ told \subseteq told'
    BY <1>6 DEF Refuse, RefuseAs
  <2>2. Acts(i, "mine") /\ calls'[i].outcome = "refused" /\ Carried(calls'[i], c)
    BY <1>1, <2>1, Ended
  <2> QED
    BY <1>1, <1>6, <2>1, <2>2 DEF Refuses
<1> QED
  BY <1>3, <1>4, <1>5, <1>6 DEF Mine, Forgets

\* A proxy or a beacon goes out, through its facade, or the host refuses.
LEMMA CreateEffect == ASSUME CoreInv, NEW i, Create(i) PROVE Creates(i) \/ Refuses(i, "create")
<1> DEFINE c == calls[i]
           points == IF c.name = "deployBeaconProxy" THEN c.target ELSE c.impl
           tx == NewTx(creation(c), "-", points, 0, 0, i)
           d == [c EXCEPT !.tx = Len(txs) + 1, !.priorFacade = back[Facade(c)]]
<1>1. /\ At(i, "create") /\ "create" \in Leg \ {"report"} /\ "create" \in Leg /\ TypeOK /\ LegsInv
      /\ UNCHANGED <<impls, proxies, saved, dropped, crashes, migration>>
  BY DEF Create, Leg, Rank, CoreInv
<1>2. c \in Call /\ c.contract \in Contracts /\ c.outcome = "" /\ i \in DOMAIN calls
  BY <1>1, AtLeg
<1>3. CASE hostDeploy(tx, Facade(c)) /\ Goes(i, d, << >>) /\ UNCHANGED told
  <2>1. tx \in Tx /\ tx.by = i /\ tx.status = "pending"
    <3>1. i \in Nat
      <4>1. i \in 1..Len(calls) /\ Len(calls) \in Nat
        BY <1>1, <1>2, Typed
      <4> QED
        BY <4>1
    <3>2. points \in Nat /\ c.kind \in {"transparent", "uups"}
      BY <1>2, CallFields
    <3>3. creation(c) \in What
      BY <3>2 DEF creation, What
    <3> HIDE DEF points
    <3> QED
      BY <3>1, <3>2, <3>3 DEF NewTx, Tx, Address, Owner
  <2>2. txs' = Append(txs, tx) /\ back' = [back EXCEPT ![Facade(c)] = Len(txs) + 1]
    BY <1>3 DEF hostDeploy
  <2> HIDE DEF tx
  <2>3. Sends(i, tx)
    BY <1>1, <2>1, <2>2, GoneOut
  <2>4. /\ d \in Call /\ Same(d, c) /\ d.outcome = "" /\ d.todo = c.todo /\ d.impl = c.impl /\ d.tx = Len(txs) + 1
        /\ d.confirmed = c.confirmed /\ d.checked = c.checked /\ d.prior = c.prior
        /\ d.before = c.before /\ d.named = c.named /\ d.verdict = c.verdict
    <3>1. Len(txs) + 1 \in Nat
      BY <1>1, Typed
    <3>2. back[Facade(c)] \in Nat
      BY <1>1 DEF TypeOK, Facade, Facades, Address
    <3> QED
      BY <1>2, <3>1, <3>2 DEF Call, Same, Address
  <2>5. Goes(i, d, << >>)
    BY <1>3
  <2> HIDE DEF d
  <2>6. Continues(i, "create", {}) /\ Carried(calls'[i], d)
    BY <1>1, <2>4, <2>5, ContinuedPlainly, Zenon
  <2> QED
    BY <1>1, <1>3, <2>2, <2>3, <2>4, <2>6 DEF Creates, Carried, tx
<1>4. CASE Refuse(i, {}) /\ UNCHANGED txs
  BY <1>1, <1>4, RefusedPlainly DEF Refuse
<1>5. (IF c.name = "deployBeaconProxy" THEN NewTx("beacon-proxy", "-", c.target, 0, 0, i)
       ELSE NewTx(IF c.name = "deployBeacon" THEN "beacon" ELSE c.kind, "-", c.impl, 0, 0, i)) = tx
  BY DEF creation
<1> HIDE DEF tx
<1> QED
  BY <1>3, <1>4, <1>5 DEF Create

\* A call goes out, or the host refuses.
LEMMA SendEffect == ASSUME CoreInv, NEW i, Send(i) PROVE SendsCall(i) \/ Refuses(i, "send")
<1> DEFINE c == calls[i]
           tx == [NewTx(sending(c), "-", c.impl, c.target, c.checked, i) EXCEPT !.owner = c.newOwner]
           d == [c EXCEPT !.tx = Len(txs) + 1]
<1>1. /\ At(i, "send") /\ "send" \in Leg \ {"report"} /\ "send" \in Leg /\ TypeOK /\ LegsInv
      /\ UNCHANGED <<impls, proxies, saved, dropped, crashes, migration>>
  BY DEF Send, Leg, Rank, CoreInv
<1>2. c \in Call /\ c.contract \in Contracts /\ c.outcome = "" /\ i \in DOMAIN calls
  BY <1>1, AtLeg
<1>3. CASE Len(txs) < migration.txs /\ txs' = Append(txs, tx) /\ Goes(i, d, << >>) /\ UNCHANGED <<back, told>>
  <2>1. tx \in Tx /\ tx.by = i /\ tx.status = "pending"
    <3>1. i \in Nat
      <4>1. i \in 1..Len(calls) /\ Len(calls) \in Nat
        BY <1>1, <1>2, Typed
      <4> QED
        BY <4>1
    <3>2. c.impl \in Nat /\ c.target \in Nat /\ c.checked \in Nat /\ c.newOwner \in Owner
      BY <1>2, CallFields
    <3>3. sending(c) \in What
      BY DEF sending, What
    <3> QED
      BY <3>1, <3>2, <3>3 DEF NewTx, Tx, Address, Owner
  <2>2. txs' = Append(txs, tx)
    BY <1>3
  <2> HIDE DEF tx
  <2>3. Sends(i, tx)
    BY <1>1, <2>1, <2>2, GoneOut
  <2>4. /\ d \in Call /\ Same(d, c) /\ d.outcome = "" /\ d.todo = c.todo /\ d.impl = c.impl /\ d.tx = Len(txs) + 1
        /\ d.confirmed = c.confirmed /\ d.checked = c.checked /\ d.prior = c.prior
        /\ d.before = c.before /\ d.named = c.named /\ d.verdict = c.verdict
    <3>1. Len(txs) + 1 \in Nat
      BY <1>1, Typed
    <3> QED
      BY <1>2, <3>1 DEF Call, Same, Address
  <2>5. Goes(i, d, << >>)
    BY <1>3
  <2> HIDE DEF d
  <2>6. Continues(i, "send", {}) /\ Carried(calls'[i], d)
    BY <1>1, <2>4, <2>5, ContinuedPlainly, Zenon
  <2> QED
    BY <1>1, <1>3, <2>3, <2>4, <2>6 DEF SendsCall, Carried, tx
<1>4. CASE Refuse(i, {}) /\ UNCHANGED txs
  BY <1>1, <1>4, RefusedPlainly DEF Refuse
<1> QED
  BY <1>3, <1>4 DEF Send, sending

\* A receipt confirms the transaction, or the operation refuses.
LEMMA ConfirmEffect == ASSUME CoreInv, NEW i, Confirm(i) PROVE Confirms(i) \/ Refuses(i, "confirm")
<1> DEFINE c == calls[i]
           d == [c EXCEPT !.confirmed = TRUE]
<1>1. /\ At(i, "confirm") /\ "confirm" \in Leg \ {"report"} /\ "confirm" \in Leg /\ TypeOK /\ LegsInv
      /\ UNCHANGED <<txs, impls, proxies, saved, dropped, crashes, migration>>
  BY DEF Confirm, Leg, Rank, CoreInv
<1>2. c \in Call /\ Same(c, c) /\ c.outcome = ""
  BY <1>1, AtLeg DEF Same
<1>3. CASE c.tx = 0 /\ Goes(i, c, << >>) /\ UNCHANGED <<back, told>>
  <2>1. Continues(i, "confirm", {}) /\ Carried(calls'[i], c)
    BY <1>1, <1>2, <1>3, ContinuedPlainly, Zenon
  <2> QED
    BY <1>1, <1>3, <2>1 DEF Confirms, Carried
<1>4. CASE c.tx # 0 /\ txs[c.tx].status = "landed" /\ Goes(i, d, << >>) /\ UNCHANGED <<back, told>>
  <2>1. /\ d \in Call /\ Same(d, c) /\ d.outcome = "" /\ d.todo = c.todo /\ d.impl = c.impl /\ d.tx = c.tx
        /\ d.confirmed /\ d.checked = c.checked /\ d.prior = c.prior
        /\ d.before = c.before /\ d.named = c.named /\ d.verdict = c.verdict
    BY <1>2 DEF Call, Same
  <2>2. Goes(i, d, << >>)
    BY <1>4
  <2> HIDE DEF d
  <2>3. Continues(i, "confirm", {}) /\ Carried(calls'[i], d)
    BY <1>1, <2>1, <2>2, ContinuedPlainly, Zenon
  <2> QED
    BY <1>1, <1>4, <2>1, <2>3 DEF Confirms, Carried
<1>5. CASE c.tx # 0 /\ txs[c.tx].status = "reverted" /\ RefuseAs("refused", i, {}, undone(c))
  <2>1. /\ calls' = [calls EXCEPT ![i].todo = << >>, ![i].outcome = "refused"]
        /\ back' = restored(c, undone(c)) /\ told \subseteq told'
    BY <1>5 DEF RefuseAs
  <2>2. Acts(i, "confirm") /\ calls'[i].outcome = "refused" /\ Carried(calls'[i], c)
    BY <1>1, <2>1, Ended
  <2> QED
    BY <1>1, <1>5, <2>1, <2>2 DEF Refuses
<1>6. CASE c.tx # 0 /\ Refuse(i, {c.tx})
  <2>1. /\ calls' = [calls EXCEPT ![i].todo = << >>, ![i].outcome = "refused"]
        /\ back' = restored(c, back) /\ told \subseteq told' /\ c.tx \in told'
    BY <1>6 DEF Refuse, RefuseAs
  <2>2. Acts(i, "confirm") /\ calls'[i].outcome = "refused" /\ Carried(calls'[i], c)
    BY <1>1, <2>1, Ended
  <2> QED
    BY <1>1, <1>6, <2>1, <2>2 DEF Refuses
<1> QED
  BY <1>3, <1>4, <1>5, <1>6 DEF Confirm

\* The chain is read again and holds what was asked for, or the operation refuses.
LEMMA VerifyEffect == ASSUME CoreInv, NEW i, Verify(i) PROVE Verifies(i) \/ Refuses(i, "verify")
<1> DEFINE c == calls[i]
           transfer == c.name = "transferProxyAdminOwnership"
           holds == IF transfer THEN txs[c.target].owner = c.newOwner ELSE txs[c.target].points = c.impl
<1>1. /\ At(i, "verify") /\ "verify" \in Leg \ {"report"} /\ "verify" \in Leg /\ TypeOK /\ LegsInv
      /\ UNCHANGED <<txs, impls, proxies, saved, dropped, crashes, migration>>
  BY DEF Verify, Leg, Rank, CoreInv
<1>2. c \in Call /\ Same(c, c) /\ c.outcome = ""
  BY <1>1, AtLeg DEF Same
<1>3. CASE holds /\ Goes(i, c, << >>) /\ UNCHANGED <<back, told>>
  <2>1. Continues(i, "verify", {}) /\ Carried(calls'[i], c)
    BY <1>1, <1>2, <1>3, ContinuedPlainly, Zenon
  <2> QED
    BY <1>1, <1>3, <2>1 DEF Verifies
<1>4. CASE Refuse(i, {c.tx}) \/ Refuse(i, {})
  BY <1>1, <1>4, RefusedPlainly DEF Refuse
<1> QED
  BY <1>3, <1>4 DEF Verify

\* The record takes the proxy up, needs not, or the write fails.
LEMMA RecordEffect == ASSUME CoreInv, NEW i, Record(i) PROVE Writes(i) \/ Refuses(i, "record")
<1> DEFINE c == calls[i]
           p == subject(c)
           written == [q \in DOMAIN proxies \cup {p} |->
                         IF q = p THEN RecordedKind(txs[p].what) ELSE proxies[q]]
<1>1. /\ At(i, "record") /\ "record" \in Leg \ {"report"} /\ "record" \in Leg /\ TypeOK /\ LegsInv
      /\ UNCHANGED <<txs, impls, saved, dropped, crashes, migration>>
  BY DEF Record, Leg, Rank, CoreInv
<1>2. c \in Call /\ Same(c, c) /\ c.outcome = ""
  BY <1>1, AtLeg DEF Same
<1>3. CASE /\ proxies' = IF records(c) THEN written ELSE proxies
           /\ Goes(i, c, << >>) /\ UNCHANGED <<back, told>>
  <2>1. Continues(i, "record", {}) /\ Carried(calls'[i], c)
    BY <1>1, <1>2, <1>3, ContinuedPlainly, Zenon
  <2> QED
    BY <1>1, <1>3, <2>1 DEF Writes
<1>4. CASE Refuse(i, {c.tx, p}) /\ UNCHANGED proxies
  <2>1. /\ calls' = [calls EXCEPT ![i].todo = << >>, ![i].outcome = "refused"]
        /\ back' = restored(c, back) /\ told \subseteq told' /\ c.tx \in told' /\ p \in told'
    BY <1>4 DEF Refuse, RefuseAs
  <2>2. Acts(i, "record") /\ calls'[i].outcome = "refused" /\ Carried(calls'[i], c)
    BY <1>1, <2>1, Ended
  <2> HIDE DEF written
  <2> QED
    BY <1>1, <1>4, <2>1, <2>2 DEF Refuses
<1>5. CASE c.name \in {"upgradeProxy", "forceImport"} /\ Refuse(i, {}) /\ UNCHANGED proxies
  <2>1. /\ calls' = [calls EXCEPT ![i].todo = << >>, ![i].outcome = "refused"]
        /\ back' = restored(c, back) /\ told \subseteq told'
    BY <1>5 DEF Refuse, RefuseAs
  <2>2. Acts(i, "record") /\ calls'[i].outcome = "refused" /\ Carried(calls'[i], c)
    BY <1>1, <2>1, Ended
  <2> HIDE DEF written
  <2> QED
    BY <1>1, <1>5, <2>1, <2>2 DEF Refuses
<1> QED
  BY <1>3, <1>4, <1>5 DEF Record

\* The user's artifact names the proxy.
LEMMA WriteBackEffect == ASSUME CoreInv, NEW i, WriteBack(i) PROVE WritesBack(i)
<1> DEFINE c == calls[i]
<1>1. /\ At(i, "writeBack") /\ "writeBack" \in Leg \ {"report"} /\ TypeOK /\ LegsInv /\ Goes(i, c, << >>)
      /\ UNCHANGED <<txs, impls, proxies, saved, told, dropped, crashes, migration>>
  BY DEF WriteBack, Leg, Rank, CoreInv
<1>2. c \in Call /\ Same(c, c) /\ c.outcome = ""
  BY <1>1, AtLeg DEF Same
<1>3. Continues(i, "writeBack", {}) /\ Carried(calls'[i], c)
  BY <1>1, <1>2, ContinuedPlainly, Zenon
<1> QED
  BY <1>1, <1>3 DEF WritesBack, WriteBack

\* The operation returns its result, or attaching to it fails.
LEMMA ReportEffect == ASSUME CoreInv, NEW i, Report(i) PROVE Reports(i) \/ Refuses(i, "report")
<1> DEFINE c == calls[i]
<1>1. /\ At(i, "report") /\ "report" \in Leg /\ TypeOK /\ LegsInv
      /\ UNCHANGED <<txs, impls, proxies, saved, dropped, crashes, migration>>
  BY DEF Report, Leg, Rank, CoreInv
<1>2. CASE /\ calls' = [calls EXCEPT ![i].todo = << >>, ![i].outcome = "ok"]
           /\ told' = told \cup ({c.tx, c.impl} \ {0}) /\ UNCHANGED back
  <2>1. Acts(i, "report") /\ calls'[i].outcome = "ok" /\ Carried(calls'[i], c)
    BY <1>1, <1>2, Ended
  <2> QED
    BY <1>1, <1>2, <2>1 DEF Reports
<1>3. CASE /\ c.name \notin {"deployImplementation", "prepareUpgrade", "transferProxyAdminOwnership"}
           /\ Refuse(i, {})
  <2>1. /\ calls' = [calls EXCEPT ![i].todo = << >>, ![i].outcome = "refused"]
        /\ back' = restored(c, back) /\ told \subseteq told'
    BY <1>3 DEF Refuse, RefuseAs
  <2>2. Acts(i, "report") /\ calls'[i].outcome = "refused" /\ Carried(calls'[i], c)
    BY <1>1, <2>1, Ended
  <2> QED
    BY <1>1, <1>3, <2>1, <2>2 DEF Refuses, Standalone
<1> QED
  BY <1>2, <1>3 DEF Report

\* Every step of a call is one of them.
LEMMA Effects ==
  ASSUME CoreInv, NEW i, Step(i)
  PROVE  StepEffect(i) /\ UNCHANGED <<saved, crashes, migration>>
<1>1. StepEffect(i)
  <2>1. \A leg \in {"open", "check", "fetch", "mine", "create", "send", "confirm", "verify", "record", "report"} :
          leg \in Leg
    BY DEF Leg, Rank
  <2> QED
    BY <2>1, OpenEffect, CheckEffect, FetchEffect, StoreEffect, MineEffect, CreateEffect, SendEffect,
       ConfirmEffect, VerifyEffect, RecordEffect, WriteBackEffect, ReportEffect DEF Step, StepEffect
<1>2. UNCHANGED <<saved, crashes, migration>>
  BY DEF Step, Open, Check, Fetch, Store, Mine, Create, Send, Confirm, Verify, Record, WriteBack, Report
<1> QED
  BY <1>1, <1>2

-----------------------------------------------------------------------------
(* What the other steps do *)

\* A call is made: it has everything ahead of it and carries nothing.
Called(new) ==
  LET d == calls'[new]
  IN /\ new \notin DOMAIN calls /\ DOMAIN calls' = DOMAIN calls \cup {new}
     /\ \A j \in DOMAIN calls : calls'[j] = calls[j]
     /\ ~Settled(new)' /\ {"open", "check", "report"} \subseteq Legs(new)'
     /\ d.name \in Operation /\ Elements(Pipeline[d.name]) \subseteq Legs(new)'
     /\ Legs(new)' \cap {"store", "mine"} = {}
     /\ d.outcome = "" /\ d.tx = 0 /\ d.impl = 0 /\ ~d.confirmed
     /\ (d.name = "transferProxyAdminOwnership") = (d.newOwner # "sender")
     /\ UNCHANGED <<txs, impls, proxies, back, saved, told, dropped>>

\* A verdict on a transaction.
Judges(t, status) ==
  /\ t \in DOMAIN txs /\ txs[t].status = "pending" /\ TxsStable /\ DOMAIN txs' = DOMAIN txs
  /\ \A u \in DOMAIN txs : txs'[u].status = IF u = t THEN status ELSE txs[u].status
  /\ UNCHANGED <<impls, proxies, back, saved, calls, told, dropped>>

\* It executes, on the proxy or the beacon it goes to if it is an upgrade or a transfer.
Lands(t) ==
  LET to(what, u) == txs[t].what = what /\ u = txs[t].at
  IN /\ Judges(t, "landed")
     /\ txs[t].at # 0 => txs[txs[t].at].owner = "sender"
     /\ \A u \in DOMAIN txs :
          /\ txs'[u].points = IF to("upgrade", u) THEN txs[t].points ELSE txs[u].points
          /\ txs'[u].owner = IF to("transfer", u) THEN txs[t].owner ELSE txs[u].owner
          /\ txs'[u].replaced = IF txs[t].what = "upgrade" /\ u = t THEN txs[txs[t].at].points
                                ELSE txs[u].replaced

\* It fails, or is never included.
Fails(t) ==
  /\ Judges(t, "reverted")
  /\ \A u \in DOMAIN txs : /\ txs'[u].points = txs[u].points /\ txs'[u].owner = txs[u].owner
                           /\ txs'[u].replaced = txs[u].replaced

Saves ==
  /\ \A i \in DOMAIN calls : Settled(i)
  /\ saved' = back /\ UNCHANGED <<txs, impls, proxies, back, calls, told, dropped>>

Dies ==
  /\ DOMAIN calls' = DOMAIN calls /\ \A i \in DOMAIN calls : Settled(i) => calls'[i] = calls[i]
  /\ \A i \in DOMAIN calls : ~Settled(i) =>
       calls'[i].outcome = "crashed" /\ Same(calls'[i], calls[i]) /\ Carried(calls'[i], calls[i])
  /\ back' = saved /\ UNCHANGED <<txs, impls, proxies, saved, told, dropped>>

\* One step of the system, as the lemmas below take it apart.
Event ==
  \/ \E i \in DOMAIN calls : StepEffect(i) /\ UNCHANGED saved
  \/ \E new \in Nat : Called(new)
  \/ \E t \in DOMAIN txs : Lands(t) \/ Fails(t)
  \/ Saves \/ Dies
  \/ UNCHANGED <<txs, impls, proxies, back, saved, calls, told, dropped>>

\* A call that is made is a Called step.
LEMMA CallEffect ==
  ASSUME CoreInv, NEW name \in migration.operations, NEW c \in migration.contracts,
         NEW kind \in migration.kinds, NEW redeploy \in migration.redeploys,
         NEW a \in {0} \cup DOMAIN txs, NEW o \in Owner,
         (name = "transferProxyAdminOwnership") = (o # "sender"),
         CallOperation(name, c, kind, redeploy, a, o)
  PROVE  \E new \in Nat : Called(new)
<1> DEFINE todo == <<"open">> \o Pipeline[name]
           d == [name |-> name, contract |-> c, kind |-> kind, redeploy |-> redeploy, target |-> a,
                 newOwner |-> o, todo |-> todo, outcome |-> "", named |-> 0, verdict |-> "none", prior |-> 0,
                 priorFacade |-> 0, impl |-> 0, tx |-> 0, checked |-> 0, retried |-> FALSE,
                 confirmed |-> FALSE, before |-> 0]
<1>1. TypeOK
  BY DEF CoreInv
<1>2. PICK new \in Nat : new = Len(calls) + 1
  BY <1>1, Typed
<1>3. name \in Operation /\ c \in Contracts /\ kind \in {"transparent", "uups"} /\ redeploy \in {"onchange", "always", "never"}
  BY <1>1, OperationsAssumption DEF TypeOK, Migration
<1>4. LegsAhead(name, todo) /\ Elements(todo) = {"open"} \cup Elements(Pipeline[name])
  BY <1>3, CallBegins
<1>5. {"check", "report"} \subseteq Elements(todo) /\ Elements(todo) \cap {"store", "mine"} = {}
  BY <1>3, <1>4, NotBegun
<1>6. a \in Nat
  BY <1>1, Typed
<1>7. /\ calls' = Append(calls, d) /\ UNCHANGED <<txs, impls, proxies, back, saved, told, dropped>>
  BY DEF CallOperation
<1> HIDE DEF todo
<1>8. /\ d \in Call /\ d.name = name /\ d.todo = todo /\ d.outcome = "" /\ d.newOwner = o
      /\ d.impl = 0 /\ d.tx = 0 /\ ~d.confirmed
  <2>1. Leg = QueuedLegs \cup {"open", "check", "writeBack", "report"}
    BY DEF Leg, Rank, QueuedLegs
  <2>2. todo \in Seq(QueuedLegs \cup {"open", "check", "writeBack", "report"})
    BY <1>4, <2>1 DEF LegsAhead
  <2> QED
    BY <1>3, <1>6, <2>2 DEF Call, Address
<1> HIDE DEF d
<1>9. /\ DOMAIN calls' = DOMAIN calls \cup {new} /\ new \notin DOMAIN calls /\ calls'[new] = d
      /\ \A j \in DOMAIN calls : calls'[j] = calls[j]
  <2>1. calls \in Seq(Call) /\ DOMAIN calls = 1..Len(calls) /\ Len(calls) \in Nat
    BY <1>1, Typed DEF TypeOK
  <2>2. /\ calls' \in Seq(Call) /\ Len(calls') = new /\ calls'[new] = d
        /\ \A j \in 1..Len(calls) : calls'[j] = calls[j]
    <3>1. calls' = Append(calls, d) /\ d \in Call
      BY <1>7, <1>8
    <3> QED
      BY <1>2, <2>1, <3>1, AppendProperties
  <2>3. DOMAIN calls' = 1..new
    BY <2>2, LenProperties
  <2>4. 1..new = (1..Len(calls)) \cup {new} /\ new \notin 1..Len(calls)
    BY <1>2, <2>1
  <2> QED
    BY <2>1, <2>2, <2>3, <2>4
<1> QED
  BY <1>3, <1>4, <1>5, <1>7, <1>8, <1>9 DEF Called, Settled, Legs

\* A transaction that executes is a Lands step.
LEMMA LandEffect == ASSUME CoreInv, NEW t \in DOMAIN txs, Land(t) PROVE Lands(t)
<1> DEFINE a == txs[t].at
           done == [txs[t] EXCEPT !.status = "landed"]
           placed == [txs[t] EXCEPT !.status = "landed", !.replaced = txs[a].points]
           moved == [txs[a] EXCEPT !.points = txs[t].points]
           given == [txs[a] EXCEPT !.owner = txs[t].owner]
<1>1. TypeOK /\ ChainInv /\ txs \in Seq(Tx) /\ txs[t] \in Tx
  BY Typed DEF CoreInv, TypeOK
<1>2. txs \in [DOMAIN txs -> Tx]
  BY <1>1, LenProperties
<1>8. Len(txs) \in Nat /\ Len(txs) <= Len(txs)
  BY <1>1, Typed
<1>3. /\ UNCHANGED <<impls, proxies, back, saved, calls, told, dropped>> /\ txs[t].status = "pending"
      /\ a # 0 => txs[a].owner = "sender"
  BY DEF Land
<1>4. CASE txs[t].what = "upgrade"
  <2>1. Is(a, Upgradeable) /\ a \in DOMAIN txs /\ a # t /\ txs[a] \in Tx
    BY <1>1, <1>4, Typed DEF ChainInv, Is, Created, Upgradeable, ProxyWhats
  <2>2. txs' = [[txs EXCEPT ![t] = placed] EXCEPT ![a] = moved]
    BY <1>1, <1>2, <1>4, <2>1 DEF Land, Tx
  <2>3. placed \in Tx /\ moved \in Tx
    BY <1>1, <2>1 DEF Tx
  <2>4. /\ Len(txs') = Len(txs) /\ DOMAIN txs' = DOMAIN txs /\ txs'[a] = moved /\ txs'[t] = placed
        /\ \A u \in DOMAIN txs : u # t /\ u # a => txs'[u] = txs[u]
    BY <1>1, <2>1, <2>2, <2>3, Judged
  <2>5. /\ placed.status = "landed" /\ placed.points = txs[t].points /\ placed.owner = txs[t].owner
        /\ placed.replaced = txs[a].points
        /\ moved.status = txs[a].status /\ moved.points = txs[t].points /\ moved.owner = txs[a].owner
        /\ moved.replaced = txs[a].replaced
        /\ StillThat(moved, txs[a]) /\ StillThat(placed, txs[t])
    BY <1>1, <1>3, <2>1 DEF Tx, StillThat
  <2> HIDE DEF moved, placed
  <2>6. TxsStable
    BY <1>8, <2>1, <2>4, <2>5 DEF TxsStable, StillThat
  <2> QED
    BY <1>3, <1>4, <2>1, <2>4, <2>5, <2>6 DEF Lands, Judges
<1>5. CASE txs[t].what = "transfer"
  <2>1. a \in DOMAIN txs /\ a # t /\ txs[a] \in Tx
    BY <1>1, <1>5, Typed DEF ChainInv, Is, Created
  <2>2. txs' = [[txs EXCEPT ![t] = done] EXCEPT ![a] = given]
    BY <1>1, <1>2, <1>5, <2>1 DEF Land, Tx
  <2>3. done \in Tx /\ given \in Tx
    BY <1>1, <2>1 DEF Tx
  <2>4. /\ Len(txs') = Len(txs) /\ DOMAIN txs' = DOMAIN txs /\ txs'[a] = given /\ txs'[t] = done
        /\ \A u \in DOMAIN txs : u # t /\ u # a => txs'[u] = txs[u]
    BY <1>1, <2>1, <2>2, <2>3, Judged
  <2>5. /\ done.status = "landed" /\ done.points = txs[t].points /\ done.owner = txs[t].owner
        /\ done.replaced = txs[t].replaced
        /\ given.status = txs[a].status /\ given.points = txs[a].points /\ given.owner = txs[t].owner
        /\ given.replaced = txs[a].replaced
        /\ StillThat(given, txs[a]) /\ StillThat(done, txs[t])
    BY <1>1, <1>3, <2>1 DEF Tx, StillThat
  <2> HIDE DEF given, done
  <2>6. TxsStable
    BY <1>8, <2>1, <2>4, <2>5 DEF TxsStable, StillThat
  <2> QED
    BY <1>3, <1>5, <2>1, <2>4, <2>5, <2>6 DEF Lands, Judges
<1>6. CASE txs[t].what \notin {"upgrade", "transfer"}
  <2>1. txs' = [[txs EXCEPT ![t] = done] EXCEPT ![t] = done]
    BY <1>1, <1>2, <1>6 DEF Land, Tx
  <2>2. done \in Tx
    BY <1>1 DEF Tx
  <2>3. txs' \in Seq(Tx) /\ Len(txs') = Len(txs) /\ DOMAIN txs' = DOMAIN txs /\ txs'[t] = done /\ \A u \in DOMAIN txs : u # t => txs'[u] = txs[u]
    BY <1>1, <2>1, <2>2, Judged
  <2>4. /\ done.status = "landed" /\ done.points = txs[t].points /\ done.owner = txs[t].owner
        /\ done.replaced = txs[t].replaced /\ StillThat(done, txs[t])
    BY <1>1, <1>3 DEF Tx, StillThat
  <2> HIDE DEF done
  <2>5. TxsStable
    BY <1>8, <2>3, <2>4 DEF TxsStable, StillThat
  <2> QED
    BY <1>3, <1>6, <2>3, <2>4, <2>5 DEF Lands, Judges
<1> QED
  BY <1>4, <1>5, <1>6

\* One that fails is a Fails step.
LEMMA FailEffect == ASSUME CoreInv, NEW t \in DOMAIN txs, Fail(t) PROVE Fails(t)
<1> DEFINE lost == [txs[t] EXCEPT !.status = "reverted"]
<1>1. TypeOK /\ txs \in Seq(Tx) /\ txs[t] \in Tx
  BY Typed DEF CoreInv, TypeOK
<1>2. txs \in [DOMAIN txs -> Tx]
  BY <1>1, LenProperties
<1>3. UNCHANGED <<impls, proxies, back, saved, calls, told, dropped>> /\ txs[t].status = "pending"
  BY DEF Fail
<1>4. txs' = [[txs EXCEPT ![t] = lost] EXCEPT ![t] = lost]
  BY <1>1, <1>2 DEF Fail, Tx
<1>5. lost \in Tx
  BY <1>1 DEF Tx
<1>6. Len(txs') = Len(txs) /\ DOMAIN txs' = DOMAIN txs /\ txs'[t] = lost /\ \A u \in DOMAIN txs : u # t => txs'[u] = txs[u]
  BY <1>1, <1>4, <1>5, Judged
<1>7. /\ lost.status = "reverted" /\ lost.points = txs[t].points /\ lost.owner = txs[t].owner
      /\ lost.replaced = txs[t].replaced /\ StillThat(lost, txs[t])
  BY <1>1, <1>3 DEF Tx, StillThat
<1> HIDE DEF lost
<1>8. Len(txs) \in Nat /\ Len(txs) <= Len(txs)
  BY <1>1, Typed
<1>9. TxsStable
  BY <1>6, <1>7, <1>8 DEF TxsStable, StillThat
<1> QED
  BY <1>3, <1>6, <1>7, <1>9 DEF Fails, Judges

\* A run that dies is a Dies step.
LEMMA CrashEffect == ASSUME CoreInv, Crash PROVE Dies
<1>1. /\ DOMAIN calls' = DOMAIN calls
      /\ \A i \in DOMAIN calls : calls'[i] =
           IF Settled(i) THEN calls[i] ELSE [calls[i] EXCEPT !.todo = << >>, !.outcome = "crashed"]
  BY DEF Crash
<1>2. ASSUME NEW i \in DOMAIN calls, ~Settled(i)
      PROVE  calls'[i].outcome = "crashed" /\ Same(calls'[i], calls[i]) /\ Carried(calls'[i], calls[i])
  <2> DEFINE d == [calls[i] EXCEPT !.todo = << >>, !.outcome = "crashed"]
  <2>1. calls[i] \in Call
    BY Typed DEF CoreInv
  <2>2. d.outcome = "crashed" /\ Same(d, calls[i]) /\ Carried(d, calls[i])
    BY <2>1 DEF Call, Same, Carried
  <2>3. calls'[i] = d
    BY <1>1, <1>2
  <2> HIDE DEF d
  <2> QED
    BY <2>2, <2>3
<1> QED
  BY <1>1, <1>2 DEF Crash, Dies

\* Every step of the specification is an Event, and keeps what the proofs start from.
LEMMA Events == ASSUME CoreInv, [Next]_vars PROVE Event /\ CoreInv'
<1>1. CoreInv'
  BY NextCore
<1>2. ASSUME NEW name \in migration.operations, NEW c \in migration.contracts,
             NEW kind \in migration.kinds, NEW redeploy \in migration.redeploys,
             NEW a \in {0} \cup DOMAIN txs, NEW o \in Owner,
             (name = "transferProxyAdminOwnership") = (o # "sender"),
             CallOperation(name, c, kind, redeploy, a, o)
      PROVE  Event
  BY <1>2, CallEffect DEF Event
<1>3. ASSUME NEW i \in DOMAIN calls, Step(i) PROVE Event
  BY <1>3, Effects DEF Event
<1>4. ASSUME NEW t \in DOMAIN txs, Land(t) \/ Fail(t) PROVE Event
  BY <1>4, LandEffect, FailEffect DEF Event
<1>5. CASE Save
  BY <1>1, <1>5 DEF Save, Saves, Event
<1>6. CASE Crash
  BY <1>1, <1>6, CrashEffect DEF Event
<1>7. CASE UNCHANGED vars
  BY <1>1, <1>7 DEF vars, Event
<1> QED
  BY <1>1, <1>2, <1>3, <1>4, <1>5, <1>6, <1>7 DEF Next

\* What is there before the first call was deployed by nobody known.
LEMMA AtFirst ==
  ASSUME Init
  PROVE  \A t \in DOMAIN txs : txs[t].by = 0 /\ txs[t].what \in {"implementation", "uups"}
<1>1. CASE txs = << >>
  BY <1>1
<1>2. CASE \E c \in migration.foreign : txs = foreign(c)
  <2>1. PICK c \in migration.foreign : txs = foreign(c)
    BY <1>2
  <2> DEFINE one == [NewTx("implementation", c, 0, 0, 0, 0) EXCEPT !.status = "landed"]
             two == [NewTx("uups", "-", 1, 0, 0, 0) EXCEPT !.status = "landed"]
  <2>2. one.by = 0 /\ one.what = "implementation" /\ two.by = 0 /\ two.what = "uups"
    BY DEF NewTx
  <2>3. txs = <<one, two>>
    BY <2>1 DEF foreign
  <2> HIDE DEF one, two
  <2>4. DOMAIN txs = {1, 2} /\ txs[1] = one /\ txs[2] = two
    BY <2>3
  <2> QED
    BY <2>2, <2>4
<1> QED
  BY <1>1, <1>2 DEF Init

-----------------------------------------------------------------------------
(* What no step takes away *)

\* The history only grows: transactions, settled calls, the proxies of the record, what
\* was named and what was dropped.
Grows ==
  /\ TxsStable /\ told \subseteq told' /\ dropped \subseteq dropped'
  /\ DOMAIN proxies \subseteq DOMAIN proxies' /\ DOMAIN calls \subseteq DOMAIN calls'
  /\ \A j \in DOMAIN calls : Same(calls'[j], calls[j]) /\ (Settled(j) => calls'[j] = calls[j])

\* A call that acts leaves the others as they are.
LEMMA ActsAlone ==
  ASSUME NEW i, NEW leg, Acts(i, leg)
  PROVE  /\ i \in DOMAIN calls /\ ~Settled(i) /\ DOMAIN calls' = DOMAIN calls
         /\ \A j \in DOMAIN calls : Same(calls'[j], calls[j]) /\ (Settled(j) => calls'[j] = calls[j])
         /\ \A j \in DOMAIN calls : j # i =>
              calls'[j] = calls[j] /\ Legs(j)' = Legs(j) /\ (Settled(j)' <=> Settled(j))
BY DEF Acts, Same, Legs, Settled

\* Every step of a call is one of it alone.
LEMMA StepActs ==
  ASSUME NEW i \in DOMAIN calls, StepEffect(i)
  PROVE  \E leg \in Leg : Acts(i, leg)
<1>1. {"open", "check", "fetch", "store", "mine", "create", "send", "confirm", "verify", "record",
       "writeBack", "report"} \subseteq Leg
  BY DEF Leg, Rank
<1>2. CASE Opens(i) \/ Skips(i) \/ Checks(i) \/ Stores(i)
  BY <1>1, <1>2 DEF Opens, Skips, Checks, Stores, Continues
<1>3. CASE Fetches(i)
  BY <1>1, <1>3 DEF Fetches, Continues
<1>4. CASE Mines(i)
  BY <1>1, <1>4 DEF Mines, Continues
<1>5. CASE Creates(i) \/ SendsCall(i) \/ Confirms(i) \/ Verifies(i)
  BY <1>1, <1>5 DEF Creates, SendsCall, Confirms, Verifies, Continues
<1>6. CASE Writes(i) \/ WritesBack(i) \/ Reports(i)
  BY <1>1, <1>6 DEF Writes, WritesBack, Reports, Continues
<1>7. CASE \E leg \in Leg : Refuses(i, leg)
  BY <1>7 DEF Refuses
<1> QED
  BY <1>2, <1>3, <1>4, <1>5, <1>6, <1>7 DEF StepEffect

\* The chain after a transaction was sent.
LEMMA SentStable == ASSUME TypeOK, NEW i, NEW tx, Sends(i, tx) PROVE TxsStable
BY Sent DEF Sends

\* A step of a call loses nothing of the chain, of what was told and of the settled calls.
LEMMA StepGrows == ASSUME CoreInv, NEW i \in DOMAIN calls, StepEffect(i) PROVE Grows
<1>1. TypeOK
  BY DEF CoreInv
<1>2. /\ DOMAIN calls' = DOMAIN calls
      /\ \A j \in DOMAIN calls : Same(calls'[j], calls[j]) /\ (Settled(j) => calls'[j] = calls[j])
  BY StepActs, ActsAlone
<1>3. TxsStable /\ told \subseteq told' /\ dropped \subseteq dropped' /\ DOMAIN proxies \subseteq DOMAIN proxies'
  <2>1. CASE Opens(i) \/ Skips(i) \/ Checks(i) \/ Stores(i)
    BY <1>1, <2>1, TxsUnchanged DEF Opens, Skips, Checks, Stores
  <2>2. CASE Fetches(i)
    BY <1>1, <2>2, TxsUnchanged, SentStable DEF Fetches
  <2>3. CASE Mines(i)
    BY <1>1, <2>3, TxsUnchanged DEF Mines, Forgets
  <2>4. CASE Creates(i) \/ SendsCall(i)
    BY <1>1, <2>4, SentStable DEF Creates, SendsCall
  <2>5. CASE Confirms(i) \/ Verifies(i) \/ WritesBack(i) \/ Reports(i)
    BY <1>1, <2>5, TxsUnchanged DEF Confirms, Verifies, WritesBack, Reports
  <2>6. CASE Writes(i)
    BY <1>1, <2>6, TxsUnchanged DEF Writes
  <2>7. CASE \E leg \in Leg : Refuses(i, leg)
    BY <1>1, <2>7, TxsUnchanged DEF Refuses, Forgets
  <2> QED
    BY <2>1, <2>2, <2>3, <2>4, <2>5, <2>6, <2>7 DEF StepEffect
<1> QED
  BY <1>2, <1>3 DEF Grows

\* No event does.
LEMMA EventGrows == ASSUME CoreInv, Event PROVE Grows
<1>1. TypeOK
  BY DEF CoreInv
<1>2. CASE \E new \in Nat : Called(new)
  BY <1>1, <1>2, TxsUnchanged DEF Called, Grows, Same
<1>3. CASE \E t \in DOMAIN txs : Lands(t) \/ Fails(t)
  BY <1>3 DEF Lands, Fails, Judges, Grows, Same
<1>4. CASE Dies
  BY <1>1, <1>4, TxsUnchanged DEF Dies, Grows, Same
<1>5. CASE Saves \/ UNCHANGED <<txs, impls, proxies, back, saved, calls, told, dropped>>
  BY <1>1, <1>5, TxsUnchanged DEF Saves, Grows, Same
<1> QED
  BY <1>2, <1>3, <1>4, <1>5, StepGrows DEF Event

-----------------------------------------------------------------------------
(* Transfers *)

\* The owner the chain has given away stays; only the sender's admin is transferred.
TransferInv ==
  \A i \in DOMAIN calls : calls[i].name = "transferProxyAdminOwnership" =>
    /\ calls[i].newOwner # "sender"
    /\ calls[i].outcome = "ok" \/ (~Settled(i) /\ "verify" \notin Legs(i)) =>
         txs[calls[i].target].owner = calls[i].newOwner

\* Who owns the admin of a proxy given away does not change again: the sender has lost it.
LEMMA OwnerStays ==
  ASSUME CoreInv, Event, NEW u \in DOMAIN txs, txs[u].owner # "sender"
  PROVE  u \in DOMAIN txs' /\ txs'[u].owner = txs[u].owner
<1>1. TypeOK /\ ChainInv
  BY DEF CoreInv
<1>2. CASE UNCHANGED txs
  BY <1>2
<1>3. ASSUME NEW i, NEW tx, Sends(i, tx) PROVE u \in DOMAIN txs' /\ txs'[u].owner = txs[u].owner
  BY <1>3 DEF Sends
<1>4. ASSUME NEW t \in DOMAIN txs, Lands(t) PROVE u \in DOMAIN txs' /\ txs'[u].owner = txs[u].owner
  <2>1. txs[t].what = "transfer" => txs[t].at \in DOMAIN txs /\ txs[t].at # 0
    BY <1>1, Typed DEF ChainInv, Is, Created
  <2> QED
    BY <1>4, <2>1 DEF Lands, Judges
<1>5. ASSUME NEW t \in DOMAIN txs, Fails(t) PROVE u \in DOMAIN txs' /\ txs'[u].owner = txs[u].owner
  BY <1>5 DEF Fails, Judges
<1>6. ASSUME NEW i \in DOMAIN calls, StepEffect(i) PROVE u \in DOMAIN txs' /\ txs'[u].owner = txs[u].owner
  <2>1. CASE Opens(i) \/ Skips(i) \/ Checks(i) \/ Stores(i) \/ Mines(i)
    BY <1>2, <2>1 DEF Opens, Skips, Checks, Stores, Mines
  <2>2. CASE Fetches(i)
    BY <1>2, <1>3, <2>2 DEF Fetches
  <2>3. CASE Creates(i) \/ SendsCall(i)
    BY <1>3, <2>3 DEF Creates, SendsCall
  <2>4. CASE Confirms(i) \/ Verifies(i) \/ WritesBack(i) \/ Reports(i) \/ Writes(i)
    BY <1>2, <2>4 DEF Confirms, Verifies, WritesBack, Reports, Writes
  <2>5. CASE \E leg \in Leg : Refuses(i, leg)
    BY <1>2, <2>5 DEF Refuses
  <2> QED
    BY <1>6, <2>1, <2>2, <2>3, <2>4, <2>5 DEF StepEffect
<1>7. CASE Saves \/ Dies \/ \E new \in Nat : Called(new)
  BY <1>2, <1>7 DEF Saves, Dies, Called
<1> QED
  BY <1>2, <1>4, <1>5, <1>6, <1>7 DEF Event

\* The call that acts has seen its new owner on the chain when it ends or is past its check.
LEMMA TransferActs ==
  ASSUME CoreInv, TransferInv, NEW i \in DOMAIN calls, StepEffect(i),
         calls[i].name = "transferProxyAdminOwnership",
         calls'[i].outcome = "ok" \/ (~Settled(i)' /\ "verify" \notin Legs(i)')
  PROVE  txs[calls[i].target].owner = calls[i].newOwner
<1>1. ~Settled(i) /\ TypeOK /\ LegsInv
  BY StepActs, ActsAlone DEF CoreInv
<1>2. "verify" \notin Legs(i) => txs[calls[i].target].owner = calls[i].newOwner
  BY <1>1 DEF TransferInv
<1>3. ASSUME NEW leg, leg # "verify", NEW more, Continues(i, leg, more)
      PROVE  "verify" \notin Legs(i)
  BY <1>3 DEF Continues, Settled
<1>4. CASE Opens(i) \/ Checks(i) \/ Stores(i)
  BY <1>2, <1>3, <1>4 DEF Opens, Checks, Stores
<1>5. CASE Skips(i)
  BY <1>5 DEF Skips, alreadyHeld
<1>6. CASE Fetches(i)
  BY <1>2, <1>3, <1>6 DEF Fetches
<1>7. CASE Mines(i)
  BY <1>2, <1>3, <1>7 DEF Mines
<1>8. CASE Creates(i) \/ SendsCall(i) \/ Confirms(i) \/ Writes(i) \/ WritesBack(i)
  BY <1>2, <1>3, <1>8 DEF Creates, SendsCall, Confirms, Writes, WritesBack
<1>9. CASE Verifies(i)
  BY <1>9 DEF Verifies
<1>10. CASE Reports(i)
  <2>1. At(i, "report") /\ "report" \in Leg
    BY <1>10 DEF Reports, Acts, Leg, Rank
  <2> QED
    BY <1>1, <1>2, <2>1, Ahead
<1>11. CASE \E leg \in Leg : Refuses(i, leg)
  BY <1>11 DEF Refuses, Settled
<1> QED
  BY <1>4, <1>5, <1>6, <1>7, <1>8, <1>9, <1>10, <1>11 DEF StepEffect

\* Every event keeps what transfers know.
LEMMA TransferNext == ASSUME CoreInv, TransferInv, Event PROVE TransferInv'
<1> SUFFICES ASSUME NEW j \in DOMAIN calls', calls'[j].name = "transferProxyAdminOwnership"
             PROVE  /\ calls'[j].newOwner # "sender"
                    /\ calls'[j].outcome = "ok" \/ (~Settled(j)' /\ "verify" \notin Legs(j)') =>
                         txs'[calls'[j].target].owner = calls'[j].newOwner
  BY DEF TransferInv
<1>1. Grows
  BY EventGrows
<1>2. ASSUME j \in DOMAIN calls
      PROVE  /\ calls[j].name = "transferProxyAdminOwnership" /\ calls'[j].target = calls[j].target
             /\ calls'[j].newOwner = calls[j].newOwner /\ calls[j].newOwner # "sender"
             /\ txs[calls[j].target].owner = calls[j].newOwner =>
                  txs'[calls[j].target].owner = calls[j].newOwner
  <2>1. /\ calls[j].name = "transferProxyAdminOwnership" /\ calls'[j].target = calls[j].target
        /\ calls'[j].newOwner = calls[j].newOwner
    BY <1>1, <1>2 DEF Grows, Same
  <2>2. calls[j].newOwner # "sender"
    BY <1>2, <2>1 DEF TransferInv
  <2>3. calls[j].target \in DOMAIN txs
    BY <1>2, <2>1 DEF CoreInv, CallInv, CallFacts, Names, Targeted
  <2> QED
    BY <2>1, <2>2, <2>3, OwnerStays
<1>3. ASSUME j \in DOMAIN calls, calls'[j] = calls[j]
      PROVE  calls'[j].outcome = "ok" \/ (~Settled(j)' /\ "verify" \notin Legs(j)') =>
               txs'[calls'[j].target].owner = calls'[j].newOwner
  BY <1>2, <1>3 DEF TransferInv, Settled, Legs
<1>4. ASSUME NEW i \in DOMAIN calls, StepEffect(i)
      PROVE  calls'[j].outcome = "ok" \/ (~Settled(j)' /\ "verify" \notin Legs(j)') =>
               txs'[calls'[j].target].owner = calls'[j].newOwner
  <2>1. DOMAIN calls' = DOMAIN calls /\ (j # i => calls'[j] = calls[j])
    BY <1>4, StepActs, ActsAlone
  <2>2. ASSUME j = i, calls'[j].outcome = "ok" \/ (~Settled(j)' /\ "verify" \notin Legs(j)')
        PROVE  txs[calls[j].target].owner = calls[j].newOwner
    BY <1>2, <1>4, <2>1, <2>2, TransferActs
  <2> QED
    BY <1>2, <1>3, <2>1, <2>2
<1>5. ASSUME NEW new \in Nat, Called(new)
      PROVE  /\ calls'[j].newOwner # "sender"
             /\ calls'[j].outcome = "ok" \/ (~Settled(j)' /\ "verify" \notin Legs(j)') =>
                  txs'[calls'[j].target].owner = calls'[j].newOwner
  <2>1. CASE j \in DOMAIN calls
    BY <1>2, <1>3, <1>5, <2>1 DEF Called
  <2>2. CASE j \notin DOMAIN calls
    <3>1. j = new /\ calls'[j].newOwner # "sender" /\ calls'[j].outcome = "" /\ ~Settled(j)'
            /\ Elements(Pipeline[calls'[j].name]) \subseteq Legs(j)' /\ calls'[j].name \in Operation
      BY <1>5, <2>2 DEF Called
    <3>2. "verify" \in Legs(j)'
      BY <3>1, Pipelines
    <3> QED
      BY <3>1, <3>2
  <2> QED
    BY <2>1, <2>2
<1>6. ASSUME Dies
      PROVE  j \in DOMAIN calls /\ (calls'[j].outcome = "ok" \/ (~Settled(j)' /\ "verify" \notin Legs(j)') =>
               txs'[calls'[j].target].owner = calls'[j].newOwner)
  BY <1>3, <1>6 DEF Dies, Settled
<1>7. ASSUME UNCHANGED calls
      PROVE  j \in DOMAIN calls /\ (calls'[j].outcome = "ok" \/ (~Settled(j)' /\ "verify" \notin Legs(j)') =>
               txs'[calls'[j].target].owner = calls'[j].newOwner)
  BY <1>3, <1>7
<1>8. DOMAIN calls' = DOMAIN calls \/ \E new \in Nat : Called(new)
  <2>1. (\E i \in DOMAIN calls : StepEffect(i)) => DOMAIN calls' = DOMAIN calls
    BY StepActs, ActsAlone
  <2> QED
    BY <2>1 DEF Event, Lands, Fails, Judges, Saves, Dies
<1>9. (\E t \in DOMAIN txs : Lands(t) \/ Fails(t)) \/ Saves => UNCHANGED calls
  BY DEF Lands, Fails, Judges, Saves
<1> QED
  BY <1>2, <1>4, <1>5, <1>6, <1>7, <1>8, <1>9 DEF Event

\* A transfer that was reported, sent or found to be done, has happened, and stays: whatever
\* lands later, the admin's owner is the one that was asked for.
THEOREM ReportedTransfersHold == Spec => []TransfersHold
<1>1. Init => TransferInv
  BY DEF Init, TransferInv
<1>2. CoreInv /\ TransferInv /\ [Next]_vars => TransferInv'
  BY Events, TransferNext
<1>3. CoreInv /\ TransferInv => TransfersHold
  BY DEF TransferInv, TransfersHold
<1> QED
  BY <1>1, <1>2, <1>3, CoreHolds, PTL DEF Spec

-----------------------------------------------------------------------------
(* Live proxies *)

\* Whose step a new transaction is, and what it was sent as.
Deployed(i, t) ==
  LET c == calls[i]
  IN /\ Fetches(i) /\ Continues(i, "fetch", {"store", "mine"})
     /\ impls[c.contract] = << >> \/ mode(c) = "always"
     /\ c.name # "forceImport" /\ back' = [back EXCEPT ![c.contract] = t]
     /\ calls'[i].impl = t /\ calls'[i].tx = t
     /\ txs'[t] = NewTx("implementation", c.contract, 0, 0, 0, i)
CreatedBy(i, t) ==
  LET c == calls[i]
  IN /\ Creates(i) /\ calls'[i].tx = t
     /\ txs'[t] = NewTx(creation(c), "-", IF c.name = "deployBeaconProxy" THEN c.target ELSE c.impl, 0, 0, i)
SentBy(i, t) ==
  LET c == calls[i]
  IN /\ SendsCall(i) /\ calls'[i].tx = t
     /\ txs'[t] = [NewTx(sending(c), "-", c.impl, c.target, c.checked, i) EXCEPT !.owner = c.newOwner]

\* The transactions before an event are those after it, but for one it sent.
LEMMA Newcomer ==
  ASSUME CoreInv, Event, NEW t \in DOMAIN txs', t \notin DOMAIN txs
  PROVE  \E i \in DOMAIN calls : StepEffect(i) /\ (Deployed(i, t) \/ CreatedBy(i, t) \/ SentBy(i, t))
<1>1. \E i \in DOMAIN calls : StepEffect(i)
  BY DEF Event, Called, Lands, Fails, Judges, Saves, Dies
<1>2. PICK i \in DOMAIN calls : StepEffect(i)
  BY <1>1
<1>3. ASSUME NEW tx, Sends(i, tx) PROVE t = Len(txs) + 1 /\ txs'[t] = tx
  BY <1>3 DEF Sends
<1>4. CASE Fetches(i)
  BY <1>2, <1>3, <1>4 DEF Fetches, Deployed
<1>5. CASE Creates(i)
  BY <1>2, <1>3, <1>5 DEF Creates, CreatedBy
<1>6. CASE SendsCall(i)
  BY <1>2, <1>3, <1>6 DEF SendsCall, SentBy
<1>7. CASE UNCHANGED txs
  BY <1>7
<1> QED
  BY <1>2, <1>4, <1>5, <1>6, <1>7
     DEF StepEffect, Opens, Skips, Checks, Stores, Mines, Confirms, Verifies, Writes, WritesBack, Reports, Refuses

\* What a new transaction says of itself.
LEMMA NewcomerSays ==
  ASSUME CoreInv, NEW i \in DOMAIN calls, NEW t, Deployed(i, t) \/ CreatedBy(i, t) \/ SentBy(i, t)
  PROVE  /\ txs'[t].by = i /\ txs'[t].status = "pending"
         /\ Deployed(i, t) => txs'[t].what = "implementation" /\ txs'[t].of = calls[i].contract
         /\ CreatedBy(i, t) =>
              /\ txs'[t].what = creation(calls[i])
              /\ txs'[t].points = IF calls[i].name = "deployBeaconProxy" THEN calls[i].target ELSE calls[i].impl
         /\ SentBy(i, t) =>
              /\ txs'[t].what = sending(calls[i]) /\ txs'[t].points = calls[i].impl
              /\ txs'[t].at = calls[i].target /\ txs'[t].checked = calls[i].checked
<1>1. ASSUME Deployed(i, t)
      PROVE  /\ txs'[t].by = i /\ txs'[t].status = "pending"
             /\ txs'[t].what = "implementation" /\ txs'[t].of = calls[i].contract
  BY <1>1 DEF Deployed, NewTx
<1>2. ASSUME CreatedBy(i, t)
      PROVE  /\ txs'[t].by = i /\ txs'[t].status = "pending" /\ txs'[t].what = creation(calls[i])
             /\ txs'[t].points = IF calls[i].name = "deployBeaconProxy" THEN calls[i].target ELSE calls[i].impl
  BY <1>2 DEF CreatedBy, NewTx
<1>3. ASSUME SentBy(i, t)
      PROVE  /\ txs'[t].by = i /\ txs'[t].status = "pending"
             /\ txs'[t].what = sending(calls[i]) /\ txs'[t].points = calls[i].impl
             /\ txs'[t].at = calls[i].target /\ txs'[t].checked = calls[i].checked
  BY <1>3 DEF SentBy, NewTx
<1> QED
  BY <1>1, <1>2, <1>3

\* A proxy that is out belongs to the call that sent it until the record has it; the call
\* then ends with the proxy recorded, reverted or named.
ProxyInv ==
  \A t \in DOMAIN txs : txs[t].what \in ProxyWhats \cup {"beacon-proxy"} /\ txs[t].by # 0 =>
    LET i == txs[t].by
    IN /\ ~Settled(i) => /\ calls[i].name \in {"deployProxy", "deployBeaconProxy"}
                         /\ "create" \notin Legs(i) /\ calls[i].tx = t
                         /\ "record" \notin Legs(i) => Recorded(t)
       /\ Settled(i) /\ calls[i].outcome # "crashed" =>
            txs[t].status = "reverted" \/ Recorded(t) \/ t \in told

\* What is left to a call whose proxy is out.
LEMMA ProxyIsOut ==
  ASSUME CoreInv, NEW i, NEW leg \in Leg, At(i, leg),
         calls[i].name \in {"deployProxy", "deployBeaconProxy"}, "create" \notin Legs(i)
  PROVE  /\ leg \in {"confirm", "record", "writeBack", "report"}
         /\ leg \in {"writeBack", "report"} => "record" \notin Legs(i)
<1>1. /\ calls[i].name \in Operation /\ LegsAhead(calls[i].name, calls[i].todo) /\ leg \in Legs(i)
      /\ TypeOK /\ LegsInv
  BY AtLeg DEF CoreInv
<1>2. "create" \in Elements(Pipeline[calls[i].name]) /\ {"send", "verify"} \cap Legs(i) = {}
  BY <1>1, Pipelines DEF Creating, Upgrading, LegsAhead, Legs
<1>3. ~(Rank[leg] < Rank["create"])
  BY <1>1, <1>2 DEF LegsAhead, Legs
<1>4. leg \in {"create", "send", "confirm", "verify", "record", "writeBack", "report"}
  BY <1>3 DEF Leg, Rank
<1> QED
  BY <1>1, <1>2, <1>4, Ahead

\* What the step of that call leaves.
LEMMA ProxyActs ==
  ASSUME CoreInv, NEW i \in DOMAIN calls, StepEffect(i), NEW t \in DOMAIN txs,
         calls[i].name \in {"deployProxy", "deployBeaconProxy"}, "create" \notin Legs(i), calls[i].tx = t,
         "record" \notin Legs(i) => Recorded(t)
  PROVE  /\ ~Settled(i)' => /\ "create" \notin Legs(i)' /\ calls'[i].tx = t
                            /\ "record" \notin Legs(i)' => Recorded(t)'
         /\ Settled(i)' => txs'[t].status = "reverted" \/ Recorded(t)' \/ t \in told'
<1>1. \A leg \in Leg : Acts(i, leg) =>
        /\ leg \in {"confirm", "record", "writeBack", "report"}
        /\ leg \in {"writeBack", "report"} => Recorded(t)
  BY ProxyIsOut DEF Acts
<1>2. {"open", "check", "fetch", "store", "mine", "create", "send", "confirm", "verify", "record",
       "writeBack", "report"} \subseteq Leg
  BY DEF Leg, Rank
<1>3. Grows
  BY StepGrows
<1>4. Recorded(t) => Recorded(t)'
  BY <1>3 DEF Grows, Recorded
<1>5. CASE Opens(i) \/ Skips(i) \/ Checks(i) \/ Stores(i) \/ Creates(i) \/ SendsCall(i) \/ Verifies(i)
  BY <1>1, <1>2, <1>5 DEF Opens, Skips, Checks, Stores, Creates, SendsCall, Verifies, Continues
<1>6. CASE Fetches(i)
  BY <1>1, <1>2, <1>6 DEF Fetches, Continues
<1>7. CASE Mines(i)
  BY <1>1, <1>2, <1>7 DEF Mines, Continues
<1>8. CASE Confirms(i)
  BY <1>4, <1>8 DEF Confirms, Continues, Settled
<1>9. CASE Writes(i)
  <2>1. records(calls[i]) /\ subject(calls[i]) = t
    BY DEF records, subject
  <2>2. Recorded(t)'
    BY <1>9, <2>1 DEF Writes, Recorded
  <2> QED
    BY <1>9, <2>2 DEF Writes, Carried, Continues, Settled
<1>10. CASE WritesBack(i)
  BY <1>1, <1>2, <1>4, <1>10 DEF WritesBack, Carried, Continues, Settled
<1>11. CASE Reports(i)
  BY <1>1, <1>2, <1>4, <1>11 DEF Reports, Settled
<1>12. CASE \E leg \in Leg : Refuses(i, leg)
  <2>1. PICK leg \in Leg : Refuses(i, leg)
    BY <1>12
  <2>2. Settled(i)' /\ Acts(i, leg) /\ UNCHANGED txs
    BY <2>1 DEF Refuses, Settled
  <2>3. leg = "confirm" => txs[t].status = "reverted" \/ t \in told'
    BY <2>1 DEF Refuses
  <2>4. leg = "record" => t \in told'
    BY <2>1 DEF Refuses
  <2> QED
    BY <1>1, <1>4, <2>2, <2>3, <2>4
<1> QED
  BY <1>5, <1>6, <1>7, <1>8, <1>9, <1>10, <1>11, <1>12 DEF StepEffect

\* A proxy that is sent belongs to its call.
LEMMA ProxySent ==
  ASSUME CoreInv, NEW i \in DOMAIN calls, NEW t,
         Deployed(i, t) \/ CreatedBy(i, t) \/ SentBy(i, t),
         txs'[t].what \in ProxyWhats \cup {"beacon-proxy"}
  PROVE  /\ ~Settled(i)' /\ calls'[i].name \in {"deployProxy", "deployBeaconProxy"}
         /\ "create" \notin Legs(i)' /\ calls'[i].tx = t /\ "record" \in Legs(i)'
<1>1. ~Deployed(i, t) /\ ~SentBy(i, t)
  BY NewcomerSays DEF ProxyWhats, sending
<1>2. CreatedBy(i, t) /\ Creates(i) /\ calls'[i].tx = t /\ txs'[t].what = creation(calls[i])
  BY <1>1, NewcomerSays DEF CreatedBy
<1>3. At(i, "create") /\ "create" \in Leg /\ Continues(i, "create", {}) /\ TypeOK /\ LegsInv
  BY <1>2 DEF Creates, Continues, Acts, Leg, Rank, CoreInv
<1>4. /\ calls[i].name \in Operation /\ LegsAhead(calls[i].name, calls[i].todo) /\ "create" \in Legs(i)
  BY <1>3, AtLeg
<1>5. calls[i].name \in Creating /\ calls[i].name # "deployBeacon"
  BY <1>2, <1>4, Pipelines DEF LegsAhead, Legs, creation, ProxyWhats
<1>6. "record" \in Legs(i)
  BY <1>4, <1>5, Pipelines DEF LegsAhead, Legs, Creating, Rank
<1> QED
  BY <1>2, <1>3, <1>5, <1>6 DEF Continues, Acts, Same, Settled, Creating

\* Every event keeps every live proxy accounted for.
LEMMA ProxyNext == ASSUME CoreInv, ProxyInv, Event PROVE ProxyInv'
<1> SUFFICES ASSUME NEW t \in DOMAIN txs', txs'[t].what \in ProxyWhats \cup {"beacon-proxy"}, txs'[t].by # 0,
                    NEW i, i = txs'[t].by
             PROVE  /\ ~Settled(i)' => /\ calls'[i].name \in {"deployProxy", "deployBeaconProxy"}
                                       /\ "create" \notin Legs(i)' /\ calls'[i].tx = t
                                       /\ "record" \notin Legs(i)' => Recorded(t)'
                    /\ Settled(i)' /\ calls'[i].outcome # "crashed" =>
                         txs'[t].status = "reverted" \/ Recorded(t)' \/ t \in told'
  BY DEF ProxyInv
<1>1. Grows
  BY EventGrows
<1>2. CASE t \notin DOMAIN txs
  <2>1. PICK k \in DOMAIN calls : Deployed(k, t) \/ CreatedBy(k, t) \/ SentBy(k, t)
    BY <1>2, Newcomer
  <2>2. i = k
    BY <2>1, NewcomerSays
  <2> QED
    BY <2>1, <2>2, ProxySent
<1>3. CASE t \in DOMAIN txs
  <2>1. txs[t].what \in ProxyWhats \cup {"beacon-proxy"} /\ txs[t].by # 0 /\ txs[t].by = i
    BY <1>1, <1>3 DEF Grows, TxsStable
  <2>2. i \in DOMAIN calls
    BY <1>3, <2>1 DEF CoreInv, ChainInv
  <2>3. /\ ~Settled(i) => /\ calls[i].name \in {"deployProxy", "deployBeaconProxy"}
                          /\ "create" \notin Legs(i) /\ calls[i].tx = t
                          /\ "record" \notin Legs(i) => Recorded(t)
        /\ Settled(i) /\ calls[i].outcome # "crashed" =>
             txs[t].status = "reverted" \/ Recorded(t) \/ t \in told
    BY <1>3, <2>1 DEF ProxyInv
  <2>4. (Recorded(t) => Recorded(t)') /\ (t \in told => t \in told')
          /\ (txs[t].status = "reverted" => txs'[t].status = "reverted")
    BY <1>1, <1>3 DEF Grows, TxsStable, Recorded
  <2>5. CASE calls'[i] = calls[i]
    BY <2>3, <2>4, <2>5 DEF Settled, Legs
  <2>6. ASSUME NEW k \in DOMAIN calls, StepEffect(k), calls'[i] # calls[i]
        PROVE  /\ ~Settled(i)' => /\ calls'[i].name \in {"deployProxy", "deployBeaconProxy"}
                                  /\ "create" \notin Legs(i)' /\ calls'[i].tx = t
                                  /\ "record" \notin Legs(i)' => Recorded(t)'
               /\ Settled(i)' => txs'[t].status = "reverted" \/ Recorded(t)' \/ t \in told'
    <3>1. k = i /\ ~Settled(i) /\ calls'[i].name = calls[i].name
      BY <2>2, <2>6, StepActs, ActsAlone DEF Same
    <3> QED
      BY <1>3, <2>3, <2>6, <3>1, ProxyActs
  <2>7. CASE Dies
    BY <2>2, <2>5, <2>7 DEF Dies, Settled
  <2> QED
    BY <2>2, <2>5, <2>6, <2>7 DEF Event, Called, Lands, Fails, Judges, Saves
<1> QED
  BY <1>2, <1>3

\* A proxy that landed for a call which settled is in the record, or a refusal named it.
THEOREM LiveProxiesAreKept == Spec => []LiveProxiesAreAccountedFor
<1>1. Init => ProxyInv
  BY AtFirst DEF ProxyInv
<1>2. CoreInv /\ ProxyInv /\ [Next]_vars => ProxyInv'
  BY Events, ProxyNext
<1>3. ProxyInv => LiveProxiesAreAccountedFor
  BY DEF ProxyInv, LiveProxiesAreAccountedFor, Is, Created
<1> QED
  BY <1>1, <1>2, <1>3, CoreHolds, PTL DEF Spec

-----------------------------------------------------------------------------
(* Upgrades *)

\* An upgrade of the address that landed for a call which settled without its verdict.
Unverified(a, i) ==
  \E u \in DOMAIN txs :
    /\ txs[u].what = "upgrade" /\ txs[u].at = a /\ txs[u].status = "landed" /\ txs[u].by # i
    /\ Settled(txs[u].by) /\ ~calls[txs[u].by].confirmed

\* An upgrade belongs to the call that sent it.
Belongs(t) ==
  LET i == txs[t].by
  IN /\ i \in DOMAIN calls /\ calls[i].name \in Upgrading /\ calls[i].tx = t
     /\ txs[t].checked = calls[i].checked /\ txs[t].at = calls[i].target
     /\ ~Settled(i) => "send" \notin Legs(i)

\* What it displaced is what it was compared with, unless something was left without a verdict.
Displaces(t) ==
  LET i == txs[t].by
  IN txs[t].status = "landed" /\ txs[t].replaced # txs[t].checked =>
       Unverified(txs[t].at, i) \/ (Settled(i) /\ ~calls[i].confirmed)

\* What a call under way compared with is still there, until its own upgrade lands.
Compares(i) ==
  calls[i].name \in Upgrading /\ "check" \notin Legs(i) =>
    \/ txs[calls[i].target].points = calls[i].checked
    \/ Unverified(calls[i].target, i)
    \/ "send" \notin Legs(i) /\ calls[i].tx \in DOMAIN txs /\ txs[calls[i].tx].status = "landed"

UpgradeInv ==
  /\ \A t \in DOMAIN txs : txs[t].what = "upgrade" => Belongs(t) /\ Displaces(t)
  /\ \A i \in DOMAIN calls : ~Settled(i) => Compares(i)

\* A leg of the operation that is no longer ahead is behind the one the call is at.
LEMMA PastLeg ==
  ASSUME CoreInv, NEW i, NEW leg \in Leg, At(i, leg), NEW l \in Leg,
         l \in Elements(Pipeline[calls[i].name]), l \notin Legs(i)
  PROVE  ~(Rank[leg] < Rank[l])
BY AtLeg DEF CoreInv, LegsAhead, Legs

\* A call is at a leg of its operation.
LEMMA OwnLeg ==
  ASSUME CoreInv, NEW i, NEW leg \in Leg, At(i, leg)
  PROVE  /\ leg \in Elements(Pipeline[calls[i].name]) \cup {"open", "store", "mine"}
         /\ calls[i].name \in Operation
BY AtLeg DEF CoreInv, LegsAhead, Legs

\* Two calls are never past their beginning at once.
LEMMA OneBegun ==
  ASSUME CoreInv, NEW i \in DOMAIN calls, NEW j \in DOMAIN calls, ~Settled(i), ~Settled(j),
         "open" \notin Legs(i), "open" \notin Legs(j)
  PROVE  i = j
<1>1. turn(i) /\ turn(j)
  BY DEF CoreInv, LegsInv
<1>2. DOMAIN calls = 1..Len(calls) /\ Len(calls) \in Nat
  BY Typed DEF CoreInv
<1>3. i \in Nat /\ j \in Nat /\ i >= 1 /\ j >= 1
  BY <1>2
<1>4. ~(j \in 1..i-1) /\ ~(i \in 1..j-1)
  BY <1>1 DEF turn
<1> QED
  BY <1>3, <1>4

\* What comes after the opening or the check leaves them behind.
LEMMA Begun ==
  ASSUME CoreInv, NEW i \in DOMAIN calls, ~Settled(i)
  PROVE  /\ "check" \notin Legs(i) => "open" \notin Legs(i)
         /\ calls[i].name \in Upgrading /\ "send" \notin Legs(i) => "check" \notin Legs(i)
<1>1. LegsAhead(calls[i].name, calls[i].todo) /\ calls[i].name \in Operation
  BY Typed, CallFields DEF CoreInv, LegsInv
<1>2. "check" \in Elements(Pipeline[calls[i].name]) /\ Rank["open"] < Rank["check"] /\ Rank["check"] < Rank["send"]
  BY <1>1, Pipelines DEF Rank
<1>3. calls[i].name \in Upgrading => "send" \in Elements(Pipeline[calls[i].name])
  BY <1>1, Pipelines
<1> QED
  BY <1>1, <1>2, <1>3 DEF LegsAhead, Legs

\* An upgrade without a verdict stays one.
LEMMA UnverifiedStays ==
  ASSUME CoreInv, UpgradeInv, Grows, NEW a, NEW i, Unverified(a, i)
  PROVE  Unverified(a, i)'
<1>1. PICK u \in DOMAIN txs :
        /\ txs[u].what = "upgrade" /\ txs[u].at = a /\ txs[u].status = "landed" /\ txs[u].by # i
        /\ Settled(txs[u].by) /\ ~calls[txs[u].by].confirmed
  BY DEF Unverified
<1>2. txs[u].by \in DOMAIN calls
  BY <1>1 DEF UpgradeInv, Belongs
<1>3. calls'[txs[u].by] = calls[txs[u].by]
  BY <1>1, <1>2 DEF Grows
<1>4. /\ u \in DOMAIN txs' /\ txs'[u].what = "upgrade" /\ txs'[u].at = a /\ txs'[u].status = "landed"
      /\ txs'[u].by = txs[u].by
  BY <1>1 DEF Grows, TxsStable
<1> QED
  BY <1>1, <1>3, <1>4 DEF Unverified, Settled

\* A step of a call sends, but decides nothing.
LEMMA StepTxs == ASSUME CoreInv, NEW i \in DOMAIN calls, StepEffect(i) PROVE \A t \in DOMAIN txs : txs'[t] = txs[t]
<1>1. CASE UNCHANGED txs
  BY <1>1
<1>2. ASSUME NEW tx, Sends(i, tx) PROVE \A t \in DOMAIN txs : txs'[t] = txs[t]
  BY <1>2 DEF Sends
<1>3. CASE Fetches(i)
  BY <1>1, <1>2, <1>3 DEF Fetches
<1>4. CASE Creates(i) \/ SendsCall(i)
  BY <1>2, <1>4 DEF Creates, SendsCall
<1> QED
  BY <1>1, <1>3, <1>4
     DEF StepEffect, Opens, Skips, Checks, Stores, Mines, Confirms, Verifies, Writes, WritesBack, Reports, Refuses

\* What a step leaves of the call that upgrades.
LEMMA UpgradeActs ==
  ASSUME CoreInv, NEW i \in DOMAIN calls, StepEffect(i), calls[i].name \in Upgrading
  PROVE  /\ "send" \notin Legs(i) =>
              /\ calls'[i].tx = calls[i].tx /\ calls'[i].checked = calls[i].checked
              /\ ~Settled(i)' => "send" \notin Legs(i)'
         /\ ~Settled(i)' /\ "check" \notin Legs(i)' =>
              \/ "check" \notin Legs(i) /\ calls'[i].checked = calls[i].checked
              \/ txs[calls[i].target].points = calls'[i].checked
<1>1. {"open", "check", "fetch", "store", "mine", "create", "send", "confirm", "verify", "record",
       "writeBack", "report"} \subseteq Leg
  BY DEF Leg, Rank
<1>2. \A leg \in Leg : Acts(i, leg) =>
        /\ leg \notin {"create", "writeBack"}
        /\ "send" \notin Legs(i) => leg \notin {"open", "check", "fetch", "store", "mine", "send"}
        /\ leg \notin {"open", "check"} => "check" \notin Legs(i)
  <2> SUFFICES ASSUME NEW leg \in Leg, Acts(i, leg)
               PROVE  /\ leg \notin {"create", "writeBack"}
                      /\ "send" \notin Legs(i) => leg \notin {"open", "check", "fetch", "store", "mine", "send"}
                      /\ leg \notin {"open", "check"} => "check" \notin Legs(i)
    OBVIOUS
  <2>1. At(i, leg) /\ TypeOK /\ LegsInv
    BY DEF Acts, CoreInv
  <2>2. leg \in Legs(i) /\ (leg \notin {"open", "check"} => "check" \notin Legs(i))
    BY <2>1, AtLeg, Ahead
  <2>3. /\ "create" \notin Elements(Pipeline[calls[i].name]) /\ "writeBack" \notin Elements(Pipeline[calls[i].name])
        /\ "send" \in Elements(Pipeline[calls[i].name])
    BY <2>1, OwnLeg, Pipelines DEF Upgrading, Creating
  <2>4. leg \notin {"create", "writeBack"}
    BY <2>1, <2>3, OwnLeg
  <2>5. "send" \notin Legs(i) => ~(Rank[leg] < Rank["send"])
    BY <1>1, <2>1, <2>3, PastLeg
  <2>6. \A l \in {"open", "check", "fetch", "store", "mine"} : Rank[l] < Rank["send"]
    BY DEF Rank
  <2> QED
    BY <2>2, <2>4, <2>5, <2>6
<1>3. CASE Opens(i)
  BY <1>1, <1>2, <1>3 DEF Opens, Continues
<1>4. CASE Skips(i)
  BY <1>4 DEF Skips, alreadyHeld, Upgrading
<1>5. CASE Checks(i)
  <2>1. txs[calls[i].target].points = calls'[i].checked
    BY <1>5 DEF Checks, Accepts, compared, Behind, Upgrading, Targeted, Is, ProxyWhats
  <2>2. Acts(i, "check")
    BY <1>5 DEF Checks, Continues
  <2> QED
    BY <1>1, <1>2, <2>1, <2>2
<1>6. CASE Fetches(i)
  BY <1>1, <1>2, <1>6 DEF Fetches, Continues
<1>7. CASE Stores(i) \/ Mines(i)
  BY <1>1, <1>2, <1>7 DEF Stores, Mines, Continues, Carried
<1>8. CASE Creates(i) \/ WritesBack(i)
  BY <1>1, <1>2, <1>8 DEF Creates, WritesBack, Continues
<1>9. CASE SendsCall(i)
  BY <1>1, <1>2, <1>9 DEF SendsCall, Continues
<1>10. CASE Confirms(i) \/ Verifies(i) \/ Writes(i)
  BY <1>1, <1>2, <1>10 DEF Confirms, Verifies, Writes, Continues, Carried
<1>11. CASE Reports(i)
  BY <1>11 DEF Reports, Carried, Settled
<1>12. CASE \E leg \in Leg : Refuses(i, leg)
  BY <1>12 DEF Refuses, Carried, Settled
<1> QED
  BY <1>3, <1>4, <1>5, <1>6, <1>7, <1>8, <1>9, <1>10, <1>11, <1>12 DEF StepEffect

\* An upgrade that is sent belongs to its call.
LEMMA UpgradeSent ==
  ASSUME CoreInv, NEW i \in DOMAIN calls, NEW t, Deployed(i, t) \/ CreatedBy(i, t) \/ SentBy(i, t),
         txs'[t].what = "upgrade"
  PROVE  Belongs(t)' /\ Displaces(t)'
<1>1. ~Deployed(i, t)
  BY NewcomerSays
<1>2. ~CreatedBy(i, t)
  <2> SUFFICES ASSUME CreatedBy(i, t) PROVE FALSE
    OBVIOUS
  <2>1. creation(calls[i]) = "upgrade"
    BY NewcomerSays
  <2>2. calls[i].kind \in {"transparent", "uups"}
    BY Typed, CallFields DEF CoreInv
  <2> QED
    BY <2>1, <2>2 DEF creation
<1>3. /\ SentBy(i, t) /\ SendsCall(i) /\ calls'[i].tx = t /\ calls'[i].checked = calls[i].checked
      /\ txs'[t].by = i /\ txs'[t].status = "pending" /\ sending(calls[i]) = "upgrade"
      /\ txs'[t].at = calls[i].target /\ txs'[t].checked = calls[i].checked
  BY <1>1, <1>2, NewcomerSays DEF SentBy, SendsCall
<1>4. Continues(i, "send", {}) /\ At(i, "send") /\ "send" \in Leg
  BY <1>3 DEF SendsCall, Continues, Acts, Leg, Rank
<1>5. calls[i].name \in Upgrading
  BY <1>3, <1>4, OwnLeg, Pipelines DEF sending
<1> QED
  BY <1>3, <1>4, <1>5 DEF Belongs, Displaces, Continues, Acts, Same

\* An upgrade that was sent stays its call's.
LEMMA BelongsStill ==
  ASSUME CoreInv, UpgradeInv, Event, NEW t \in DOMAIN txs, txs[t].what = "upgrade"
  PROVE  Belongs(t)'
<1> DEFINE i == txs[t].by
<1>1. Grows /\ Belongs(t)
  BY EventGrows DEF UpgradeInv
<1>2. /\ t \in DOMAIN txs' /\ txs'[t].by = i /\ txs'[t].checked = txs[t].checked /\ txs'[t].at = txs[t].at
      /\ i \in DOMAIN calls /\ i \in DOMAIN calls' /\ Same(calls'[i], calls[i])
  BY <1>1 DEF Grows, TxsStable, Belongs
<1>3. CASE calls'[i] = calls[i]
  BY <1>1, <1>2, <1>3 DEF Belongs, Settled, Legs
<1>4. ASSUME NEW k \in DOMAIN calls, StepEffect(k), calls'[i] # calls[i] PROVE Belongs(t)'
  <2>1. k = i /\ ~Settled(i)
    BY <1>2, <1>4, StepActs, ActsAlone
  <2>2. calls[i].name \in Upgrading /\ "send" \notin Legs(i)
    BY <1>1, <2>1 DEF Belongs
  <2>3. calls'[i].tx = calls[i].tx /\ calls'[i].checked = calls[i].checked /\ (~Settled(i)' => "send" \notin Legs(i)')
    BY <1>2, <1>4, <2>1, <2>2, UpgradeActs
  <2> QED
    BY <1>1, <1>2, <2>3 DEF Belongs, Same
<1>5. ASSUME Dies, calls'[i] # calls[i] PROVE Belongs(t)'
  <2>1. Settled(i)' /\ Carried(calls'[i], calls[i])
    BY <1>2, <1>5 DEF Dies, Settled
  <2> QED
    BY <1>1, <1>2, <2>1 DEF Belongs, Carried, Same
<1> QED
  BY <1>2, <1>3, <1>4, <1>5 DEF Event, Called, Lands, Fails, Judges, Saves

\* What is known of an upgrade that landed stays known.
LEMMA DisplacesStill ==
  ASSUME CoreInv, UpgradeInv, Event, NEW t \in DOMAIN txs, txs[t].what = "upgrade"
  PROVE  Displaces(t)'
<1>0. PICK i, a : i = txs[t].by /\ a = txs[t].at
  OBVIOUS
<1>1. Grows /\ Belongs(t) /\ Displaces(t)
  BY EventGrows DEF UpgradeInv
<1>2. /\ t \in DOMAIN txs' /\ txs'[t].by = i /\ txs'[t].checked = txs[t].checked /\ txs'[t].at = a
      /\ i \in DOMAIN calls
  BY <1>0, <1>1 DEF Grows, TxsStable, Belongs
<1>3. Unverified(a, i) => Unverified(a, i)'
  BY <1>1, UnverifiedStays
<1>4. Settled(i) /\ ~calls[i].confirmed => Settled(i)' /\ ~calls'[i].confirmed
  BY <1>1, <1>2 DEF Grows, Settled
<1>5. ASSUME txs'[t].status = txs[t].status, txs'[t].replaced = txs[t].replaced PROVE Displaces(t)'
  BY <1>0, <1>1, <1>2, <1>3, <1>4, <1>5 DEF Displaces
<1>6. ASSUME Lands(t) PROVE Displaces(t)'
  <2>1. txs[t].status = "pending" /\ txs'[t].replaced = txs[a].points
    BY <1>0, <1>6 DEF Lands, Judges
  <2>2. CASE Settled(i)
    <3>1. ~calls[i].confirmed
      BY <1>0, <1>1, <1>2, <2>1 DEF CoreInv, CallInv, CallFacts, Names, Belongs
    <3> QED
      BY <1>2, <1>4, <2>2, <3>1 DEF Displaces
  <2>3. CASE ~Settled(i)
    <3>1. Compares(i) /\ calls[i].name \in Upgrading /\ "check" \notin Legs(i) /\ calls[i].tx = t
            /\ txs[t].checked = calls[i].checked /\ calls[i].target = a
      BY <1>0, <1>1, <1>2, <2>3, Begun DEF UpgradeInv, Belongs
    <3>2. txs[a].points = txs[t].checked \/ Unverified(a, i)
      BY <2>1, <3>1 DEF Compares
    <3> QED
      BY <1>2, <1>3, <2>1, <3>2 DEF Displaces
  <2> QED
    BY <2>2, <2>3
<1>7. ASSUME NEW u \in DOMAIN txs, Lands(u) \/ Fails(u), u # t PROVE Displaces(t)'
  BY <1>5, <1>7 DEF Lands, Fails, Judges
<1>8. ASSUME Fails(t) PROVE Displaces(t)'
  BY <1>8 DEF Fails, Judges, Displaces
<1>9. ASSUME NEW k \in DOMAIN calls, StepEffect(k) PROVE Displaces(t)'
  <2>1. txs'[t] = txs[t]
    BY <1>9, StepTxs
  <2> QED
    BY <1>5, <2>1
<1>10. CASE UNCHANGED txs
  BY <1>5, <1>10
<1>11. CASE Saves \/ Dies \/ \E new \in Nat : Called(new)
  BY <1>10, <1>11 DEF Saves, Dies, Called
<1> QED
  BY <1>6, <1>7, <1>8, <1>9, <1>10, <1>11 DEF Event

\* What a call compared with is displaced by nothing but its own upgrade, or by one without a verdict.
LEMMA ComparesStill ==
  ASSUME CoreInv, UpgradeInv, Event, NEW j \in DOMAIN calls, ~Settled(j), Compares(j), calls'[j] = calls[j]
  PROVE  Compares(j)'
<1> DEFINE c == calls[j]
           a == c.target
<1> SUFFICES ASSUME c.name \in Upgrading, "check" \notin Legs(j)
             PROVE  \/ txs'[a].points = c.checked
                    \/ Unverified(a, j)'
                    \/ "send" \notin Legs(j) /\ c.tx \in DOMAIN txs' /\ txs'[c.tx].status = "landed"
  BY DEF Compares, Legs
<1>1. Grows
  BY EventGrows
<1>2. a \in DOMAIN txs
  BY DEF CoreInv, CallInv, CallFacts, Names, Upgrading, Targeted
<1>3. Unverified(a, j) => Unverified(a, j)'
  BY <1>1, UnverifiedStays
<1>4. c.tx \in DOMAIN txs /\ txs[c.tx].status = "landed" => c.tx \in DOMAIN txs' /\ txs'[c.tx].status = "landed"
  BY <1>1 DEF Grows, TxsStable
<1>5. CASE txs'[a].points = txs[a].points
  BY <1>3, <1>4, <1>5 DEF Compares
<1>6. ASSUME NEW t \in DOMAIN txs, Lands(t), txs[t].what = "upgrade", txs[t].at = a
      PROVE  \/ Unverified(a, j)'
             \/ "send" \notin Legs(j) /\ c.tx \in DOMAIN txs' /\ txs'[c.tx].status = "landed"
  <2>1. /\ t \in DOMAIN txs' /\ txs'[t].status = "landed" /\ txs'[t].what = "upgrade" /\ txs'[t].at = a
        /\ txs'[t].by = txs[t].by /\ txs[t].status = "pending"
    BY <1>1, <1>6 DEF Lands, Judges, Grows, TxsStable
  <2>2. Belongs(t) /\ txs[t].by \in DOMAIN calls /\ calls[txs[t].by].tx = t
    BY <1>6 DEF UpgradeInv, Belongs
  <2>3. CASE Settled(txs[t].by)
    <3>1. ~calls[txs[t].by].confirmed
      BY <2>1, <2>2 DEF CoreInv, CallInv, CallFacts, Names
    <3>2. calls' = calls
      BY <1>6 DEF Lands, Judges
    <3>3. txs[t].by # j
      BY <2>3
    <3> QED
      BY <2>1, <2>3, <3>1, <3>2, <3>3 DEF Unverified, Settled
  <2>4. CASE ~Settled(txs[t].by)
    <3>1. "send" \notin Legs(txs[t].by) /\ "open" \notin Legs(txs[t].by)
      BY <2>2, <2>4, Begun DEF Belongs
    <3>2. "open" \notin Legs(j)
      BY Begun
    <3>3. txs[t].by = j
      BY <2>2, <2>4, <3>1, <3>2, OneBegun
    <3> QED
      BY <2>1, <2>2, <3>1, <3>3
  <2> QED
    BY <2>3, <2>4
<1>7. ASSUME NEW t \in DOMAIN txs, Lands(t), ~(txs[t].what = "upgrade" /\ txs[t].at = a)
      PROVE  txs'[a].points = txs[a].points
  BY <1>2, <1>7 DEF Lands
<1>8. ASSUME NEW t \in DOMAIN txs, Fails(t) PROVE txs'[a].points = txs[a].points
  BY <1>2, <1>8 DEF Fails
<1>9. ASSUME NEW k \in DOMAIN calls, StepEffect(k) PROVE txs'[a].points = txs[a].points
  BY <1>2, <1>9, StepTxs
<1>10. CASE UNCHANGED txs
  BY <1>5, <1>10
<1>11. CASE Saves \/ Dies \/ \E new \in Nat : Called(new)
  BY <1>10, <1>11 DEF Saves, Dies, Called
<1> QED
  BY <1>5, <1>6, <1>7, <1>8, <1>9, <1>10, <1>11 DEF Event

\* What a call compared with still runs, or an upgrade without a verdict has displaced it.
LEMMA ComparesNext ==
  ASSUME CoreInv, UpgradeInv, Event, NEW j \in DOMAIN calls', ~Settled(j)'
  PROVE  Compares(j)'
<1>1. Grows
  BY EventGrows
<1>2. CASE j \notin DOMAIN calls
  <2>1. PICK new \in Nat : Called(new)
    BY <1>2, StepActs, ActsAlone DEF Event, Lands, Fails, Judges, Saves, Dies
  <2>2. j = new /\ "check" \in Legs(j)'
    BY <1>2, <2>1 DEF Called
  <2> QED
    BY <2>2 DEF Compares
<1>3. CASE j \in DOMAIN calls /\ calls'[j] = calls[j]
  <2>1. ~Settled(j) /\ Compares(j)
    BY <1>3 DEF UpgradeInv, Settled
  <2> QED
    BY <1>3, <2>1, ComparesStill
<1>4. ASSUME j \in DOMAIN calls, calls'[j] # calls[j], NEW k \in DOMAIN calls, StepEffect(k)
      PROVE  Compares(j)'
  <2>1. k = j /\ ~Settled(j) /\ Same(calls'[j], calls[j])
    BY <1>4, StepActs, ActsAlone
  <2> SUFFICES ASSUME calls[j].name \in Upgrading, "check" \notin Legs(j)'
               PROVE  \/ txs'[calls[j].target].points = calls'[j].checked
                      \/ \E x : x = calls[j].target /\ Unverified(x, j)'
                      \/ /\ "send" \notin Legs(j)' /\ calls'[j].tx \in DOMAIN txs'
                         /\ txs'[calls'[j].tx].status = "landed"
    BY <2>1 DEF Compares, Same
  <2>2. calls[j].target \in DOMAIN txs
    BY <1>4 DEF CoreInv, CallInv, CallFacts, Names, Upgrading, Targeted
  <2>3. \A t \in DOMAIN txs : txs'[t] = txs[t]
    BY <1>4, StepTxs
  <2>4. StepEffect(j)
    BY <1>4, <2>1
  <2>5. CASE txs[calls[j].target].points = calls'[j].checked
    BY <2>2, <2>3, <2>5
  <2>6. CASE "check" \notin Legs(j) /\ calls'[j].checked = calls[j].checked
    <3>1. Compares(j)
      BY <1>4, <2>1 DEF UpgradeInv
    <3>2. CASE txs[calls[j].target].points = calls[j].checked
      BY <2>2, <2>3, <2>6, <3>2
    <3>3. CASE Unverified(calls[j].target, j)
      <4>1. PICK x : x = calls[j].target
        OBVIOUS
      <4>2. Unverified(x, j)'
        BY <1>1, <3>3, <4>1, UnverifiedStays
      <4> QED
        BY <4>1, <4>2
    <3>4. CASE "send" \notin Legs(j) /\ calls[j].tx \in DOMAIN txs /\ txs[calls[j].tx].status = "landed"
      <4>1. calls'[j].tx = calls[j].tx /\ "send" \notin Legs(j)'
        BY <1>4, <2>4, <3>4, UpgradeActs
      <4> QED
        BY <1>1, <2>3, <3>4, <4>1 DEF Grows, TxsStable
    <3> QED
      BY <2>6, <3>1, <3>2, <3>3, <3>4 DEF Compares
  <2> QED
    BY <1>4, <2>4, <2>5, <2>6, UpgradeActs
<1>5. ASSUME j \in DOMAIN calls, Dies PROVE calls'[j] = calls[j]
  BY <1>5 DEF Dies, Settled
<1> QED
  BY <1>2, <1>3, <1>4, <1>5 DEF Event, Called, Lands, Fails, Judges, Saves

\* Every event keeps what upgrades know.
LEMMA UpgradeNext == ASSUME CoreInv, UpgradeInv, Event PROVE UpgradeInv'
<1>1. Grows
  BY EventGrows
<1>2. ASSUME NEW t \in DOMAIN txs', txs'[t].what = "upgrade" PROVE Belongs(t)' /\ Displaces(t)'
  <2>1. CASE t \in DOMAIN txs
    <3>1. txs[t].what = "upgrade"
      BY <1>1, <1>2, <2>1 DEF Grows, TxsStable
    <3> QED
      BY <2>1, <3>1, BelongsStill, DisplacesStill
  <2>2. CASE t \notin DOMAIN txs
    BY <1>2, <2>2, Newcomer, UpgradeSent
  <2> QED
    BY <2>1, <2>2
<1> QED
  BY <1>2, ComparesNext DEF UpgradeInv

\* An upgrade that lands displaces the implementation whose layout it was compared with, unless
\* an upgrade of that address was left without a verdict.
THEOREM UpgradesAreCompared == Spec => []UpgradesReplaceWhatTheyChecked
<1>1. Init => UpgradeInv
  BY AtFirst DEF UpgradeInv, Init
<1>2. CoreInv /\ UpgradeInv /\ [Next]_vars => UpgradeInv'
  BY Events, UpgradeNext
<1>3. UpgradeInv => UpgradesReplaceWhatTheyChecked
  <2> SUFFICES ASSUME UpgradeInv, NEW t \in DOMAIN txs, txs[t].what = "upgrade", txs[t].status = "landed",
                      txs[t].replaced # txs[t].checked
               PROVE  \E u \in DOMAIN txs :
                        /\ txs[u].what = "upgrade" /\ txs[u].at = txs[t].at /\ txs[u].status = "landed"
                        /\ ~calls[txs[u].by].confirmed
    BY DEF UpgradesReplaceWhatTheyChecked
  <2>1. Unverified(txs[t].at, txs[t].by) \/ ~calls[txs[t].by].confirmed
    BY DEF UpgradeInv, Displaces
  <2> QED
    BY <2>1 DEF Unverified
<1> QED
  BY <1>1, <1>2, <1>3, CoreHolds, PTL DEF Spec

-----------------------------------------------------------------------------
(* Implementations *)

\* A deployment that a later call has to find.
Counts(u) ==
  /\ txs[u].what = "implementation" /\ txs[u].by # 0 /\ txs[u].status # "reverted"
  /\ calls[txs[u].by].redeploy # "always" /\ calls[txs[u].by].outcome # "crashed"

\* It is the record's primary address, or its call is about to make it that.
Found(u) == impls[txs[u].of] # << >> /\ Head(impls[txs[u].of]) = u
Storing(u) ==
  LET i == txs[u].by
  IN ~Settled(i) /\ "store" \in Legs(i) /\ calls[i].impl = u /\ impls[txs[u].of] = << >>

ReuseInv ==
  \A u \in DOMAIN txs : Counts(u) => txs[u].of \in Contracts /\ (Found(u) \/ Storing(u))

\* The next leg of a call whose record is to be written.
LEMMA StoreIsNext ==
  ASSUME CoreInv, NEW k \in DOMAIN calls, NEW leg \in Leg, Acts(k, leg),
         NEW i \in DOMAIN calls, ~Settled(i), "store" \in Legs(i)
  PROVE  k = i /\ leg = "store"
<1>1. At(k, leg) /\ TypeOK /\ LegsInv
  BY DEF Acts, CoreInv
<1>2. Legs(i) \cap {"open", "check", "fetch"} = {}
  BY <1>1 DEF LegsInv, LegsAhead, Legs
<1>3. k = i
  BY <1>1, <1>2, AtLeg
<1>4. leg \in Legs(i) /\ \A l \in Legs(i) : l # leg => Rank[leg] < Rank[l]
  BY <1>1, <1>3, AtLeg
<1>5. \A l \in Leg \ {"store"} : Rank[l] < Rank["store"] => l \in {"open", "check", "fetch"}
  BY DEF Leg, Rank
<1> QED
  BY <1>2, <1>3, <1>4, <1>5

\* An address that is appended changes nothing about the first.
LEMMA HeadOfAppend ==
  ASSUME NEW S, NEW s \in Seq(S), NEW e \in S
  PROVE  Append(s, e) # << >> /\ Head(Append(s, e)) = IF s = << >> THEN e ELSE Head(s)
<1>1. /\ Append(s, e) \in Seq(S) /\ Len(Append(s, e)) = Len(s) + 1 /\ Append(s, e)[Len(s) + 1] = e
      /\ \A k \in 1..Len(s) : Append(s, e)[k] = s[k]
  BY AppendProperties
<1>2. Len(s) \in Nat /\ (s = << >> <=> Len(s) = 0)
  BY LenProperties, EmptySeq
<1>3. Append(s, e) # << >> /\ Head(Append(s, e)) = Append(s, e)[1]
  <2> DEFINE d == Append(s, e)
  <2>1. d \in Seq(S) /\ Len(d) # 0
    BY <1>1, <1>2
  <2> HIDE DEF d
  <2>2. d # << >> /\ Head(d) = d[1]
    BY <2>1, HeadTailProperties, EmptySeq
  <2> QED
    BY <2>2 DEF d
<1>4. CASE s = << >>
  BY <1>1, <1>2, <1>3, <1>4
<1>5. CASE s # << >>
  <2>1. 1 \in 1..Len(s) /\ Head(s) = s[1]
    BY <1>2, <1>5, HeadTailProperties
  <2> QED
    BY <1>1, <1>3, <1>5, <2>1
<1> QED
  BY <1>4, <1>5

\* The record changes for the version of one call, at its end or all at once.
LEMMA RecordChanges ==
  ASSUME CoreInv, NEW i \in DOMAIN calls, StepEffect(i), NEW v \in Contracts, impls'[v] # impls[v]
  PROVE  /\ v = calls[i].contract
         /\ \/ Stores(i) /\ impls'[v] = Append(impls[v], calls[i].impl)
            \/ /\ Forgets(i) /\ impls'[v] = << >> /\ impls[v] # << >> /\ Head(impls[v]) = calls[i].impl
<1>1. impls \in [Contracts -> Seq(DOMAIN txs)] /\ calls[i].contract \in Contracts
  BY Typed, CallFields DEF CoreInv, TypeOK
<1>2. ASSUME Stores(i)
      PROVE  v = calls[i].contract /\ impls'[v] = Append(impls[v], calls[i].impl)
  BY <1>1, <1>2 DEF Stores
<1>3. ASSUME Forgets(i)
      PROVE  v = calls[i].contract /\ impls'[v] = << >> /\ impls[v] # << >> /\ Head(impls[v]) = calls[i].impl
  BY <1>1, <1>3 DEF Forgets
<1>4. CASE \E leg \in Leg : Refuses(i, leg)
  BY <1>3, <1>4 DEF Refuses
<1>5. CASE Mines(i)
  BY <1>3, <1>5 DEF Mines
<1>6. CASE Fetches(i) \/ Opens(i) \/ Skips(i) \/ Checks(i) \/ Creates(i) \/ SendsCall(i)
  BY <1>6 DEF Fetches, Opens, Skips, Checks, Creates, SendsCall
<1>7. CASE Confirms(i) \/ Verifies(i) \/ Writes(i) \/ WritesBack(i) \/ Reports(i)
  BY <1>7 DEF Confirms, Verifies, Writes, WritesBack, Reports
<1> QED
  BY <1>2, <1>4, <1>5, <1>6, <1>7 DEF StepEffect

\* What was found stays found while it is good.
LEMMA FoundStays ==
  ASSUME CoreInv, NEW i \in DOMAIN calls, StepEffect(i), NEW u \in DOMAIN txs,
         txs[u].what = "implementation", txs[u].status # "reverted", txs[u].of \in Contracts, Found(u)
  PROVE  impls'[txs[u].of] # << >> /\ Head(impls'[txs[u].of]) = u
<1> DEFINE v == txs[u].of
<1>1. CASE impls'[v] = impls[v]
  BY <1>1 DEF Found
<1>2. CASE impls'[v] # impls[v]
  <2>1. ~Forgets(i) \/ Head(impls[v]) # calls[i].impl
    BY DEF Forgets, Found
  <2>2. Stores(i) /\ impls'[v] = Append(impls[v], calls[i].impl) /\ v = calls[i].contract
    BY <1>2, <2>1, RecordChanges
  <2>3. calls[i].impl \in DOMAIN txs
    <3>1. At(i, "store") /\ "store" \in Leg /\ "store" \in FetchLegs
      BY <2>2 DEF Stores, Continues, Acts, Leg, Rank, FetchLegs
    <3>2. calls[i].name \in Fetching /\ "fetch" \notin Legs(i)
      BY <3>1, AtFetch DEF CoreInv
    <3>3. ~Settled(i)
      BY <2>2 DEF Stores, Continues, Acts
    <3> QED
      BY <3>2, <3>3 DEF CoreInv, CallInv, CallFacts, Names, Knows
  <2>4. impls[v] \in Seq(DOMAIN txs)
    BY DEF CoreInv, TypeOK
  <2>5. impls'[v] # << >> /\ Head(impls'[v]) = Head(impls[v])
    BY <2>2, <2>3, <2>4, HeadOfAppend DEF Found
  <2> QED
    BY <2>5 DEF Found
<1> QED
  BY <1>1, <1>2

\* Between two steps of its call a deployment is not found yet, and nothing else is.
LEMMA StoringStays ==
  ASSUME CoreInv, NEW i \in DOMAIN calls, StepEffect(i), NEW u \in DOMAIN txs,
         txs[u].by \in DOMAIN calls, txs[u].of \in Contracts, Storing(u)
  PROVE  impls'[txs[u].of] # << >> /\ Head(impls'[txs[u].of]) = u
<1> DEFINE k == txs[u].by
<1>1. ~Settled(k) /\ "store" \in Legs(k) /\ calls[k].impl = u /\ impls[txs[u].of] = << >>
  BY DEF Storing
<1>2. \A leg \in Leg : Acts(i, leg) => i = k /\ leg = "store"
  BY <1>1, StoreIsNext
<1>3. {"open", "check", "fetch", "store", "mine", "create", "send", "confirm", "verify", "record",
       "writeBack", "report"} \subseteq Leg
  BY DEF Leg, Rank
<1>4. i = k /\ Stores(i)
  <2>1. ~Opens(i) /\ ~Skips(i) /\ ~Checks(i) /\ ~Creates(i) /\ ~SendsCall(i)
    BY <1>2, <1>3 DEF Opens, Skips, Checks, Creates, SendsCall, Continues
  <2>2. ~Fetches(i) /\ ~Mines(i)
    BY <1>2, <1>3 DEF Fetches, Mines, Continues
  <2>3. ~Confirms(i) /\ ~Verifies(i) /\ ~Writes(i) /\ ~WritesBack(i) /\ ~Reports(i)
    BY <1>2, <1>3 DEF Confirms, Verifies, Writes, WritesBack, Reports, Continues
  <2>4. \A leg \in Leg : ~Refuses(i, leg)
    BY <1>2 DEF Refuses
  <2>5. i = k
    BY <1>2, StepActs
  <2> QED
    BY <2>1, <2>2, <2>3, <2>4, <2>5 DEF StepEffect
<1>5. calls[i].impl = u /\ u # 0 /\ txs[u].of = calls[i].contract
  <2>1. u # 0
    BY Typed DEF CoreInv
  <2> QED
    BY <1>1, <1>4, <2>1 DEF CoreInv, CallInv, CallFacts, Names
<1>6. impls \in [Contracts -> Seq(DOMAIN txs)] /\ impls[txs[u].of] \in Seq(DOMAIN txs)
  BY DEF CoreInv, TypeOK
<1>7. impls'[txs[u].of] = Append(impls[txs[u].of], u)
  BY <1>1, <1>4, <1>5, <1>6, ElementsOfFew DEF Stores
<1> QED
  BY <1>1, <1>6, <1>7, HeadOfAppend

\* A new deployment is the one its call is about to store.
LEMMA NewlyCounted ==
  ASSUME CoreInv, NEW i \in DOMAIN calls, NEW u, Deployed(i, u) \/ CreatedBy(i, u) \/ SentBy(i, u),
         Counts(u)'
  PROVE  txs'[u].of \in Contracts /\ Storing(u)'
<1>1. ~CreatedBy(i, u) /\ ~SentBy(i, u)
  <2>1. calls[i].kind \in {"transparent", "uups"}
    BY Typed, CallFields DEF CoreInv
  <2> QED
    BY <2>1, NewcomerSays DEF Counts, creation, sending
<1>2. /\ Deployed(i, u) /\ txs'[u].by = i /\ txs'[u].of = calls[i].contract
      /\ impls[calls[i].contract] = << >> \/ mode(calls[i]) = "always"
      /\ calls[i].name # "forceImport" /\ calls'[i].impl = u
      /\ Fetches(i) /\ Continues(i, "fetch", {"store", "mine"})
  BY <1>1, NewcomerSays DEF Deployed
<1>3. calls'[i].redeploy = calls[i].redeploy /\ ~Settled(i)' /\ "store" \in Legs(i)' /\ impls' = impls
  BY <1>2 DEF Fetches, Continues, Acts, Same, Settled
<1>4. impls[calls[i].contract] = << >>
  BY <1>2, <1>3 DEF Counts, mode
<1>5. calls[i].contract \in Contracts
  BY Typed, CallFields DEF CoreInv
<1> QED
  BY <1>2, <1>3, <1>4, <1>5 DEF Storing

\* Every event keeps every deployment findable.
LEMMA ReuseNext == ASSUME CoreInv, ReuseInv, Event PROVE ReuseInv'
<1> SUFFICES ASSUME NEW u \in DOMAIN txs', Counts(u)'
             PROVE  (txs[u].of \in Contracts /\ (Found(u) \/ Storing(u)))'
  BY DEF ReuseInv
<1>1. Grows
  BY EventGrows
<1>2. CASE u \notin DOMAIN txs
  BY <1>2, Newcomer, NewlyCounted
<1>3. CASE u \in DOMAIN txs
  <2>1. /\ txs'[u].what = txs[u].what /\ txs'[u].by = txs[u].by /\ txs'[u].of = txs[u].of
        /\ txs[u].status # "pending" => txs'[u].status = txs[u].status
    BY <1>1, <1>3 DEF Grows, TxsStable
  <2>2. PICK k : k = txs[u].by
    OBVIOUS
  <2>3. k \in DOMAIN calls /\ calls'[k].redeploy = calls[k].redeploy /\ (Settled(k) => calls'[k] = calls[k])
    BY <1>1, <1>3, <2>1, <2>2 DEF Counts, CoreInv, ChainInv, Grows, Same
  <2>4. Counts(u)
    BY <1>3, <2>1, <2>2, <2>3 DEF Counts, Settled
  <2>5. txs[u].of \in Contracts /\ (Found(u) \/ Storing(u)) /\ txs[u].what = "implementation" /\ txs[u].status # "reverted"
    BY <1>3, <2>4 DEF ReuseInv, Counts
  <2>6. ASSUME NEW i \in DOMAIN calls, StepEffect(i) PROVE Found(u)'
    BY <1>3, <2>1, <2>2, <2>3, <2>5, <2>6, FoundStays, StoringStays DEF Found
  <2>7. ASSUME impls' = impls, calls'[k] = calls[k] PROVE (Found(u) \/ Storing(u))'
    BY <2>1, <2>2, <2>5, <2>7 DEF Found, Storing, Settled, Legs
  <2>8. ASSUME Dies PROVE calls'[k] = calls[k]
    BY <2>1, <2>2, <2>3, <2>8 DEF Dies, Counts
  <2>9. (Found(u) \/ Storing(u))'
    BY <2>3, <2>6, <2>7, <2>8 DEF Event, Called, Lands, Fails, Judges, Saves, Dies
  <2> QED
    BY <2>1, <2>5, <2>9
<1> QED
  BY <1>2, <1>3

\* Without 'always' and without a crash a version is live or under way at one address only: what
\* an earlier call deployed a later one finds.
THEOREM DeployedOnce == Spec => []ImplementationsAreReused
<1>1. Init => ReuseInv
  BY AtFirst DEF ReuseInv, Counts
<1>2. CoreInv /\ ReuseInv /\ [Next]_vars => ReuseInv'
  BY Events, ReuseNext
<1>3. CoreInv /\ ReuseInv => ImplementationsAreReused
  <2> SUFFICES ASSUME CoreInv, ReuseInv, NEW t \in DOMAIN txs, NEW u \in DOMAIN txs,
                      Counts(t), Counts(u), txs[t].of = txs[u].of
               PROVE  t = u
    BY DEF ImplementationsAreReused, Counts
  <2>1. (Found(t) \/ Storing(t)) /\ (Found(u) \/ Storing(u))
    BY DEF ReuseInv
  <2>2. CASE Storing(t) /\ Storing(u)
    <3> DEFINE i == txs[t].by
               j == txs[u].by
    <3>1. i \in DOMAIN calls /\ j \in DOMAIN calls
      BY DEF Counts, CoreInv, ChainInv
    <3>2. /\ ~Settled(i) /\ "store" \in Legs(i) /\ calls[i].impl = t
          /\ ~Settled(j) /\ "store" \in Legs(j) /\ calls[j].impl = u
      BY <2>2 DEF Storing
    <3>3. "open" \notin Legs(i) /\ "open" \notin Legs(j)
      BY <3>1, <3>2 DEF CoreInv, LegsInv, LegsAhead, Legs
    <3>4. i = j
      BY <3>1, <3>2, <3>3, OneBegun
    <3> QED
      BY <3>2, <3>4
  <2> QED
    BY <2>1, <2>2 DEF Found, Storing
<1> QED
  BY <1>1, <1>2, <1>3, CoreHolds, PTL DEF Spec

-----------------------------------------------------------------------------
(* Layouts *)

\* Its layout is stored, or went with an entry the engine dropped.
Kept(a) == Remembered(a) \/ a \in dropped

\* What a call knows of the layouts by the legs behind it.
LayoutsKnown(i) ==
  LET c == calls[i]
      legs == Legs(i)
  IN /\ legs \cap {"fetch", "store"} = {} /\ c.name \in Fetching => Kept(c.impl)
     /\ "check" \notin legs /\ c.name = "upgradeProxy" => Kept(txs[c.target].points)
     /\ "check" \notin legs /\ c.name = "forceImport" /\ Is(c.target, Upgradeable) =>
          txs[c.target].points = c.checked \/ Kept(txs[c.target].points)

\* What runs behind a proxy of this plugin, what an upgrade brings, and what a call carries.
LayoutInv ==
  /\ \A t \in DOMAIN txs :
       /\ txs[t].what \in Upgradeable /\ (txs[t].by # 0 \/ Recorded(t)) => Kept(txs[t].points)
       /\ txs[t].what = "upgrade" => Kept(txs[t].points)
  /\ \A i \in DOMAIN calls : ~Settled(i) => LayoutsKnown(i)

\* What the engine stores has been deployed.
LEMMA StoredIsThere ==
  ASSUME CoreInv, NEW i, Stores(i)
  PROVE  calls[i].impl \in DOMAIN txs
<1>1. At(i, "store") /\ "store" \in FetchLegs /\ i \in DOMAIN calls /\ ~Settled(i)
  BY DEF Stores, Continues, Acts, FetchLegs
<1>2. calls[i].name \in Fetching /\ "fetch" \notin Legs(i)
  BY <1>1, AtFetch DEF CoreInv
<1> QED
  BY <1>1, <1>2 DEF CoreInv, CallInv, CallFacts, Names, Knows

\* Only an entry that reverted leaves the record, and those it takes along are dropped.
LEMMA KeptStays ==
  ASSUME CoreInv, Event, NEW a, Is(a, {"implementation"}), Kept(a)
  PROVE  Kept(a)'
<1>1. a \in dropped => a \in dropped'
  BY EventGrows DEF Grows
<1>2. CASE impls' = impls
  BY <1>1, <1>2 DEF Kept, Remembered
<1>3. ASSUME NEW i \in DOMAIN calls, StepEffect(i), NEW v \in Contracts, a \in Elements(impls[v]) PROVE Kept(a)'
  <2>1. CASE impls'[v] = impls[v]
    BY <1>3, <2>1 DEF Kept, Remembered
  <2>2. ASSUME Stores(i), impls'[v] = Append(impls[v], calls[i].impl) PROVE Kept(a)'
    <3>1. impls[v] \in Seq(DOMAIN txs) /\ calls[i].impl \in DOMAIN txs
      BY <2>2, StoredIsThere DEF CoreInv, TypeOK
    <3>2. a \in Elements(impls'[v])
      BY <1>3, <2>2, <3>1, ElementsOfAppend
    <3> QED
      BY <3>2 DEF Kept, Remembered
  <2>3. ASSUME Forgets(i), v = calls[i].contract, impls[v] # << >>, Head(impls[v]) = calls[i].impl PROVE Kept(a)'
    <3>1. a # calls[i].impl
      BY <2>3 DEF Forgets, Is, Created
    <3>2. a \in dropped'
      BY <1>3, <2>3, <3>1 DEF Forgets
    <3> QED
      BY <3>2 DEF Kept
  <2> QED
    BY <1>3, <2>1, <2>2, <2>3, RecordChanges
<1>4. ASSUME NEW i \in DOMAIN calls, StepEffect(i) PROVE Kept(a)'
  BY <1>1, <1>3, <1>4 DEF Kept, Remembered
<1> QED
  BY <1>2, <1>4 DEF Event, Called, Lands, Fails, Judges, Saves, Dies

\* The implementation in a slot is live.
LEMMA SlotIsLive ==
  ASSUME CoreInv, NEW t \in DOMAIN txs, txs[t].what \in Upgradeable \cup {"upgrade"}
  PROVE  Is(txs[t].points, {"implementation"})
BY DEF CoreInv, ChainInv

\* A slot holds what it held, or what an upgrade brought.
LEMMA SlotKept ==
  ASSUME CoreInv, LayoutInv, Event, NEW t \in DOMAIN txs, txs[t].what \in Upgradeable \cup {"upgrade"}
  PROVE  /\ t \in DOMAIN txs' /\ txs'[t].what = txs[t].what
         /\ txs'[t].points = txs[t].points \/ Kept(txs[t].points)'
         /\ Kept(txs[t].points) => Kept(txs[t].points)'
<1>1. Grows
  BY EventGrows
<1>2. t \in DOMAIN txs' /\ txs'[t].what = txs[t].what
  BY <1>1 DEF Grows, TxsStable
<1>3. Is(txs[t].points, {"implementation"})
  BY SlotIsLive
<1>4. PICK p : p = txs[t].points
  OBVIOUS
<1>5. Kept(p) => Kept(p)'
  BY <1>3, <1>4, KeptStays
<1>6. CASE txs'[t].points = txs[t].points
  BY <1>2, <1>4, <1>5, <1>6
<1>7. ASSUME NEW u \in DOMAIN txs, Lands(u), txs[u].what = "upgrade", txs[u].at = t PROVE Kept(txs[t].points)'
  <2>1. PICK q : q = txs[u].points
    OBVIOUS
  <2>2. txs'[t].points = q
    BY <1>7, <2>1 DEF Lands
  <2>3. Is(q, {"implementation"}) /\ Kept(q)
    BY <1>7, <2>1, SlotIsLive DEF LayoutInv
  <2>4. Kept(q)'
    BY <2>3, KeptStays
  <2> QED
    BY <2>2, <2>4
<1>8. ASSUME NEW u \in DOMAIN txs, Lands(u), ~(txs[u].what = "upgrade" /\ txs[u].at = t)
      PROVE  txs'[t].points = txs[t].points
  BY <1>8 DEF Lands
<1>9. ASSUME NEW u \in DOMAIN txs, Fails(u) PROVE txs'[t].points = txs[t].points
  BY <1>9 DEF Fails
<1>10. ASSUME NEW i \in DOMAIN calls, StepEffect(i) PROVE txs'[t].points = txs[t].points
  BY <1>10, StepTxs
<1>11. CASE UNCHANGED txs
  BY <1>6, <1>11
<1> QED
  BY <1>2, <1>6, <1>7, <1>8, <1>9, <1>10, <1>11 DEF Event, Called, Saves, Dies

\* What a call knows of slots stays true while it compares with the same.
LEMMA SlotsKnown ==
  ASSUME CoreInv, LayoutInv, Event, NEW j \in DOMAIN calls, ~Settled(j), LayoutsKnown(j),
         Same(calls'[j], calls[j]), "check" \notin Legs(j), calls'[j].checked = calls[j].checked
  PROVE  /\ calls'[j].name = "upgradeProxy" => Kept(txs[calls[j].target].points)'
         /\ calls'[j].name = "forceImport" /\ Is(calls[j].target, Upgradeable)' =>
              (txs[calls[j].target].points = calls[j].checked \/ Kept(txs[calls[j].target].points))'
<1>1. PICK a : a = calls[j].target
  OBVIOUS
<1>2. calls'[j].target = a /\ calls'[j].name = calls[j].name
  BY <1>1 DEF Same
<1>3. calls[j].name \in {"upgradeProxy", "forceImport"} => Is(a, targets(calls[j].name)) /\ a \in DOMAIN txs
  BY <1>1 DEF CoreInv, CallInv, CallFacts, Names, Knows, Targeted
<1>4. Grows
  BY EventGrows
<1>5. a \in DOMAIN txs => txs'[a].what = txs[a].what
  BY <1>4 DEF Grows, TxsStable
<1>6. CASE calls[j].name = "upgradeProxy"
  <2>1. txs[a].what \in Upgradeable /\ a \in DOMAIN txs /\ Kept(txs[a].points)
    BY <1>1, <1>3, <1>6 DEF Is, targets, Upgradeable, LayoutsKnown
  <2>2. Kept(txs[a].points)'
    BY <2>1, SlotKept
  <2> QED
    BY <1>2, <1>6, <2>2
<1>7. CASE calls[j].name = "forceImport"
  <2> SUFFICES ASSUME Is(a, Upgradeable)'
               PROVE  txs'[a].points = calls'[j].checked \/ Kept(txs[a].points)'
    BY <1>2, <1>7
  <2>1. txs[a].what \in Upgradeable /\ Is(a, Upgradeable) /\ a \in DOMAIN txs
    BY <1>3, <1>5, <1>7 DEF Is, Created
  <2>2. txs[a].points = calls[j].checked \/ Kept(txs[a].points)
    BY <1>1, <1>7, <2>1 DEF LayoutsKnown
  <2> QED
    BY <2>1, <2>2, SlotKept
<1> QED
  BY <1>2, <1>6, <1>7

\* A call that has not begun has nothing to know of layouts.
LEMMA NoLayoutsYet ==
  ASSUME NEW j, "check" \in Legs(j)', calls'[j].name \in Fetching => "fetch" \in Legs(j)'
  PROVE  LayoutsKnown(j)'
BY DEF LayoutsKnown

\* The others keep what they know, when one acts and when none does.
LEMMA LayoutsOfOthers ==
  ASSUME CoreInv, NEW i \in DOMAIN calls, StepEffect(i), NEW j \in DOMAIN calls, j # i, ~Settled(j)
  PROVE  LayoutsKnown(j)'
<1>1. PICK leg \in Leg : Acts(i, leg)
  BY StepActs
<1>2. At(i, leg) /\ calls'[j] = calls[j] /\ Legs(j)' = Legs(j)
  BY <1>1, ActsAlone DEF Acts
<1>3. "check" \in Legs(j) /\ Elements(Pipeline[calls[j].name]) \subseteq Legs(j)
  BY <1>2, AtLeg DEF CoreInv
<1>4. calls[j].name \in Operation
  BY Typed, CallFields DEF CoreInv
<1>5. calls[j].name \in Fetching => "fetch" \in Legs(j)
  BY <1>3, <1>4, Pipelines
<1> QED
  BY <1>2, <1>3, <1>5, NoLayoutsYet

\* A call keeps what it knows of layouts while calls and record stand still.
LEMMA LayoutsUntouched ==
  ASSUME CoreInv, LayoutInv, Event, NEW j \in DOMAIN calls, ~Settled(j),
         calls'[j] = calls[j], impls' = impls, dropped' = dropped
  PROVE  LayoutsKnown(j)'
<1>1. LayoutsKnown(j) /\ Legs(j)' = Legs(j) /\ Same(calls'[j], calls[j])
  BY DEF LayoutInv, Legs, Same
<1>2. Legs(j)' \cap {"fetch", "store"} = {} /\ calls'[j].name \in Fetching => Kept(calls[j].impl)'
  BY <1>1 DEF LayoutsKnown, Kept, Remembered
<1>3. CASE "check" \in Legs(j)
  BY <1>1, <1>2, <1>3 DEF LayoutsKnown
<1>4. CASE "check" \notin Legs(j)
  BY <1>1, <1>2, <1>4, SlotsKnown DEF LayoutsKnown
<1> QED
  BY <1>3, <1>4

\* What the call that acts carries from the engine.
LEMMA CarriedLayout ==
  ASSUME CoreInv, LayoutInv, NEW i \in DOMAIN calls, StepEffect(i), ~Settled(i)',
         Legs(i)' \cap {"fetch", "store"} = {}, calls[i].name \in Fetching
  PROVE  Kept(calls[i].impl)'
<1>1. {"open", "check", "fetch", "store", "mine", "create", "send", "confirm", "verify", "record",
       "writeBack", "report"} \subseteq Leg
  BY DEF Leg, Rank
<1>2. ~Settled(i) /\ LayoutsKnown(i)
  BY StepActs, ActsAlone DEF LayoutInv
<1>3. \A leg, more : leg \notin {"fetch", "store"} /\ Continues(i, leg, more) => Kept(calls[i].impl)
  BY <1>2 DEF Continues, LayoutsKnown
<1>4. \A leg \in {"open", "check"} : Acts(i, leg) => "fetch" \in Legs(i)
  <2> SUFFICES ASSUME NEW leg \in {"open", "check"}, At(i, leg) PROVE "fetch" \in Legs(i)
    BY DEF Acts
  <2>1. leg \in Leg /\ Rank[leg] < Rank["fetch"] /\ "fetch" \in Leg
    BY DEF Leg, Rank
  <2>2. "fetch" \in Elements(Pipeline[calls[i].name])
    BY <2>1, OwnLeg, Pipelines
  <2> QED
    BY <2>1, <2>2, PastLeg
<1>5. CASE Opens(i) \/ Checks(i)
  BY <1>4, <1>5 DEF Opens, Checks, Continues
<1>6. CASE Skips(i)
  BY <1>6 DEF Skips, alreadyHeld, Fetching
<1>7. CASE Fetches(i)
  <2>1. impls[calls[i].contract] # << >> /\ calls'[i].impl = Head(impls[calls[i].contract]) /\ impls' = impls
    BY <1>7 DEF Fetches, Continues
  <2>2. calls[i].contract \in Contracts /\ impls[calls[i].contract] \in Seq(DOMAIN txs)
    BY Typed, CallFields DEF CoreInv, TypeOK
  <2>3. Head(impls[calls[i].contract]) \in Elements(impls[calls[i].contract])
    <3> DEFINE s == impls[calls[i].contract]
    <3>1. s \in Seq(DOMAIN txs) /\ s # << >>
      BY <2>1, <2>2
    <3> HIDE DEF s
    <3>2. Head(s) = s[1] /\ 1 \in DOMAIN s
      BY <3>1, HeadTailProperties, EmptySeq, LenProperties
    <3>3. Head(s) \in Elements(s)
      BY <3>2 DEF Elements
    <3> QED
      BY <3>3 DEF s
  <2> QED
    BY <2>1, <2>2, <2>3 DEF Kept, Remembered
<1>8. CASE Stores(i)
  <2>1. calls'[i].impl = calls[i].impl /\ calls[i].contract \in Contracts
    BY <1>8, Typed, CallFields DEF Stores, Carried, CoreInv
  <2>2. impls \in [Contracts -> Seq(DOMAIN txs)] /\ calls[i].impl \in DOMAIN txs
    BY <1>8, StoredIsThere DEF CoreInv, TypeOK
  <2>3. calls[i].impl \in Elements(impls'[calls[i].contract])
    <3> DEFINE s == impls[calls[i].contract]
    <3>1. s \in Seq(DOMAIN txs)
      BY <2>1, <2>2
    <3>2. impls'[calls[i].contract] = IF calls[i].impl \in Elements(s) THEN s ELSE Append(s, calls[i].impl)
      BY <1>8, <2>1, <2>2 DEF Stores
    <3> HIDE DEF s
    <3> QED
      BY <2>2, <3>1, <3>2, ElementsOfAppend
  <2> QED
    BY <2>1, <2>3 DEF Kept, Remembered
<1>9. CASE Mines(i)
  <2>1. Continues(i, "mine", {}) /\ UNCHANGED <<impls, dropped>> /\ calls'[i].impl = calls[i].impl
    BY <1>9 DEF Mines, Continues, Carried
  <2> QED
    BY <1>3, <2>1 DEF Kept, Remembered
<1>10. ASSUME NEW leg \in {"create", "send", "confirm", "verify", "record", "writeBack"}, Continues(i, leg, {}),
              calls'[i].impl = calls[i].impl, UNCHANGED <<impls, dropped>>
       PROVE  Kept(calls[i].impl)'
  BY <1>3, <1>10 DEF Kept, Remembered
<1>11. CASE Creates(i) \/ SendsCall(i) \/ Confirms(i)
  BY <1>10, <1>11 DEF Creates, SendsCall, Confirms
<1>12. CASE Verifies(i) \/ Writes(i) \/ WritesBack(i)
  BY <1>10, <1>12 DEF Verifies, Writes, WritesBack, Carried
<1>13. CASE Reports(i) \/ \E leg \in Leg : Refuses(i, leg)
  BY <1>13 DEF Reports, Refuses, Settled
<1> QED
  BY <1>5, <1>6, <1>7, <1>8, <1>9, <1>11, <1>12, <1>13 DEF StepEffect

\* What a call compared with is decided by its check alone.
LEMMA ComparedOnce ==
  ASSUME CoreInv, NEW i \in DOMAIN calls, StepEffect(i), ~Settled(i)', "check" \notin Legs(i)'
  PROVE  \/ Checks(i)
         \/ Skips(i) /\ calls[i].name = "transferProxyAdminOwnership"
         \/ "check" \notin Legs(i) /\ calls'[i].checked = calls[i].checked
<1>1. \A leg, more : leg # "check" /\ Continues(i, leg, more) => "check" \notin Legs(i)
  BY DEF Continues
<1>2. CASE Opens(i) \/ Stores(i) \/ Creates(i) \/ SendsCall(i) \/ Confirms(i)
  BY <1>1, <1>2 DEF Opens, Stores, Creates, SendsCall, Confirms, Carried
<1>3. CASE Fetches(i)
  BY <1>1, <1>3 DEF Fetches
<1>4. CASE Mines(i)
  BY <1>1, <1>4 DEF Mines, Carried
<1>5. CASE Verifies(i) \/ Writes(i) \/ WritesBack(i)
  BY <1>1, <1>5 DEF Verifies, Writes, WritesBack, Carried
<1>6. CASE Skips(i)
  BY <1>6 DEF Skips, alreadyHeld
<1>7. CASE Reports(i) \/ \E leg \in Leg : Refuses(i, leg)
  BY <1>7 DEF Reports, Refuses, Settled
<1> QED
  BY <1>2, <1>3, <1>4, <1>5, <1>6, <1>7 DEF StepEffect

\* The call that acts knows of layouts what its legs say.
LEMMA LayoutsActs ==
  ASSUME CoreInv, LayoutInv, Event, NEW i \in DOMAIN calls, StepEffect(i), ~Settled(i)'
  PROVE  LayoutsKnown(i)'
<1>1. ~Settled(i) /\ Same(calls'[i], calls[i]) /\ calls'[i].name = calls[i].name
  BY StepActs, ActsAlone DEF Same
<1>2. Legs(i)' \cap {"fetch", "store"} = {} /\ calls'[i].name \in Fetching => Kept(calls[i].impl)'
  BY <1>1, CarriedLayout
<1>3. ASSUME "check" \notin Legs(i)'
      PROVE  /\ calls'[i].name = "upgradeProxy" => Kept(txs[calls[i].target].points)'
             /\ calls'[i].name = "forceImport" /\ Is(calls[i].target, Upgradeable)' =>
                  (txs[calls[i].target].points = calls[i].checked \/ Kept(txs[calls[i].target].points))'
  <2>1. CASE Checks(i)
    <3>1. /\ calls'[i].target = calls[i].target /\ txs' = txs /\ impls' = impls /\ dropped' = dropped
          /\ Accepts(calls[i]) /\ calls'[i].checked = compared(calls[i])
      BY <1>1, <2>1 DEF Checks, Same
    <3>2. ASSUME calls[i].name = "upgradeProxy" PROVE Kept(txs[calls[i].target].points)'
      <4>1. Is(calls[i].target, ProxyWhats) /\ Remembered(Behind(calls[i].target))
        BY <3>1, <3>2 DEF Accepts
      <4>2. Remembered(txs[calls[i].target].points)
        BY <4>1 DEF Behind, Is, ProxyWhats
      <4> QED
        BY <3>1, <4>2 DEF Kept, Remembered
    <3>3. ASSUME calls[i].name = "forceImport", Is(calls[i].target, Upgradeable)'
          PROVE  txs'[calls'[i].target].points = calls'[i].checked
      BY <3>1, <3>3 DEF compared, Behind, Is, Upgradeable, ProxyWhats, Targeted
    <3> QED
      BY <1>1, <3>2, <3>3
  <2>2. CASE Skips(i) /\ calls[i].name = "transferProxyAdminOwnership"
    BY <1>1, <2>2
  <2>3. CASE "check" \notin Legs(i) /\ calls'[i].checked = calls[i].checked
    <3>1. LayoutsKnown(i)
      BY <1>1 DEF LayoutInv
    <3> QED
      BY <1>1, <2>3, <3>1, SlotsKnown
  <2> QED
    BY <1>3, <2>1, <2>2, <2>3, ComparedOnce
<1> QED
  BY <1>2, <1>3 DEF LayoutsKnown

\* A proxy the record takes up runs a layout that is stored.
LEMMA WrittenLayout ==
  ASSUME CoreInv, LayoutInv, NEW i \in DOMAIN calls, Writes(i), NEW t \in DOMAIN txs,
         txs[t].what \in Upgradeable, txs[t].by = 0, Recorded(t)', ~Recorded(t)
  PROVE  Kept(txs[t].points)
<1>1. /\ t = subject(calls[i]) /\ records(calls[i]) /\ Continues(i, "record", {})
      /\ At(i, "record") /\ "record" \in Leg /\ ~Settled(i)
  BY DEF Writes, Recorded, Continues, Acts, Leg, Rank
<1>2. LayoutsKnown(i) /\ Knows(i) /\ TypeOK /\ LegsInv
  BY <1>1 DEF LayoutInv, CoreInv, CallInv, CallFacts
<1>3. /\ calls[i].name \in Operation /\ {"create", "check"} \cap Legs(i) = {} /\ Legs(i) \cap FetchLegs = {}
      /\ calls[i].name \in {"deployProxy", "upgradeProxy", "deployBeaconProxy", "forceImport"}
  <2>1. "create" \notin Legs(i) /\ "check" \notin Legs(i) /\ Legs(i) \cap FetchLegs = {}
    BY <1>1, <1>2, Ahead DEF FetchLegs
  <2>2. calls[i].name \in Operation /\ "record" \in Elements(Pipeline[calls[i].name])
    BY <1>1, OwnLeg
  <2> QED
    BY <2>1, <2>2, Pipelines
<1>4. CASE calls[i].name \in {"deployProxy", "deployBeaconProxy"}
  <2>1. t = calls[i].tx /\ txs[t].by = i
    BY <1>1, <1>2, <1>3, <1>4 DEF subject, Knows, Creating
  <2>2. i # 0
    BY Typed DEF CoreInv
  <2> QED
    BY <2>1, <2>2
<1>5. CASE calls[i].name = "upgradeProxy"
  BY <1>1, <1>2, <1>3, <1>5 DEF subject, LayoutsKnown
<1>6. CASE calls[i].name = "forceImport"
  <2>1. t = calls[i].target /\ Is(t, Upgradeable)
    BY <1>1, <1>2, <1>3, <1>6 DEF subject, Knows, Targeted, Is, Created, targets
  <2>2. calls[i].impl = calls[i].checked /\ Kept(calls[i].impl)
    BY <1>2, <1>3, <1>6 DEF Knows, LayoutsKnown, FetchLegs, Fetching, Operation
  <2> QED
    BY <1>2, <1>3, <1>6, <2>1, <2>2 DEF LayoutsKnown
<1> QED
  BY <1>3, <1>4, <1>5, <1>6

\* The record takes up proxies in its own step alone.
LEMMA RecordedByWrite ==
  ASSUME CoreInv, Event, NEW t, Recorded(t)', ~Recorded(t)
  PROVE  \E i \in DOMAIN calls : Writes(i)
<1>1. proxies' # proxies
  BY DEF Recorded
<1>2. \E i \in DOMAIN calls : StepEffect(i)
  BY <1>1 DEF Event, Called, Lands, Fails, Judges, Saves, Dies
<1>3. ASSUME NEW i \in DOMAIN calls, StepEffect(i), ~Writes(i) PROVE proxies' = proxies
  BY <1>3 DEF StepEffect, Opens, Skips, Checks, Fetches, Stores, Mines, Creates, SendsCall, Confirms, Verifies,
              WritesBack, Reports, Refuses
<1> QED
  BY <1>1, <1>2, <1>3

\* What is sent runs or brings what its call fetched.
LEMMA SentLayout ==
  ASSUME CoreInv, LayoutInv, NEW i \in DOMAIN calls, StepEffect(i), NEW t,
         Deployed(i, t) \/ CreatedBy(i, t) \/ SentBy(i, t),
         txs'[t].what \in Upgradeable \cup {"upgrade"}
  PROVE  Kept(txs[t].points)'
<1>1. ~Deployed(i, t)
  BY NewcomerSays DEF Upgradeable, ProxyWhats
<1>2. {"create", "send"} \subseteq Leg /\ TypeOK /\ LegsInv
  BY DEF Leg, Rank, CoreInv
<1>3. CASE CreatedBy(i, t)
  <2>1. txs'[t].what = creation(calls[i]) /\ Creates(i) /\ Continues(i, "create", {}) /\ At(i, "create")
    BY <1>3, NewcomerSays DEF CreatedBy, Creates, Continues, Acts
  <2>2. calls[i].name # "deployBeaconProxy"
    BY <2>1 DEF creation, Upgradeable, ProxyWhats
  <2>3. calls[i].name \in Fetching
    BY <1>2, <2>1, <2>2, OwnLeg, Pipelines DEF Creating, Fetching
  <2>4. txs'[t].points = calls[i].impl /\ calls'[i].impl = calls[i].impl
    BY <1>3, <2>1, <2>2, NewcomerSays DEF Creates
  <2>5. Legs(i)' \cap {"fetch", "store"} = {} /\ ~Settled(i)'
    BY <1>2, <2>1, Ahead DEF Continues, Settled, FetchLegs
  <2>6. Kept(calls[i].impl)'
    BY <2>3, <2>5, CarriedLayout
  <2> QED
    BY <2>4, <2>6
<1>4. CASE SentBy(i, t)
  <2>1. txs'[t].what = sending(calls[i]) /\ SendsCall(i) /\ Continues(i, "send", {}) /\ At(i, "send")
    BY <1>4, NewcomerSays DEF SentBy, SendsCall, Continues, Acts
  <2>2. calls[i].name # "transferProxyAdminOwnership"
    BY <2>1 DEF sending, Upgradeable, ProxyWhats
  <2>3. calls[i].name \in Fetching
    BY <1>2, <2>1, <2>2, OwnLeg, Pipelines DEF Upgrading, Fetching
  <2>4. txs'[t].points = calls[i].impl /\ calls'[i].impl = calls[i].impl
    BY <1>4, <2>1, NewcomerSays DEF SendsCall
  <2>5. Legs(i)' \cap {"fetch", "store"} = {} /\ ~Settled(i)'
    BY <1>2, <2>1, Ahead DEF Continues, Settled, FetchLegs
  <2>6. Kept(calls[i].impl)'
    BY <2>3, <2>5, CarriedLayout
  <2> QED
    BY <2>4, <2>6
<1> QED
  BY <1>1, <1>3, <1>4

\* Every event keeps every layout stored or dropped.
LEMMA LayoutNext == ASSUME CoreInv, LayoutInv, Event PROVE LayoutInv'
<1>1. Grows
  BY EventGrows
<1>2. ASSUME NEW t \in DOMAIN txs'
      PROVE  /\ txs'[t].what \in Upgradeable /\ (txs'[t].by # 0 \/ Recorded(t)') => Kept(txs[t].points)'
             /\ txs'[t].what = "upgrade" => Kept(txs[t].points)'
  <2>1. CASE t \notin DOMAIN txs
    BY <1>2, <2>1, Newcomer, SentLayout
  <2>2. CASE t \in DOMAIN txs
    <3>1. txs'[t].what = txs[t].what /\ txs'[t].by = txs[t].by
      BY <1>1, <2>2 DEF Grows, TxsStable
    <3>2. ASSUME txs[t].what \in Upgradeable \cup {"upgrade"}, Kept(txs[t].points) PROVE Kept(txs[t].points)'
      BY <2>2, <3>2, SlotKept
    <3>3. ASSUME txs[t].what \in Upgradeable, txs[t].by = 0, Recorded(t)', ~Recorded(t) PROVE Kept(txs[t].points)
      BY <2>2, <3>3, RecordedByWrite, WrittenLayout
    <3> QED
      BY <2>2, <3>1, <3>2, <3>3 DEF LayoutInv
  <2> QED
    BY <2>1, <2>2
<1>3. ASSUME NEW j \in DOMAIN calls', ~Settled(j)' PROVE LayoutsKnown(j)'
  <2>1. ASSUME NEW new \in Nat, Called(new), j = new PROVE LayoutsKnown(j)'
    BY <2>1, NoLayoutsYet, Pipelines DEF Called
  <2>2. ASSUME NEW i \in DOMAIN calls, StepEffect(i) PROVE LayoutsKnown(j)'
    <3>1. DOMAIN calls' = DOMAIN calls /\ (j # i => ~Settled(j))
      BY <1>3, <2>2, StepActs, ActsAlone
    <3> QED
      BY <1>3, <2>2, <3>1, LayoutsActs, LayoutsOfOthers
  <2>3. ASSUME j \in DOMAIN calls, calls'[j] = calls[j], impls' = impls, dropped' = dropped PROVE LayoutsKnown(j)'
    BY <1>3, <2>3, LayoutsUntouched DEF Settled
  <2>4. ASSUME Dies PROVE j \in DOMAIN calls /\ calls'[j] = calls[j]
    BY <1>3, <2>4 DEF Dies, Settled
  <2> QED
    BY <1>3, <2>1, <2>2, <2>3, <2>4 DEF Event, Called, Lands, Fails, Judges, Saves, Dies
<1> QED
  BY <1>2, <1>3 DEF LayoutInv

\* Whatever a recorded proxy runs, its layout is stored, or went with an entry the engine dropped.
THEOREM RecordedLayoutsAreStored == Spec => []RecordedProxiesHaveLayouts
<1>1. Init => LayoutInv
  BY AtFirst DEF Init, LayoutInv, Recorded
<1>2. CoreInv /\ LayoutInv /\ [Next]_vars => LayoutInv'
  BY Events, LayoutNext
<1>3. CoreInv /\ LayoutInv => RecordedProxiesHaveLayouts
  <2> SUFFICES ASSUME CoreInv, LayoutInv, NEW p \in DOMAIN proxies, proxies[p] # "beacon"
               PROVE  Remembered(Behind(p)) \/ Behind(p) \in dropped
    BY DEF RecordedProxiesHaveLayouts
  <2>1. p \in DOMAIN txs /\ proxies[p] = RecordedKind(txs[p].what) /\ proxies[p] \in {"transparent", "uups", "beacon"}
    BY DEF CoreInv, TypeOK, RecordInv
  <2>2. txs[p].what \in ProxyWhats
    BY <2>1 DEF RecordedKind, ProxyWhats
  <2> QED
    BY <2>1, <2>2 DEF LayoutInv, Recorded, Upgradeable, ProxyWhats, Kept, Behind
<1> QED
  BY <1>1, <1>2, <1>3, CoreHolds, PTL DEF Spec

-----------------------------------------------------------------------------
(* Artifacts *)

\* The addresses an artifact may name between two calls: what the record vouches for, what it
\* dropped, and what a standalone deployment that failed left.
Vouch(a) ==
  \/ a = 0
  \/ Recorded(a)
  \/ Is(a, {"implementation"}) /\ Remembered(a)
Excused(a) ==
  \/ a \in dropped
  \/ \E j \in DOMAIN calls :
       calls[j].name \in Standalone /\ calls[j].outcome = "refused" /\ calls[j].tx = a
Good(a) == Vouch(a) \/ Excused(a)

\* The call whose fetch may have moved the user's artifact.
Fetched(i) ==
  i \in DOMAIN calls /\ ~Settled(i) /\ "check" \notin Legs(i) /\ Legs(i) \cap FetchLegs # {}

\* The artifact names the call's own deployment, which no retry leaves behind: the record has
\* nothing else for a retry to find.
Moved(i) ==
  LET c == calls[i]
      legs == Legs(i)
  IN /\ c.name # "forceImport" /\ back[c.contract] = c.tx
     /\ "fetch" \notin legs => c.impl = c.tx
     /\ \/ mode(c) = "always"
        \/ impls[c.contract] = IF legs \cap {"fetch", "store"} # {} THEN << >> ELSE <<c.impl>>

\* What a call under way knows of the user's artifact.
ArtifactKnown(i) ==
  LET c == calls[i]
      legs == Legs(i)
      own == back[c.contract]
  IN /\ Good(c.before)
     /\ "check" \in legs => own = c.before
     /\ "check" \in legs /\ c.name = "deployProxy" =>
          /\ c.named = c.before
          /\ \/ c.before = 0 \/ c.verdict = "authoritative"
             \/ c.verdict = "unrecorded" /\ Remembered(c.before)
             \/ Excused(c.before)
     /\ "check" \notin legs /\ c.name # "transferProxyAdminOwnership" => c.prior = c.before
     /\ "check" \notin legs /\ legs \cap FetchLegs # {} => own = c.prior \/ Moved(i)
     /\ c.name = "deployProxy" /\ "record" \notin legs => Recorded(c.tx)

ArtifactInv ==
  /\ \A c \in Contracts : Good(saved[c])
  /\ \A c \in Contracts : Good(back[c]) \/ \E i \in DOMAIN calls : Fetched(i) /\ calls[i].contract = c
  /\ \A i \in DOMAIN calls : ~Settled(i) /\ "open" \notin Legs(i) => ArtifactKnown(i)
  /\ \A i \in DOMAIN calls : calls[i].outcome = "stale" => Excused(calls[i].before)

\* An excuse does not go away.
LEMMA ExcusedStays == ASSUME CoreInv, Event, NEW a, Excused(a) PROVE Excused(a)'
<1>1. Grows
  BY EventGrows
<1>2. CASE a \in dropped
  BY <1>1, <1>2 DEF Grows, Excused
<1>3. ASSUME NEW j \in DOMAIN calls, calls[j].name \in Standalone, calls[j].outcome = "refused", calls[j].tx = a
      PROVE  Excused(a)'
  <2>1. j \in DOMAIN calls' /\ calls'[j] = calls[j]
    BY <1>1, <1>3 DEF Grows, Settled
  <2> QED
    BY <1>3, <2>1 DEF Excused
<1> QED
  BY <1>2, <1>3 DEF Excused

\* What an artifact may name it may name for ever.
LEMMA GoodStays == ASSUME CoreInv, Event, NEW a, Good(a) PROVE Good(a)'
<1>1. Grows
  BY EventGrows
<1>2. CASE Excused(a)
  BY <1>2, ExcusedStays DEF Good
<1>3. CASE a = 0
  BY <1>3 DEF Good, Vouch
<1>4. CASE Recorded(a)
  BY <1>1, <1>4 DEF Good, Vouch, Grows, Recorded
<1>5. CASE Is(a, {"implementation"}) /\ Remembered(a)
  <2>1. Kept(a)'
    BY <1>5, KeptStays DEF Kept
  <2>2. LiveAfter(a, {"implementation"})
    BY <1>1, <1>5, LiveStays DEF Grows
  <2> QED
    BY <2>1, <2>2 DEF Kept, Good, Vouch, Excused, Is, Created, LiveAfter
<1> QED
  BY <1>2, <1>3, <1>4, <1>5 DEF Good, Vouch

\* Between two steps of a call that is not fetching, every artifact names what it may.
LEMMA BackIsGood ==
  ASSUME CoreInv, ArtifactInv, NEW i, NEW leg \in Leg, At(i, leg), ~Fetched(i), NEW c \in Contracts
  PROVE  Good(back[c])
<1>1. \A j \in DOMAIN calls : j # i /\ ~Settled(j) => "check" \in Legs(j)
  BY AtLeg DEF CoreInv
<1> QED
  BY <1>1 DEF ArtifactInv, Fetched

\* Where the fetching legs put the artifact they may leave it.
LEMMA MovedIsGood ==
  ASSUME CoreInv, LayoutInv, ArtifactInv, NEW i, At(i, "mine"), txs[calls[i].impl].status = "landed",
         Moved(i)
  PROVE  Good(back[calls[i].contract])
<1>1. /\ "mine" \in Leg /\ "mine" \in FetchLegs /\ TypeOK /\ LegsInv /\ i \in DOMAIN calls /\ ~Settled(i)
  BY DEF Leg, Rank, FetchLegs, CoreInv, At
<1>2. calls[i].name \in Fetching /\ Legs(i) \cap {"open", "check", "fetch", "store"} = {}
  BY <1>1, AtFetch
<1>3. Kept(calls[i].impl)
  BY <1>1, <1>2 DEF LayoutInv, LayoutsKnown
<1>4. Is(calls[i].impl, {"implementation"})
  BY <1>1, <1>2 DEF CoreInv, CallInv, CallFacts, Names, Knows, Is, Created
<1>5. back[calls[i].contract] = calls[i].impl
  BY <1>2 DEF Moved
<1> QED
  BY <1>3, <1>4, <1>5 DEF Kept, Good, Vouch, Excused

\* Once its check is behind it, what a call keeps from leg to leg.
LEMMA KnownOn ==
  ASSUME CoreInv, Event, NEW i \in DOMAIN calls, ArtifactKnown(i), "check" \notin Legs(i),
         "check" \notin Legs(i)', Same(calls'[i], calls[i]),
         calls'[i].before = calls[i].before, calls'[i].prior = calls[i].prior,
         Legs(i)' \cap FetchLegs # {} => back'[calls[i].contract] = calls[i].prior \/ Moved(i)',
         calls[i].name = "deployProxy" /\ "record" \notin Legs(i)' => Recorded(calls[i].tx)'
  PROVE  ArtifactKnown(i)'
<1>1. PICK a : a = calls[i].before
  OBVIOUS
<1>2. Good(a)'
  BY <1>1, GoodStays DEF ArtifactKnown
<1>3. Good(calls[i].before)'
  BY <1>1, <1>2 DEF Good, Vouch, Excused
<1>4. calls[i].name # "transferProxyAdminOwnership" => calls[i].prior = calls[i].before
  BY DEF ArtifactKnown
<1>5. calls'[i].name = calls[i].name /\ calls'[i].contract = calls[i].contract
  BY DEF Same
<1> QED
  BY <1>3, <1>4, <1>5 DEF ArtifactKnown

\* What an artifact keeps naming stays good.
LEMMA StaysGood ==
  ASSUME CoreInv, Event, NEW v, NEW a, Good(a), back'[v] = a
  PROVE  Good(back[v])'
<1>1. Good(a)'
  BY GoodStays
<1> QED
  BY <1>1 DEF Good, Vouch, Excused

\* A call that has begun knows of its artifact.
LEMMA KnowsItsArtifact ==
  ASSUME CoreInv, ArtifactInv, NEW i, NEW leg \in Leg, leg # "open", At(i, leg)
  PROVE  ArtifactKnown(i)
<1>1. TypeOK /\ LegsInv /\ leg \in Leg
  BY DEF CoreInv
<1>2. "open" \notin Legs(i) /\ i \in DOMAIN calls /\ ~Settled(i)
  BY <1>1, Ahead DEF At
<1> QED
  BY <1>2 DEF ArtifactInv

\* While one call acts, the artifacts of the other versions name what they may.
LEMMA OtherBacks ==
  ASSUME CoreInv, ArtifactInv, NEW i, NEW leg \in Leg, At(i, leg), NEW c \in Contracts, c # calls[i].contract
  PROVE  Good(back[c])
<1>1. \A j \in DOMAIN calls : j # i /\ ~Settled(j) => "check" \in Legs(j)
  BY AtLeg DEF CoreInv
<1> QED
  BY <1>1 DEF ArtifactInv, Fetched

\* A step writes no artifact but its own contract's and a facade's.
LEMMA BackElsewhere ==
  ASSUME CoreInv, NEW i \in DOMAIN calls, StepEffect(i), NEW c \in Contracts
  PROVE  \/ back'[c] = back[c]
         \/ /\ c = calls[i].contract
            /\ \/ Fetches(i) \/ WritesBack(i) \/ \E leg \in Leg : Refuses(i, leg)
<1>1. c \notin Facades /\ back \in [Contracts \cup Facades -> Address]
  BY OperationsAssumption DEF CoreInv, TypeOK, Facades
<1>2. Facade(calls[i]) \in Facades
  BY DEF Facade, Facades
<1>3. CASE Creates(i)
  BY <1>1, <1>2, <1>3 DEF Creates
<1>4. CASE Fetches(i)
  BY <1>1, <1>4 DEF Fetches
<1>5. CASE WritesBack(i)
  BY <1>1, <1>5 DEF WritesBack
<1>6. ASSUME NEW leg \in Leg, Refuses(i, leg) PROVE back'[c] = back[c] \/ c = calls[i].contract
  <2>1. undone(calls[i])[c] = back[c] \/ c = calls[i].contract
    BY <1>1, <1>2 DEF undone
  <2>2. undone(calls[i]) \in [Contracts \cup Facades -> Address]
    BY <1>1, <1>2, <1>6, Typed, CallFields DEF undone, CoreInv, Address
  <2> QED
    BY <1>1, <1>6, <2>1, <2>2 DEF Refuses, restored
<1>7. CASE Opens(i) \/ Skips(i) \/ Checks(i) \/ Stores(i) \/ Mines(i) \/ SendsCall(i) \/ Confirms(i) \/ Verifies(i)
            \/ Writes(i) \/ Reports(i)
  BY <1>7 DEF Opens, Skips, Checks, Stores, Mines, SendsCall, Confirms, Verifies, Writes, Reports
<1> QED
  BY <1>3, <1>4, <1>5, <1>6, <1>7 DEF StepEffect

\* A deployProxy that has not come to its record has it ahead.
LEMMA RecordAhead ==
  ASSUME CoreInv, NEW i, NEW leg \in Leg \ {"record", "writeBack", "report"}, At(i, leg),
         calls[i].name = "deployProxy"
  PROVE  "record" \in Legs(i)
<1>1. "record" \in Leg /\ Rank[leg] < Rank["record"]
  BY DEF Leg, Rank
<1>2. "record" \in Elements(Pipeline[calls[i].name])
  BY OwnLeg, Pipelines
<1> QED
  BY <1>1, <1>2, PastLeg

\* What a step of call i leaves its own artifact, and what the call then knows of it.
Settles(i) ==
  /\ ~Settled(i)' => ArtifactKnown(i)'
  /\ \A v \in Contracts : v = calls[i].contract => Good(back[v])' \/ Fetched(i)'

\* A leg that leaves the artifact alone, away from the fetching ones.
LEMMA SettlesPlainly ==
  ASSUME CoreInv, ArtifactInv, Event, NEW i \in DOMAIN calls, NEW leg \in Leg, Continues(i, leg, {}),
         leg \notin {"open", "check"} \cup FetchLegs,
         calls'[i].before = calls[i].before, calls'[i].prior = calls[i].prior,
         \A v \in Contracts : v = calls[i].contract => Good(back[v])',
         calls[i].name = "deployProxy" /\ "record" \notin Legs(i)' => Recorded(calls[i].tx)'
  PROVE  Settles(i)
<1>1. /\ At(i, leg) /\ ~Settled(i) /\ Same(calls'[i], calls[i]) /\ Legs(i)' = Legs(i) \ {leg}
      /\ TypeOK /\ LegsInv
  BY DEF Continues, Acts, CoreInv
<1>2. "check" \notin Legs(i) /\ Legs(i) \cap FetchLegs = {} /\ leg # "open"
  BY <1>1, Ahead
<1>3. ArtifactKnown(i)
  BY <1>1, <1>2, KnowsItsArtifact
<1>4. "check" \notin Legs(i)' /\ Legs(i)' \cap FetchLegs = {}
  BY <1>1, <1>2
<1>5. ArtifactKnown(i)'
  BY <1>1, <1>2, <1>3, <1>4, KnownOn
<1> QED
  BY <1>5 DEF Settles

\* The artifact of the call that acts, where a leg does not fetch and leaves it alone.
LEMMA OwnStaysGood ==
  ASSUME CoreInv, ArtifactInv, Event, NEW i \in DOMAIN calls, StepEffect(i), NEW leg \in Leg, At(i, leg),
         leg \notin FetchLegs, NEW c \in Contracts, back'[c] = back[c]
  PROVE  Good(back[c])'
<1>1. TypeOK /\ LegsInv
  BY DEF CoreInv
<1>2. ~Fetched(i)
  <2>1. CASE leg \in {"open", "check"}
    <3>1. "check" \in Legs(i)
      <4>1. leg \in Legs(i) /\ LegsAhead(calls[i].name, calls[i].todo) /\ calls[i].name \in Operation
        BY <1>1, AtLeg
      <4>2. "open" \in Legs(i) => "check" \in Legs(i)
        BY <4>1, NotBegun DEF Legs
      <4> QED
        BY <2>1, <4>1, <4>2
    <3> QED
      BY <3>1 DEF Fetched
  <2>2. CASE leg \notin {"open", "check"}
    <3>1. Legs(i) \cap FetchLegs = {}
      BY <1>1, <2>2, Ahead
    <3> QED
      BY <3>1 DEF Fetched
  <2> QED
    BY <2>1, <2>2
<1>3. PICK a : a = back[c]
  OBVIOUS
<1>4. Good(a)
  BY <1>2, <1>3, BackIsGood
<1> QED
  BY <1>3, <1>4, StaysGood

\* The legs after the fetching ones.
LEMMA LaterLegsSettle ==
  ASSUME CoreInv, ArtifactInv, Event, NEW i \in DOMAIN calls,
         Creates(i) \/ SendsCall(i) \/ Confirms(i) \/ Verifies(i) \/ Writes(i) \/ WritesBack(i)
  PROVE  Settles(i)
<1>1. {"create", "send", "confirm", "verify", "record", "writeBack"} \subseteq Leg
      /\ {"create", "send", "confirm", "verify", "record", "writeBack"}
           \cap ({"open", "check"} \cup FetchLegs) = {}
  BY DEF Leg, Rank, FetchLegs
<1>2. StepEffect(i)
  BY DEF StepEffect
<1>3. /\ calls'[i].before = calls[i].before /\ calls'[i].prior = calls[i].prior
  BY DEF Creates, SendsCall, Confirms, Verifies, Writes, WritesBack, Carried
<1>4. \A v \in Contracts : back'[v] = back[v] \/ (WritesBack(i) /\ v = calls[i].contract)
  <2>1. \A leg \in Leg : ~Refuses(i, leg)
    BY DEF Refuses, Creates, SendsCall, Confirms, Verifies, Writes, WritesBack, Continues
  <2>2. ~Fetches(i)
    <3>1. \A leg, more : leg # "fetch" /\ Continues(i, leg, more) => Head(calls[i].todo) # "fetch"
      BY DEF Continues, Acts, At
    <3>2. Head(calls[i].todo) # "fetch"
      BY <3>1 DEF Creates, SendsCall, Confirms, Verifies, Writes, WritesBack
    <3> QED
      BY <3>2 DEF Fetches, Continues, Acts, At
  <2> QED
    BY <1>2, <2>1, <2>2, BackElsewhere
<1>5. ASSUME NEW leg \in {"create", "send", "confirm", "verify"}, Continues(i, leg, {}), ~WritesBack(i)
      PROVE  Settles(i)
  <2>1. At(i, leg) /\ leg \in Leg /\ Legs(i)' = Legs(i) \ {leg}
    BY <1>1, <1>5 DEF Continues, Acts
  <2>2. \A v \in Contracts : v = calls[i].contract => Good(back[v])'
    BY <1>1, <1>2, <1>4, <1>5, <2>1, OwnStaysGood
  <2>3. calls[i].name = "deployProxy" => "record" \in Legs(i)'
    BY <1>5, <2>1, RecordAhead
  <2> QED
    BY <1>1, <1>3, <1>5, <2>2, <2>3, SettlesPlainly
<1>6. CASE Creates(i) \/ SendsCall(i) \/ Confirms(i) \/ Verifies(i)
  <2>1. PICK leg \in {"create", "send", "confirm", "verify"} : Continues(i, leg, {})
    BY <1>6 DEF Creates, SendsCall, Confirms, Verifies
  <2>2. ~WritesBack(i)
    BY <2>1 DEF WritesBack, Continues, Acts, At
  <2> QED
    BY <1>5, <2>1, <2>2
<1>7. CASE Writes(i)
  <2>1. Continues(i, "record", {}) /\ At(i, "record") /\ "record" \in Leg /\ ~WritesBack(i)
    BY <1>1, <1>7 DEF Writes, WritesBack, Continues, Acts, At
  <2>2. \A v \in Contracts : v = calls[i].contract => Good(back[v])'
    BY <1>1, <1>2, <1>4, <2>1, OwnStaysGood
  <2>3. calls[i].name = "deployProxy" => Recorded(calls[i].tx)'
    BY <1>7 DEF Writes, records, subject, Recorded, Carried
  <2> QED
    BY <1>1, <1>3, <2>1, <2>2, <2>3, SettlesPlainly
<1>8. CASE WritesBack(i)
  <2>1. Continues(i, "writeBack", {}) /\ At(i, "writeBack") /\ "writeBack" \in Leg
    BY <1>1, <1>8 DEF WritesBack, Continues, Acts
  <2>2. calls[i].name = "deployProxy"
    BY <2>1, OwnLeg, Pipelines
  <2>3. "record" \notin Legs(i)
    BY <2>1, Ahead DEF CoreInv
  <2>4. Recorded(calls[i].tx)
    BY <2>1, <2>2, <2>3, KnowsItsArtifact DEF ArtifactKnown
  <2>5. Recorded(calls[i].tx)'
    BY <1>8, <2>4 DEF WritesBack, Carried, Recorded
  <2>6. ASSUME NEW v \in Contracts, v = calls[i].contract PROVE Good(back[v])'
    <3>1. PICK a : a = calls[i].tx
      OBVIOUS
    <3>2. back'[v] = a
      BY <1>8, <2>6, <3>1 DEF WritesBack, CoreInv, TypeOK
    <3>3. Good(a)
      BY <2>4, <3>1 DEF Good, Vouch
    <3> QED
      BY <3>2, <3>3, StaysGood
  <2> QED
    BY <1>1, <1>3, <2>1, <2>5, <2>6, SettlesPlainly
<1> QED
  BY <1>6, <1>7, <1>8

\* The fetching legs.
LEMMA FetchSettles ==
  ASSUME CoreInv, ArtifactInv, Event, NEW i \in DOMAIN calls, Fetches(i)
  PROVE  Settles(i)
<1>1. /\ "fetch" \in Leg /\ "fetch" \in FetchLegs /\ TypeOK /\ LegsInv /\ At(i, "fetch")
  BY DEF Leg, Rank, FetchLegs, CoreInv, Fetches, Continues, Acts
<1>2. /\ calls[i].name \in Fetching /\ Legs(i) \cap {"open", "check", "store", "mine"} = {} /\ "fetch" \in Legs(i)
      /\ calls[i].contract \in Contracts /\ calls[i] \in Call
  BY <1>1, AtFetch, AtLeg
<1>3. ArtifactKnown(i)
  BY <1>1, KnowsItsArtifact
<1>4. calls[i].name = "deployProxy" => "record" \in Legs(i)
  BY <1>1, RecordAhead
<1>5. /\ calls'[i].before = calls[i].before /\ calls'[i].prior = calls[i].prior /\ Same(calls'[i], calls[i])
      /\ calls'[i].outcome = "" /\ impls' = impls /\ DOMAIN calls' = DOMAIN calls
      /\ \E more \in {{"mine"}, {"store", "mine"}} : Legs(i)' = more \cup (Legs(i) \ {"fetch"})
  BY DEF Fetches, Continues, Acts
<1>6. /\ "check" \notin Legs(i)' /\ "mine" \in Legs(i)' /\ "fetch" \notin Legs(i)'
      /\ calls[i].name = "deployProxy" => "record" \in Legs(i)'
  BY <1>2, <1>4, <1>5
<1>7. back'[calls[i].contract] = calls[i].prior \/ Moved(i)'
  <2>1. CASE back' = back
    <3>1. back[calls[i].contract] = calls[i].prior \/ Moved(i)
      BY <1>1, <1>2, <1>3 DEF ArtifactKnown
    <3>2. ~Moved(i)
      <4>1. Legs(i) \cap {"fetch", "store"} # {}
        BY <1>2
      <4>2. CASE impls[calls[i].contract] # << >> /\ mode(calls[i]) # "always"
        BY <4>1, <4>2 DEF Moved
      <4>3. CASE calls[i].name = "forceImport"
        BY <4>3 DEF Moved
      <4>4. CASE calls[i].name # "forceImport" /\ ~(impls[calls[i].contract] # << >> /\ mode(calls[i]) # "always")
        <5>1. back' = [back EXCEPT ![calls[i].contract] = Len(txs) + 1] /\ Len(txs) + 1 \notin DOMAIN txs
          BY <4>4 DEF Fetches, Sends
        <5>2. back \in [Contracts \cup Facades -> Address]
          BY <1>1 DEF TypeOK
        <5>3. back[calls[i].contract] = Len(txs) + 1
          BY <1>2, <2>1, <5>1, <5>2
        <5>4. Moved(i) => calls[i].tx = Len(txs) + 1
          BY <5>3 DEF Moved
        <5>5. calls[i].tx \in {0} \cup DOMAIN txs /\ Len(txs) \in Nat
          BY <1>1, Typed DEF CoreInv, CallInv, CallFacts, Names
        <5> QED
          BY <5>1, <5>4, <5>5
      <4> QED
        BY <4>2, <4>3, <4>4
    <3> QED
      BY <2>1, <3>1, <3>2
  <2>2. ASSUME back' # back PROVE Moved(i)'
    <3>1. /\ ~(impls[calls[i].contract] # << >> /\ mode(calls[i]) # "always") /\ calls[i].name # "forceImport"
          /\ Legs(i)' = {"store", "mine"} \cup (Legs(i) \ {"fetch"})
          /\ calls'[i].impl = Len(txs) + 1 /\ calls'[i].tx = Len(txs) + 1
          /\ back' = [back EXCEPT ![calls[i].contract] = Len(txs) + 1]
      BY <2>2 DEF Fetches, Continues
    <3>2. back'[calls[i].contract] = calls'[i].tx
      BY <1>1, <1>2, <3>1 DEF TypeOK
    <3>3. mode(calls'[i]) = mode(calls[i]) /\ calls'[i].contract = calls[i].contract /\ calls'[i].name = calls[i].name
      BY <1>5 DEF Same, mode
    <3>4. "store" \in Legs(i)'
      BY <3>1
    <3> QED
      BY <1>5, <3>1, <3>2, <3>3, <3>4 DEF Moved
  <2> QED
    BY <2>1, <2>2
<1>8. ArtifactKnown(i)'
  BY <1>2, <1>3, <1>5, <1>6, <1>7, KnownOn
<1>9. Fetched(i)'
  BY <1>5, <1>6 DEF Fetched, Settled, FetchLegs
<1> QED
  BY <1>8, <1>9 DEF Settles

\* The engine stores the address the artifact names, or leaves it alone.
LEMMA StoreSettles ==
  ASSUME CoreInv, ArtifactInv, Event, NEW i \in DOMAIN calls, Stores(i)
  PROVE  Settles(i)
<1>1. /\ "store" \in Leg /\ "store" \in FetchLegs /\ TypeOK /\ LegsInv /\ At(i, "store")
  BY DEF Leg, Rank, FetchLegs, CoreInv, Stores, Continues, Acts
<1>2. /\ calls[i].name \in Fetching /\ Legs(i) \cap {"open", "check", "fetch"} = {} /\ {"store", "mine"} \subseteq Legs(i)
      /\ calls[i].contract \in Contracts /\ calls[i] \in Call
  BY <1>1, AtFetch, AtLeg
<1>3. ArtifactKnown(i)
  BY <1>1, KnowsItsArtifact
<1>4. calls[i].name = "deployProxy" => "record" \in Legs(i)
  BY <1>1, RecordAhead
<1>5. /\ Carried(calls'[i], calls[i]) /\ Same(calls'[i], calls[i])
      /\ calls'[i].outcome = "" /\ back' = back /\ DOMAIN calls' = DOMAIN calls
      /\ Legs(i)' = Legs(i) \ {"store"}
  BY DEF Stores, Continues, Acts
<1>6. /\ Legs(i)' \cap {"check", "fetch", "store"} = {} /\ "mine" \in Legs(i)'
      /\ calls[i].name = "deployProxy" => "record" \in Legs(i)'
  BY <1>2, <1>4, <1>5
<1>7. ASSUME Moved(i) PROVE Moved(i)'
  <2>1. mode(calls'[i]) = mode(calls[i]) /\ calls'[i].contract = calls[i].contract /\ calls'[i].name = calls[i].name
    BY <1>5 DEF Same, mode
  <2>2. /\ calls[i].name # "forceImport" /\ back[calls[i].contract] = calls[i].tx /\ calls[i].impl = calls[i].tx
        /\ mode(calls[i]) = "always" \/ impls[calls[i].contract] = << >>
    BY <1>2, <1>7 DEF Moved
  <2>3. impls[calls[i].contract] = << >> => impls'[calls[i].contract] = <<calls[i].impl>>
    <3> SUFFICES ASSUME impls[calls[i].contract] = << >> PROVE impls'[calls[i].contract] = <<calls[i].impl>>
      OBVIOUS
    <3>1. calls[i].impl \notin Elements(<< >>) /\ Append(<< >>, calls[i].impl) = <<calls[i].impl>>
      BY ElementsOfFew
    <3>2. impls' = [impls EXCEPT ![calls[i].contract] = Append(<< >>, calls[i].impl)]
      BY <3>1 DEF Stores
    <3> QED
      BY <1>1, <1>2, <3>1, <3>2 DEF TypeOK
  <2> QED
    BY <1>5, <1>6, <2>1, <2>2, <2>3 DEF Moved, Carried
<1>8. back'[calls[i].contract] = calls[i].prior \/ Moved(i)'
  BY <1>1, <1>2, <1>3, <1>5, <1>7 DEF ArtifactKnown
<1>9. ArtifactKnown(i)'
  BY <1>2, <1>3, <1>5, <1>6, <1>8, KnownOn DEF Carried
<1>10. Fetched(i)'
  BY <1>5, <1>6 DEF Fetched, Settled, FetchLegs
<1> QED
  BY <1>9, <1>10 DEF Settles

\* A live implementation is one the artifact may name; an invalid one is fetched anew.
LEMMA MineSettles ==
  ASSUME CoreInv, LayoutInv, ArtifactInv, Event, NEW i \in DOMAIN calls, Mines(i)
  PROVE  Settles(i)
<1>1. /\ "mine" \in Leg /\ "mine" \in FetchLegs /\ TypeOK /\ LegsInv /\ At(i, "mine")
  BY DEF Leg, Rank, FetchLegs, CoreInv, Mines, Continues, Acts
<1>2. /\ calls[i].name \in Fetching /\ Legs(i) \cap {"open", "check", "fetch", "store"} = {} /\ "mine" \in Legs(i)
      /\ calls[i].contract \in Contracts /\ calls[i] \in Call
  BY <1>1, AtFetch, AtLeg
<1>3. ArtifactKnown(i) /\ (back[calls[i].contract] = calls[i].prior \/ Moved(i))
  BY <1>1, <1>2, KnowsItsArtifact DEF ArtifactKnown
<1>4. calls[i].name = "deployProxy" => "record" \in Legs(i)
  BY <1>1, RecordAhead
<1>5. /\ Carried(calls'[i], calls[i]) /\ Same(calls'[i], calls[i])
      /\ calls'[i].outcome = "" /\ back' = back /\ DOMAIN calls' = DOMAIN calls
  BY DEF Mines, Continues, Acts
<1>6. CASE txs[calls[i].impl].status = "landed" /\ Continues(i, "mine", {})
  <2>1. Legs(i)' = Legs(i) \ {"mine"}
    BY <1>6 DEF Continues
  <2>2. Legs(i)' \cap FetchLegs = {} /\ "check" \notin Legs(i)' /\ (calls[i].name = "deployProxy" => "record" \in Legs(i)')
    BY <1>2, <1>4, <2>1 DEF FetchLegs
  <2>3. ArtifactKnown(i)'
    BY <1>2, <1>3, <1>5, <2>2, KnownOn DEF Carried
  <2>4. PICK a : a = back[calls[i].contract]
    OBVIOUS
  <2>5. Good(a)
    <3>1. calls[i].prior = calls[i].before /\ Good(calls[i].before)
      BY <1>2, <1>3 DEF ArtifactKnown, Fetching
    <3> QED
      BY <1>1, <1>3, <1>6, <2>4, <3>1, MovedIsGood
  <2>6. \A v \in Contracts : v = calls[i].contract => Good(back[v])'
    BY <1>5, <2>4, <2>5, StaysGood
  <2> QED
    BY <2>3, <2>6 DEF Settles
<1>7. CASE Forgets(i) /\ retries(calls[i]) /\ Continues(i, "mine", {"fetch"})
  <2>1. Legs(i)' = {"fetch"} \cup (Legs(i) \ {"mine"})
    BY <1>7 DEF Continues
  <2>2. "fetch" \in Legs(i)' /\ "check" \notin Legs(i)' /\ (calls[i].name = "deployProxy" => "record" \in Legs(i)')
    BY <1>2, <1>4, <2>1
  <2>3. ASSUME Moved(i) PROVE Moved(i)'
    <3>1. mode(calls'[i]) = mode(calls[i]) /\ calls'[i].contract = calls[i].contract /\ calls'[i].name = calls[i].name
      BY <1>5 DEF Same, mode
    <3>2. /\ calls[i].name # "forceImport" /\ back[calls[i].contract] = calls[i].tx
          /\ mode(calls[i]) = "always" \/ impls[calls[i].contract] = <<calls[i].impl>>
      BY <1>2, <2>3 DEF Moved
    <3>3. impls[calls[i].contract] = <<calls[i].impl>> => impls'[calls[i].contract] = << >>
      BY <1>1, <1>2, <1>7 DEF Forgets, TypeOK
    <3> QED
      BY <1>5, <2>2, <3>1, <3>2, <3>3 DEF Moved, Carried
  <2>4. ArtifactKnown(i)'
    BY <1>2, <1>3, <1>5, <2>2, <2>3, KnownOn DEF Carried
  <2>5. Fetched(i)'
    BY <1>5, <2>2 DEF Fetched, Settled, FetchLegs
  <2> QED
    BY <2>4, <2>5 DEF Settles
<1> QED
  BY <1>6, <1>7 DEF Mines

\* Opening: the call reads the artifact, and what the record says of it.
LEMMA OpenSettles ==
  ASSUME CoreInv, ArtifactInv, Event, NEW i \in DOMAIN calls, Opens(i)
  PROVE  Settles(i)
<1>1. /\ "open" \in Leg /\ "open" \notin FetchLegs /\ TypeOK /\ LegsInv /\ RecordInv /\ At(i, "open") /\ StepEffect(i)
  BY DEF Leg, Rank, FetchLegs, CoreInv, Opens, Continues, Acts, StepEffect
<1>2. calls[i].contract \in Contracts /\ "check" \in Legs(i)
  BY <1>1, AtLeg, NotBegun DEF Legs
<1>3. PICK a : a = back[calls[i].contract]
  OBVIOUS
<1>4. /\ Same(calls'[i], calls[i]) /\ calls'[i].before = a /\ "check" \in Legs(i)'
      /\ calls[i].name = "deployProxy" => calls'[i].named = a /\ calls'[i].verdict = VerdictFor(a)
      /\ UNCHANGED <<txs, impls, proxies, back, dropped>>
  BY <1>2, <1>3 DEF Opens, Continues, Acts
<1>5. Good(a) /\ Good(a)' /\ Good(back[calls[i].contract])'
  <2>1. ~Fetched(i)
    BY <1>2 DEF Fetched
  <2>2. Good(a)
    BY <1>1, <1>2, <1>3, <2>1, BackIsGood
  <2>3. calls'[i].contract = calls[i].contract /\ back'[calls[i].contract] = a
    BY <1>3, <1>4 DEF Same
  <2>4. Good(a)'
    BY <2>2, GoodStays
  <2> QED
    BY <2>2, <2>3, <2>4 DEF Good, Vouch, Excused
<1>6. ASSUME calls[i].name = "deployProxy"
      PROVE  \/ a = 0 \/ calls'[i].verdict = "authoritative"
             \/ calls'[i].verdict = "unrecorded" /\ Remembered(a)
             \/ Excused(a)
  <2>1. CASE Recorded(a)
    <3>1. Created(a)
      BY <1>1, <2>1 DEF RecordInv, Recorded
    <3> QED
      BY <1>4, <1>6, <2>1, <3>1 DEF VerdictFor
  <2>2. CASE ~Recorded(a) /\ Is(a, {"implementation"}) /\ Remembered(a)
    BY <1>4, <1>6, <2>2 DEF VerdictFor, Is
  <2> QED
    BY <1>5, <2>1, <2>2 DEF Good, Vouch
<1>7. Excused(a) => Excused(a)'
  BY ExcusedStays
<1>8. ArtifactKnown(i)'
  <2>1. Good(calls[i].before)'
    BY <1>4, <1>5 DEF Good, Vouch, Excused
  <2>2. back'[calls'[i].contract] = calls'[i].before
    BY <1>3, <1>4 DEF Same
  <2>3. calls'[i].name = calls[i].name
    BY <1>4 DEF Same
  <2>4. Remembered(a) => Remembered(a)'
    BY <1>4 DEF Remembered
  <2>5. Excused(a)' => Excused(calls[i].before)'
    BY <1>4 DEF Excused
  <2>6. Remembered(a)' => Remembered(calls[i].before)'
    BY <1>4 DEF Remembered
  <2>7. ASSUME calls[i].name = "deployProxy"
        PROVE  /\ calls'[i].named = calls'[i].before
               /\ \/ calls'[i].before = 0 \/ calls'[i].verdict = "authoritative"
                  \/ calls'[i].verdict = "unrecorded" /\ Remembered(calls[i].before)'
                  \/ Excused(calls[i].before)'
    BY <1>4, <1>6, <1>7, <2>4, <2>5, <2>6, <2>7
  <2>8. calls[i].name = "deployProxy" => "record" \in Legs(i)'
    BY <1>1, RecordAhead DEF Opens, Continues
  <2> QED
    BY <1>4, <2>1, <2>2, <2>3, <2>7, <2>8 DEF ArtifactKnown
<1>9. \A v \in Contracts : v = calls[i].contract => Good(back[v])'
  <2> SUFFICES ASSUME NEW v \in Contracts, v = calls[i].contract PROVE Good(back[v])'
    OBVIOUS
  <2>1. back'[v] = a
    BY <1>3, <1>4
  <2> QED
    BY <1>5, <2>1, StaysGood
<1> QED
  BY <1>8, <1>9 DEF Settles

\* Checking: the artifact is captured as it was found.
LEMMA CheckSettles ==
  ASSUME CoreInv, ArtifactInv, Event, NEW i \in DOMAIN calls, Checks(i)
  PROVE  Settles(i)
<1>1. /\ "check" \in Leg /\ "check" \notin FetchLegs /\ TypeOK /\ LegsInv /\ At(i, "check") /\ StepEffect(i)
  BY DEF Leg, Rank, FetchLegs, CoreInv, Checks, Continues, Acts, StepEffect
<1>2. "check" \in Legs(i) /\ calls[i].contract \in Contracts
  BY <1>1, AtLeg
<1>3. ArtifactKnown(i)
  BY <1>1, KnowsItsArtifact
<1>4. calls[i].name = "deployProxy" => "record" \in Legs(i)
  BY <1>1, RecordAhead
<1>5. PICK a : a = calls[i].before
  OBVIOUS
<1>6. Good(a) /\ back[calls[i].contract] = a
  BY <1>2, <1>3, <1>5 DEF ArtifactKnown
<1>7. /\ Same(calls'[i], calls[i]) /\ calls'[i].before = a /\ calls'[i].prior = a /\ back' = back
      /\ Legs(i)' = Legs(i) \ {"check"}
  BY <1>5, <1>6 DEF Checks, Continues, Acts
<1>8. Good(a)'
  BY <1>6, GoodStays
<1>9. ArtifactKnown(i)'
  <2>1. Good(calls[i].before)'
    BY <1>7, <1>8 DEF Good, Vouch, Excused
  <2>2. back'[calls'[i].contract] = calls'[i].prior /\ calls'[i].name = calls[i].name
    BY <1>6, <1>7 DEF Same
  <2>3. "check" \notin Legs(i)' /\ (calls[i].name = "deployProxy" => "record" \in Legs(i)')
    BY <1>4, <1>7
  <2> QED
    BY <1>7, <2>1, <2>2, <2>3 DEF ArtifactKnown
<1>10. \A v \in Contracts : v = calls[i].contract => Good(back[v])'
  BY <1>6, <1>7, StaysGood
<1> QED
  BY <1>9, <1>10 DEF Settles

\* A transfer that is done already, and a result.
LEMMA ReportSettles ==
  ASSUME CoreInv, ArtifactInv, Event, NEW i \in DOMAIN calls, Skips(i) \/ Reports(i)
  PROVE  Settles(i)
<1>1. PICK leg \in {"check", "report"} : Acts(i, leg)
  BY DEF Skips, Reports
<1>2. /\ leg \in Leg /\ leg # "open" /\ leg \notin FetchLegs /\ At(i, leg) /\ back' = back /\ StepEffect(i)
      /\ Same(calls'[i], calls[i]) /\ Carried(calls'[i], calls[i])
  BY <1>1 DEF Leg, Rank, FetchLegs, Acts, Skips, Reports, StepEffect
<1>3. \A v \in Contracts : v = calls[i].contract => Good(back[v])'
  BY <1>2, OwnStaysGood
<1>4. ASSUME Skips(i) PROVE ArtifactKnown(i)'
  <2>1. calls[i].name = "transferProxyAdminOwnership" /\ Legs(i)' = {"report"}
    BY <1>4 DEF Skips, alreadyHeld
  <2>2. "check" \notin Legs(i)' /\ Legs(i)' \cap FetchLegs = {} /\ calls'[i].name = "transferProxyAdminOwnership"
    BY <1>2, <2>1 DEF FetchLegs, Same
  <2>3. PICK a : a = calls[i].before
    OBVIOUS
  <2>4. Good(a)'
    BY <1>2, <2>3, KnowsItsArtifact, GoodStays DEF ArtifactKnown
  <2>5. Good(calls[i].before)'
    BY <1>2, <2>3, <2>4 DEF Carried, Good, Vouch, Excused
  <2> QED
    BY <2>2, <2>5 DEF ArtifactKnown
<1>5. Reports(i) => Settled(i)'
  BY DEF Reports, Settled
<1> QED
  BY <1>3, <1>4, <1>5 DEF Settles

\* Where a refusal puts the user's artifact: a restored one as the call found it.
LEMMA RefusalRestores ==
  ASSUME CoreInv, ArtifactInv, NEW i \in DOMAIN calls, NEW leg \in Leg \ {"open", "report"}, Refuses(i, leg),
         calls[i].name \in Restoring
  PROVE  back'[calls[i].contract] = calls[i].before
<1>1. /\ TypeOK /\ LegsInv /\ leg \in Leg /\ leg # "open" /\ At(i, leg) /\ Head(calls[i].todo) = leg
      /\ calls[i].contract \in Contracts /\ leg \notin {"store", "writeBack"}
  BY AtLeg DEF CoreInv, Refuses, Acts
<1>2. ArtifactKnown(i)
  BY <1>1, KnowsItsArtifact
<1>3. CASE leg = "check"
  <2>1. leg \in Legs(i) /\ leg \notin QueuedLegs
    BY <1>1, <1>3, AtLeg DEF QueuedLegs
  <2>2. back' = back
    BY <1>1, <1>3, <2>1 DEF Refuses, restored
  <2> QED
    BY <1>2, <1>3, <2>1, <2>2 DEF ArtifactKnown
<1>4. CASE leg # "check"
  <2>1. "check" \notin Legs(i)
    BY <1>1, <1>4, Ahead
  <2>2. calls[i].prior = calls[i].before
    BY <1>2, <2>1 DEF ArtifactKnown, Restoring
  <2>3. leg \in QueuedLegs
    BY <1>1, <1>4 DEF Leg, Rank, QueuedLegs
  <2>4. undone(calls[i]) \in [Contracts \cup Facades -> Address] /\ back \in [Contracts \cup Facades -> Address]
    BY <1>1, Typed, CallFields DEF undone, TypeOK, Address
  <2> QED
    BY <1>1, <2>2, <2>3, <2>4 DEF Refuses, restored
<1> QED
  BY <1>3, <1>4

\* A refusal leaves what it may: what the call found, or a standalone deployment's own address.
LEMMA RefusalSettles ==
  ASSUME CoreInv, ArtifactInv, Event, NEW i \in DOMAIN calls, NEW leg \in Leg, Refuses(i, leg)
  PROVE  Settles(i)
<1>1. /\ TypeOK /\ LegsInv /\ At(i, leg) /\ Head(calls[i].todo) = leg /\ StepEffect(i)
      /\ calls[i].contract \in Contracts /\ calls[i] \in Call /\ leg \in Legs(i)
  BY AtLeg DEF CoreInv, Refuses, Acts, StepEffect
<1>2. Settled(i)' /\ Same(calls'[i], calls[i]) /\ Carried(calls'[i], calls[i]) /\ DOMAIN calls' = DOMAIN calls
  BY DEF Refuses, Settled, Acts
<1>3. back \in [Contracts \cup Facades -> Address] /\ calls[i].contract \notin Facades /\ Facade(calls[i]) \in Facades
  BY <1>1, OperationsAssumption DEF TypeOK, Facades, Facade
<1>4. PICK v \in Contracts : v = calls[i].contract
  BY <1>1
<1>5. PICK b : b = back'[v]
  OBVIOUS
<1>6. Good(back[v])'
  <2>1. CASE b = back[calls[i].contract] /\ leg \notin FetchLegs
    BY <1>1, <1>4, <1>5, <2>1, OwnStaysGood
  <2>2. CASE leg # "open" /\ b = calls[i].before
    <3>1. Good(b)
      BY <1>1, <2>2, KnowsItsArtifact DEF ArtifactKnown
    <3> QED
      BY <1>4, <1>5, <3>1, StaysGood
  <2>3. CASE calls[i].name \in Restoring /\ leg \notin {"open", "report"}
    BY <1>4, <1>5, <2>2, <2>3, RefusalRestores
  <2>4. CASE leg \in {"open", "report"}
    <3>1. leg \notin QueuedLegs /\ leg \notin FetchLegs /\ leg # "confirm"
      BY <2>4 DEF QueuedLegs, FetchLegs
    <3>2. back' = back
      BY <1>1, <3>1 DEF Refuses, restored
    <3> QED
      BY <1>4, <1>5, <2>1, <3>1, <3>2
  <2>5. CASE calls[i].name \notin Restoring /\ leg \notin {"open", "report"}
    <3>1. b = back[calls[i].contract] \/ (leg = "confirm" /\ b = undone(calls[i])[calls[i].contract])
      BY <1>4, <1>5, <2>5 DEF Refuses, restored
    <3>2. CASE leg \notin FetchLegs
      <4>1. CASE leg = "confirm" /\ b = undone(calls[i])[calls[i].contract] /\ b # back[calls[i].contract]
        <5>1. calls[i].name \in Standalone /\ b = calls[i].prior
          BY <1>1, <1>3, <4>1 DEF undone, Standalone
        <5>2. leg \in Leg /\ leg # "open" /\ "check" \notin Legs(i)
          BY <1>1, <4>1, Ahead
        <5>3. calls[i].prior = calls[i].before
          BY <1>1, <5>1, <5>2, KnowsItsArtifact DEF ArtifactKnown, Standalone
        <5> QED
          BY <2>2, <5>1, <5>2, <5>3
      <4> QED
        BY <2>1, <3>1, <3>2, <4>1
    <3>3. CASE leg \in FetchLegs
      <4>1. b = back[calls[i].contract] /\ leg # "open"
        BY <3>1, <3>3 DEF FetchLegs
      <4>2. "check" \notin Legs(i) /\ calls[i].name \in Fetching
        BY <1>1, <3>3, AtFetch DEF FetchLegs
      <4>3. b = calls[i].prior \/ Moved(i)
        BY <1>1, <3>3, <4>1, <4>2, KnowsItsArtifact DEF ArtifactKnown
      <4>4. calls[i].prior = calls[i].before
        BY <1>1, <4>1, <4>2, KnowsItsArtifact DEF ArtifactKnown, Fetching
      <4>5. CASE Moved(i)
        <5>1. calls[i].tx = b /\ calls[i].name \in Standalone
          BY <2>5, <4>1, <4>2, <4>5 DEF Moved, Fetching, Standalone, Restoring, Operation, Pipeline
        <5>2. calls'[i].outcome = "refused"
          BY <3>3 DEF Refuses, FetchLegs
        <5>3. Excused(back[v])'
          BY <1>2, <1>4, <1>5, <5>1, <5>2 DEF Excused, Same, Carried
        <5> QED
          BY <5>3 DEF Good
      <4> QED
        BY <2>2, <4>1, <4>3, <4>4, <4>5
    <3> QED
      BY <3>2, <3>3
  <2> QED
    BY <2>3, <2>4, <2>5
<1> QED
  BY <1>2, <1>4, <1>6 DEF Settles

\* Every step of a call leaves its own artifact so.
LEMMA StepSettles ==
  ASSUME CoreInv, LayoutInv, ArtifactInv, Event, NEW i \in DOMAIN calls, StepEffect(i)
  PROVE  Settles(i)
BY OpenSettles, CheckSettles, FetchSettles, StoreSettles, MineSettles, LaterLegsSettle, ReportSettles, RefusalSettles
   DEF StepEffect

\* An address deployProxy refuses as stale is one it has an excuse for.
LEMMA StaleIsExcused ==
  ASSUME CoreInv, ArtifactInv, Event, NEW i \in DOMAIN calls, NEW leg \in Leg, Refuses(i, leg),
         calls'[i].outcome = "stale"
  PROVE  Excused(calls[i].before)'
<1>1. /\ leg = "check" /\ calls[i].name = "deployProxy" /\ ~Vouched(calls[i]) /\ At(i, "check") /\ "check" \in Leg
      /\ Carried(calls'[i], calls[i]) /\ TypeOK /\ LegsInv
  BY DEF Refuses, Acts, CoreInv
<1>2. ArtifactKnown(i) /\ "check" \in Legs(i)
  BY <1>1, KnowsItsArtifact, AtLeg
<1>3. PICK a : a = calls[i].before
  OBVIOUS
<1>4. Excused(a)
  BY <1>1, <1>2, <1>3 DEF ArtifactKnown, Vouched
<1>5. Excused(a)'
  BY <1>4, ExcusedStays
<1> QED
  BY <1>1, <1>3, <1>5 DEF Excused, Carried

\* What a call knows outlives the steps of the chain and the host.
LEMMA KnownUntouched ==
  ASSUME CoreInv, Event, NEW j \in DOMAIN calls, ArtifactKnown(j), calls'[j] = calls[j],
         UNCHANGED <<impls, proxies, back>>
  PROVE  ArtifactKnown(j)'
<1>1. PICK a : a = calls[j].before
  OBVIOUS
<1>2. Good(a)' /\ (Excused(a) => Excused(a)')
  BY <1>1, GoodStays, ExcusedStays DEF ArtifactKnown
<1>3. Good(calls[j].before)' /\ (Excused(calls[j].before) => Excused(calls[j].before)')
  BY <1>1, <1>2 DEF Good, Vouch, Excused
<1>4. /\ Legs(j)' = Legs(j) /\ (Moved(j) => Moved(j)')
      /\ Remembered(calls[j].before) => Remembered(calls[j].before)'
      /\ Recorded(calls[j].tx) => Recorded(calls[j].tx)'
  BY DEF Legs, Moved, mode, Remembered, Recorded
<1> QED
  BY <1>3, <1>4 DEF ArtifactKnown

\* Every event leaves every artifact good, or to the call that is fetching.
LEMMA ArtifactNext == ASSUME CoreInv, LayoutInv, ArtifactInv, Event PROVE ArtifactInv'
<1>1. ASSUME NEW c \in Contracts PROVE Good(saved[c])'
  <2>1. PICK a : a = saved'[c]
    OBVIOUS
  <2>2. CASE saved' = saved
    BY <2>1, <2>2, GoodStays DEF ArtifactInv, Good, Vouch, Excused
  <2>3. CASE Saves
    <3>1. Good(a)
      BY <2>1, <2>3 DEF Saves, ArtifactInv, Fetched
    <3>2. Good(a)'
      BY <3>1, GoodStays
    <3> QED
      BY <2>1, <3>2 DEF Good, Vouch, Excused
  <2> QED
    BY <2>2, <2>3 DEF Event, Called, Lands, Fails, Judges, Saves, Dies
<1>2. ASSUME NEW c \in Contracts
      PROVE  Good(back[c])' \/ \E i \in DOMAIN calls' : Fetched(i)' /\ calls'[i].contract = c
  <2>1. PICK a : a = back[c]
    OBVIOUS
  <2>2. ASSUME NEW i \in DOMAIN calls, StepEffect(i)
        PROVE  Good(back[c])' \/ \E k \in DOMAIN calls' : Fetched(k)' /\ calls'[k].contract = c
    <3>1. PICK leg \in Leg : Acts(i, leg)
      BY <2>2, StepActs
    <3>2. At(i, leg) /\ DOMAIN calls' = DOMAIN calls /\ calls'[i].contract = calls[i].contract
      BY <3>1 DEF Acts, Same
    <3>3. CASE c = calls[i].contract
      BY <2>2, <3>2, <3>3, StepSettles DEF Settles
    <3>4. CASE c # calls[i].contract
      <4>1. back'[c] = a
        BY <2>1, <2>2, <3>4, BackElsewhere
      <4>2. Good(a)
        BY <2>1, <3>2, <3>4, OtherBacks
      <4> QED
        BY <4>1, <4>2, StaysGood
    <3> QED
      BY <3>3, <3>4
  <2>3. ASSUME back' = back, DOMAIN calls \subseteq DOMAIN calls', \A j \in DOMAIN calls : calls'[j] = calls[j]
        PROVE  Good(back[c])' \/ \E k \in DOMAIN calls' : Fetched(k)' /\ calls'[k].contract = c
    <3>1. CASE Good(a)
      BY <2>1, <2>3, <3>1, StaysGood
    <3>2. ASSUME NEW k \in DOMAIN calls, Fetched(k), calls[k].contract = c
          PROVE  Fetched(k)' /\ calls'[k].contract = c
      BY <2>3, <3>2 DEF Fetched, Settled, Legs
    <3> QED
      BY <2>1, <2>3, <3>1, <3>2 DEF ArtifactInv
  <2>4. ASSUME Dies PROVE Good(back[c])'
    <3>1. PICK b : b = saved[c]
      OBVIOUS
    <3>2. Good(b) /\ back'[c] = b
      BY <2>4, <3>1 DEF Dies, ArtifactInv
    <3> QED
      BY <3>2, StaysGood
  <2> QED
    BY <2>2, <2>3, <2>4 DEF Event, Called, Lands, Fails, Judges, Saves
<1>3. ASSUME NEW j \in DOMAIN calls', ~Settled(j)', "open" \notin Legs(j)' PROVE ArtifactKnown(j)'
  <2>1. ASSUME NEW new \in Nat, Called(new) PROVE j # new
    BY <1>3, <2>1 DEF Called
  <2>2. ASSUME NEW i \in DOMAIN calls, StepEffect(i) PROVE ArtifactKnown(j)'
    <3>1. PICK leg \in Leg : Acts(i, leg)
      BY <2>2, StepActs
    <3>2. At(i, leg) /\ DOMAIN calls' = DOMAIN calls
      BY <3>1 DEF Acts
    <3>3. CASE j = i
      BY <1>3, <2>2, <3>3, StepSettles DEF Settles
    <3>4. ASSUME j # i PROVE FALSE
      <4>1. j \in DOMAIN calls /\ ~Settled(j) /\ Legs(j)' = Legs(j)
        BY <1>3, <3>1, <3>2, <3>4, ActsAlone
      <4>2. "open" \in Legs(j)
        BY <3>2, <3>4, <4>1, AtLeg DEF CoreInv
      <4> QED
        BY <1>3, <4>1, <4>2
    <3> QED
      BY <3>3, <3>4
  <2>3. ASSUME j \in DOMAIN calls, calls'[j] = calls[j], UNCHANGED <<impls, proxies, back>> PROVE ArtifactKnown(j)'
    <3>1. ArtifactKnown(j)
      BY <1>3, <2>3 DEF ArtifactInv, Settled, Legs
    <3> QED
      BY <2>3, <3>1, KnownUntouched
  <2>4. ASSUME Dies PROVE FALSE
    BY <1>3, <2>4 DEF Dies, Settled
  <2> QED
    BY <1>3, <2>1, <2>2, <2>3, <2>4 DEF Event, Called, Lands, Fails, Judges, Saves
<1>4. ASSUME NEW j \in DOMAIN calls', calls'[j].outcome = "stale" PROVE Excused(calls[j].before)'
  <2>1. ASSUME j \in DOMAIN calls, calls'[j] = calls[j] PROVE Excused(calls[j].before)'
    <3>1. PICK a : a = calls[j].before
      OBVIOUS
    <3>2. Excused(a)'
      BY <1>4, <2>1, <3>1, ExcusedStays DEF ArtifactInv
    <3> QED
      BY <2>1, <3>1, <3>2 DEF Excused
  <2>2. ASSUME NEW i \in DOMAIN calls, StepEffect(i), calls'[j] # calls[j] PROVE Excused(calls[j].before)'
    <3>1. j = i /\ ~Settled(i)
      BY <1>4, <2>2, StepActs, ActsAlone
    <3>2. \E leg \in Leg : Refuses(i, leg)
      BY <1>4, <2>2, <3>1 DEF StepEffect, Opens, Skips, Checks, Fetches, Stores, Mines, Creates, SendsCall, Confirms,
           Verifies, Writes, WritesBack, Reports, Continues
    <3> QED
      BY <1>4, <3>1, <3>2, StaleIsExcused
  <2>3. ASSUME NEW i \in DOMAIN calls, StepEffect(i) PROVE j \in DOMAIN calls
    BY <1>4, <2>3, StepActs, ActsAlone
  <2>4. ASSUME Dies PROVE j \in DOMAIN calls /\ calls'[j] = calls[j]
    BY <1>4, <2>4 DEF Dies
  <2> QED
    BY <1>4, <2>1, <2>2, <2>3, <2>4 DEF Event, Called, Lands, Fails, Judges, Saves
<1> QED
  BY <1>1, <1>2, <1>3, <1>4 DEF ArtifactInv

\* Both parts the artifact's properties rest on.
LEMMA ArtifactsHold == Spec => [](CoreInv /\ LayoutInv /\ ArtifactInv)
<1>1. Init => LayoutInv /\ ArtifactInv
  BY AtFirst DEF Init, LayoutInv, Recorded, ArtifactInv, Good, Vouch
<1>2. CoreInv /\ LayoutInv /\ ArtifactInv /\ [Next]_vars => (LayoutInv /\ ArtifactInv)'
  BY Events, LayoutNext, ArtifactNext
<1> QED
  BY <1>1, <1>2, CoreHolds, PTL DEF Spec

\* deployProxy refuses no address this plugin left in the artifact, but one that was dropped
\* or that a standalone deployment which failed left there.
THEOREM OwnAddressesAreVouchedFor == Spec => []OwnWritesAreVouchedFor
<1>1. ArtifactInv => OwnWritesAreVouchedFor
  BY DEF ArtifactInv, OwnWritesAreVouchedFor, Excused, Standalone
<1> QED
  BY <1>1, ArtifactsHold, PTL

\* A compound step that fails leaves the user's artifact as the call found it.
THEOREM FailedStepsRestore == Spec => FailureLeavesArtifact
<1> DEFINE Leaves ==
      \A i \in DOMAIN calls :
        /\ calls[i].name \in Restoring /\ ~Settled(i)
        /\ calls'[i].outcome = "refused" /\ Head(calls[i].todo) \notin {"open", "report"}
        => back'[calls[i].contract] = calls[i].before
<1>1. CoreInv /\ ArtifactInv /\ [Next]_vars => Leaves
  <2> SUFFICES ASSUME CoreInv, ArtifactInv, [Next]_vars, NEW i \in DOMAIN calls,
                      calls[i].name \in Restoring, ~Settled(i), calls'[i].outcome = "refused",
                      Head(calls[i].todo) \notin {"open", "report"}
               PROVE  back'[calls[i].contract] = calls[i].before
    OBVIOUS
  <2>1. Event
    BY Events
  <2>2. calls'[i] # calls[i]
    BY DEF Settled
  <2>3. PICK k \in DOMAIN calls : StepEffect(k)
    BY <2>1, <2>2 DEF Event, Called, Lands, Fails, Judges, Saves, Dies
  <2>4. k = i
    BY <2>2, <2>3, StepActs, ActsAlone
  <2>5. PICK leg \in Leg : Refuses(i, leg)
    BY <2>3, <2>4 DEF StepEffect, Opens, Skips, Checks, Fetches, Stores, Mines, Creates, SendsCall, Confirms,
         Verifies, Writes, WritesBack, Reports, Continues
  <2>6. leg \notin {"open", "report"}
    BY <2>5 DEF Refuses, Acts, At
  <2> QED
    BY <2>5, <2>6, RefusalRestores
<1>2. CoreInv /\ ArtifactInv /\ [Next]_vars => [Leaves]_vars
  BY <1>1
<1> QED
  BY <1>2, ArtifactsHold, PTL DEF Spec, FailureLeavesArtifact
=============================================================================
