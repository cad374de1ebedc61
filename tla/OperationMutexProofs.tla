------------------------- MODULE OperationMutexProofs -------------------------
(***************************************************************************)
(* Proofs about OperationMutex, for every number of calls and deployers:   *)
(* the chain of tails keeps call order, and implements OperationTurns.     *)
(***************************************************************************)
EXTENDS OperationMutex, TLAPS

-----------------------------------------------------------------------------
(* The inductive invariant *)

\* Before the first call there is no chain.
LEMMA OrderInit == Init => OrderInv
BY MutexAssumption
   DEF Init, OrderInv, TypeOK, Status, TailCovers, PredCovers, EarlierClaimed, SlotlessFirst,
       CallOrder, ChainOf, claimed

\* A call enters the books as itself, and nobody else's entry moves.
LEMMA RecordType ==
  ASSUME TypeOK, NEW o \in Op, NEW h \in Host \cup {Unkeyed}, NEW c \in Context, record(o, h, c)
  PROVE  /\ host' \in [Op -> Host \cup {Unkeyed}]
         /\ caller' \in [Op -> Op \cup {Nobody}]
         /\ host'[o] = h
         /\ \A q \in Op \ {o} : host'[q] = host[q]
BY DEF TypeOK, record, Context

\* A refused call, or one without a deployer, is part of no deployer's chain.
LEMMA ClaimedUntouched ==
  ASSUME TypeOK, NEW o \in Op, NEW h \in Host \cup {Unkeyed}, NEW s \in Status,
         status[o] = "idle",
         host' = [host EXCEPT ![o] = h],
         status' = [status EXCEPT ![o] = s],
         s = "refused" \/ h = Unkeyed
  PROVE  \A k \in Host : claimed(k)' = claimed(k)
BY MutexAssumption DEF TypeOK, claimed

\* A nested call is refused before it claims a slot, so the order is unchanged.
LEMMA RefuseKeepsOrder ==
  ASSUME OrderInv, NEW o \in Op, NEW h \in Host \cup {Unkeyed}, NEW c \in Context,
         RefuseNested(o, h, c)
  PROVE  OrderInv'
<1>1. TypeOK'
  BY RecordType DEF OrderInv, RefuseNested, TypeOK, Status
<1>2. \A k \in Host : claimed(k)' = claimed(k)
  BY ClaimedUntouched DEF OrderInv, RefuseNested, record, Status
<1>3. TailCovers'
  BY <1>2 DEF OrderInv, TailCovers, ChainOf, RefuseNested
<1>4. PredCovers' /\ EarlierClaimed' /\ SlotlessFirst' /\ CallOrder'
  BY RecordType
     DEF OrderInv, TypeOK, PredCovers, EarlierClaimed, SlotlessFirst, CallOrder, ChainOf, RefuseNested, record, Settled
<1>5. QED
  BY <1>1, <1>3, <1>4 DEF OrderInv

\* A call without a deployer runs beside the chains and changes none of them.
LEMMA UnkeyedKeepsOrder ==
  ASSUME OrderInv, NEW o \in Op, NEW c \in Context, RunUnkeyed(o, c)
  PROVE  OrderInv'
<1>1. TypeOK'
  BY RecordType DEF OrderInv, RunUnkeyed, TypeOK, Status
<1>2. \A k \in Host : claimed(k)' = claimed(k)
  BY ClaimedUntouched DEF OrderInv, RunUnkeyed, record, Status
<1>3. TailCovers'
  BY <1>2 DEF OrderInv, TailCovers, ChainOf, RunUnkeyed
<1>4. PredCovers' /\ EarlierClaimed' /\ SlotlessFirst' /\ CallOrder'
  BY RecordType
     DEF OrderInv, TypeOK, PredCovers, EarlierClaimed, SlotlessFirst, CallOrder, ChainOf, RunUnkeyed, record, Settled
<1>5. QED
  BY <1>1, <1>3, <1>4 DEF OrderInv

\* The claim hangs the call on the tail it found, and becomes the tail.
LEMMA ClaimKeepsOrder ==
  ASSUME OrderInv, NEW o \in Op, NEW h \in Host, NEW c \in Context, Claim(o, h, c)
  PROVE  OrderInv'
<1>1. /\ status[o] = "idle"
      /\ status'[o] \in {"running", "waiting"}
      /\ status'[o] = "running" => tail[h] = Nobody
      /\ \A q \in Op \ {o} : status'[q] = status[q] /\ host'[q] = host[q] /\ pred'[q] = pred[q]
                                /\ earlier'[q] = earlier[q]
      /\ host'[o] = h /\ pred'[o] = tail[h] /\ earlier'[o] = claimed(h)
      /\ tail' = [tail EXCEPT ![h] = o]
  BY RecordType DEF Claim, record, OrderInv, TypeOK
<1>2. TypeOK'
  BY RecordType DEF OrderInv, Claim, TypeOK, Status, claimed
<1>3. o \notin claimed(h) /\ claimed(h)' = claimed(h) \cup {o}
  BY <1>1 DEF claimed
<1>4. \A k \in Host \ {h} : claimed(k)' = claimed(k)
  BY <1>1 DEF claimed
<1>5. TailCovers'
  <2>1. ASSUME NEW k \in Host PROVE claimed(k)' = ChainOf(tail[k])'
    <3>1. CASE k = h
      BY <3>1, <1>1, <1>3, MutexAssumption DEF ChainOf, OrderInv, TypeOK
    <3>2. CASE k # h
      <4>1. tail'[k] = tail[k] /\ o \notin claimed(k)
        BY <3>2, <1>1 DEF OrderInv, TypeOK, claimed
      <4>2. tail[k] # o
        BY <4>1, MutexAssumption DEF OrderInv, TailCovers, ChainOf
      <4>3. QED
        BY <3>2, <4>1, <4>2, <1>1, <1>4 DEF OrderInv, TailCovers, ChainOf, TypeOK
    <3>3. QED
      BY <3>1, <3>2
  <2>2. QED
    BY <2>1 DEF TailCovers
<1>6. PredCovers'
  <2>1. ASSUME NEW q \in Op, status'[q] \notin {"idle", "refused"}, host'[q] # Unkeyed
        PROVE  earlier'[q] = ChainOf(pred[q])'
    <3>1. CASE q = o
      <4>1. claimed(h) = ChainOf(tail[h]) /\ tail[h] # o
        BY <1>3, MutexAssumption DEF OrderInv, TailCovers, ChainOf
      <4>2. ChainOf(tail[h]) = ChainOf(pred[q])'
        BY <3>1, <4>1, <1>1 DEF ChainOf, OrderInv, TypeOK
      <4>3. QED
        BY <3>1, <4>1, <4>2, <1>1
    <3>2. CASE q # o
      <4>1. earlier[q] = ChainOf(pred[q]) /\ pred[q] # o
        BY <3>2, <2>1, <1>1, MutexAssumption DEF OrderInv, PredCovers, EarlierClaimed, ChainOf
      <4>2. earlier'[q] = earlier[q] /\ pred'[q] = pred[q]
        BY <3>2, <1>1 DEF OrderInv, TypeOK
      <4>3. pred[q] # Nobody => pred[q] \in Op /\ earlier'[pred[q]] = earlier[pred[q]]
        BY <4>1, <1>1 DEF OrderInv, TypeOK
      <4>4. QED
        BY <4>1, <4>2, <4>3 DEF ChainOf
    <3>3. QED
      BY <3>1, <3>2
  <2>2. QED
    BY <2>1 DEF PredCovers
<1>7. EarlierClaimed'
  BY <1>1, <1>3 DEF OrderInv, EarlierClaimed, claimed, TypeOK
<1>8. SlotlessFirst'
  BY <1>1, MutexAssumption DEF OrderInv, SlotlessFirst, TypeOK
<1>9. CallOrder'
  <2>1. status'[o] = "running" => earlier'[o] = {}
    BY <1>1, MutexAssumption DEF OrderInv, TailCovers, ChainOf
  <2>2. QED
    BY <1>1, <2>1 DEF OrderInv, CallOrder, Settled, TypeOK
<1>10. QED
  BY <1>2, <1>5, <1>6, <1>7, <1>8, <1>9 DEF OrderInv

\* Whoever the tail stands for has settled by the time its reaction runs.
LEMMA StartKeepsOrder ==
  ASSUME OrderInv, NEW o \in Op, Start(o)
  PROVE  OrderInv'
<1>1. /\ status[o] = "waiting" /\ Settled(pred[o])
      /\ status' = [status EXCEPT ![o] = "running"]
      /\ UNCHANGED <<host, pred, tail, earlier>>
  BY DEF Start
<1>2. TypeOK'
  BY DEF OrderInv, Start, TypeOK, Status
<1>3. \A k \in Host : claimed(k)' = claimed(k)
  BY <1>1 DEF OrderInv, TypeOK, claimed
<1>4. TailCovers' /\ PredCovers' /\ EarlierClaimed' /\ SlotlessFirst'
  BY <1>1, <1>3
     DEF OrderInv, TypeOK, TailCovers, PredCovers, EarlierClaimed, SlotlessFirst, ChainOf
<1>5. \A q \in earlier[o] : Settled(q)
  <2>1. CASE host[o] = Unkeyed
    BY <2>1 DEF OrderInv, SlotlessFirst
  <2>2. CASE host[o] # Unkeyed
    <3>1. earlier[o] = ChainOf(pred[o])
      BY <2>2, <1>1 DEF OrderInv, PredCovers
    <3>2. pred[o] \in earlier[o] => status[pred[o]] \in {"fulfilled", "rejected"}
      BY <1>1 DEF OrderInv, EarlierClaimed, Settled
    <3>3. QED
      BY <3>1, <3>2 DEF ChainOf, OrderInv, CallOrder, TypeOK, Settled
  <2>3. QED
    BY <2>1, <2>2
<1>6. CallOrder'
  BY <1>1, <1>5 DEF OrderInv, CallOrder, Settled, TypeOK
<1>7. QED
  BY <1>2, <1>4, <1>6 DEF OrderInv

\* A settlement, of either kind, takes nothing out of the order.
LEMMA SettleKeepsOrder ==
  ASSUME OrderInv, NEW o \in Op, Settle(o)
  PROVE  OrderInv'
<1>1. PICK s \in {"fulfilled", "rejected"} : status' = [status EXCEPT ![o] = s]
  BY DEF Settle
<1>2. status[o] = "running" /\ UNCHANGED <<host, pred, tail, earlier>>
  BY DEF Settle
<1>3. TypeOK'
  BY <1>1 DEF OrderInv, Settle, TypeOK, Status
<1>4. \A k \in Host : claimed(k)' = claimed(k)
  BY <1>1, <1>2 DEF OrderInv, TypeOK, claimed
<1>5. TailCovers' /\ PredCovers' /\ EarlierClaimed' /\ SlotlessFirst' /\ CallOrder'
  BY <1>1, <1>2, <1>4
     DEF OrderInv, TypeOK, TailCovers, PredCovers, EarlierClaimed, SlotlessFirst, CallOrder,
         ChainOf, Settled
<1>6. QED
  BY <1>3, <1>5 DEF OrderInv

\* Every step keeps the order.
LEMMA OrderStep == OrderInv /\ [Next]_vars => OrderInv'
<1> SUFFICES ASSUME OrderInv, [Next]_vars PROVE OrderInv'
  OBVIOUS
<1>1. ASSUME NEW o \in Op, Call(o) PROVE OrderInv'
  BY <1>1, RefuseKeepsOrder, UnkeyedKeepsOrder, ClaimKeepsOrder DEF Call
<1>2. ASSUME NEW o \in Op, Start(o) \/ Settle(o) PROVE OrderInv'
  BY <1>2, StartKeepsOrder, SettleKeepsOrder
<1>3. CASE UNCHANGED vars
  BY <1>3 DEF vars, OrderInv, TypeOK, TailCovers, PredCovers, EarlierClaimed, SlotlessFirst,
              CallOrder, ChainOf, claimed, Settled
<1>4. QED
  BY <1>1, <1>2, <1>3 DEF Next

\* The invariant of the chain: the tail of a deployer stands for every call that
\* has a slot there, as serializeOperation's tails map is meant to.
THEOREM ChainIsComplete == Spec => []OrderInv
BY OrderInit, OrderStep, PTL DEF Spec

\* serialize.ts: "call order holds by construction, and the second operation
\* performs no manifest read until the first has finished".
THEOREM OperationsKeepCallOrder == Spec => []CallOrder
<1>1. OrderInv => CallOrder
  BY DEF OrderInv
<1>2. QED
  BY <1>1, ChainIsComplete, PTL

-----------------------------------------------------------------------------
(* The chain implements turns *)

\* What each state of a call is to someone who only knows of turns.
LEMMA PhaseOf ==
  ASSUME TypeOK, NEW o \in Op
  PROVE  /\ phase[o] = "idle" <=> status[o] = "idle"
         /\ phase[o] = "refused" <=> status[o] = "refused"
         /\ phase[o] = "accepted" <=> status[o] = "waiting"
         /\ phase[o] = "running" <=> status[o] = "running"
         /\ phase[o] = "over" <=> status[o] \in {"fulfilled", "rejected"}
BY DEF TypeOK, Status, phase

\* One call changes state, and the phases of all the others stay.
LEMMA PhaseStep ==
  ASSUME TypeOK, NEW o \in Op, NEW s \in Status, status' = [status EXCEPT ![o] = s]
  PROVE  phase' = [phase EXCEPT ![o] =
                     IF s = "waiting" THEN "accepted"
                     ELSE IF s \in {"fulfilled", "rejected"} THEN "over" ELSE s]
BY DEF TypeOK, phase

\* The calls with a slot are the calls with a place in the order.
LEMMA ClaimedIsQueued ==
  ASSUME TypeOK, NEW h \in Host
  PROVE  claimed(h) = Turns!ahead(h)
BY PhaseOf, MutexAssumption DEF claimed, Turns!ahead, Turns!queuedFor

\* Every step of the chain is a step of the turns, or none.
LEMMA TurnStep == OrderInv /\ [Next]_vars => [Turns!TurnNext]_(Turns!turnVars)
<1> SUFFICES ASSUME OrderInv, [Next]_vars PROVE [Turns!TurnNext]_(Turns!turnVars)
  OBVIOUS
<1>1. ASSUME NEW o \in Op, NEW c \in Context, NEW h \in Host \cup {Unkeyed}, RefuseNested(o, h, c)
      PROVE  Turns!Refuse(o)
  BY <1>1, PhaseOf, PhaseStep
     DEF OrderInv, Status, RefuseNested, record, Turns!Refuse
<1>2. ASSUME NEW o \in Op, NEW c \in Context, RunUnkeyed(o, c)
      PROVE  Turns!Accept(o, Unkeyed)
  <2>1. status[o] = "idle" /\ earlier[o] = {}
    BY <1>2 DEF RunUnkeyed, record, OrderInv, SlotlessFirst
  <2>2. earlier' = [earlier EXCEPT ![o] = {}]
    BY <1>2, <2>1 DEF RunUnkeyed, OrderInv, TypeOK
  <2>3. QED
    BY <1>2, <2>1, <2>2, PhaseOf, PhaseStep
       DEF OrderInv, Status, RunUnkeyed, record, Turns!Accept, Turns!ahead, Turns!allOver
<1>3. ASSUME NEW o \in Op, NEW c \in Context, NEW h \in Host, Claim(o, h, c)
      PROVE  Turns!Accept(o, h)
  <2>1. claimed(h) = Turns!ahead(h)
    BY ClaimedIsQueued DEF OrderInv
  <2>2. tail[h] = Nobody => Turns!allOver(Turns!ahead(h))
    BY <2>1 DEF OrderInv, TailCovers, ChainOf, Turns!allOver
  <2>3. \/ phase' = [phase EXCEPT ![o] = "accepted"]
        \/ phase' = [phase EXCEPT ![o] = "running"] /\ tail[h] = Nobody
    BY <1>3, PhaseStep DEF OrderInv, Status, Claim
  <2>4. QED
    BY <1>3, <2>1, <2>2, <2>3, PhaseOf DEF OrderInv, Claim, record, Turns!Accept
<1>4. ASSUME NEW o \in Op, Start(o)
      PROVE  Turns!TakeTurn(o)
  <2>1. status[o] = "waiting" /\ phase[o] = "accepted"
    BY <1>4, PhaseOf DEF Start, OrderInv
  <2>2. phase' = [phase EXCEPT ![o] = "running"]
    BY <1>4, PhaseStep DEF OrderInv, Status, Start
  <2>3. OrderInv' /\ status'[o] = "running" /\ earlier' = earlier
    BY <1>4, <2>1, StartKeepsOrder DEF Start, OrderInv, TypeOK
  <2>4. \A q \in earlier[o] : status'[q] \in {"fulfilled", "rejected"} /\ q # o
    BY <2>3 DEF OrderInv, CallOrder, EarlierClaimed, Settled
  <2>5. Turns!allOver(earlier[o])
    <3>1. ASSUME NEW q \in earlier[o] PROVE phase[q] = "over"
      <4>1. q \in Op /\ status[q] = status'[q]
        BY <3>1, <2>4, <1>4 DEF OrderInv, TypeOK, Start
      <4>2. QED
        BY <3>1, <4>1, <2>4, PhaseOf DEF OrderInv
    <3>2. QED
      BY <3>1 DEF Turns!allOver
  <2>6. QED
    BY <1>4, <2>1, <2>2, <2>5 DEF Start, Turns!TakeTurn
<1>5. ASSUME NEW o \in Op, Settle(o)
      PROVE  Turns!Finish(o)
  <2>1. PICK s \in {"fulfilled", "rejected"} : status' = [status EXCEPT ![o] = s]
    BY <1>5 DEF Settle
  <2>2. phase' = [phase EXCEPT ![o] = "over"]
    BY <2>1, PhaseStep DEF OrderInv, Status
  <2>3. QED
    BY <1>5, <2>2, PhaseOf DEF OrderInv, Settle, Turns!Finish
<1>6. CASE UNCHANGED vars
  BY <1>6 DEF vars, Turns!turnVars, phase
<1>7. QED
  BY <1>1, <1>2, <1>3, <1>4, <1>5, <1>6 DEF Next, Call, Turns!TurnNext

\* Initial states of the chain are initial states of the turns.
LEMMA TurnsStart == Init => Turns!TurnInit
BY DEF Init, Turns!TurnInit, phase

\* serializeOperation implements turns: what its promise chain does is, call for
\* call, one operation per deployer at a time in the order of the calls.
THEOREM ImplementsTurns ==
  Spec => Turns!TurnInit /\ [][Turns!TurnNext]_(Turns!turnVars)
BY TurnsStart, TurnStep, ChainIsComplete, PTL DEF Spec
=============================================================================
