---------------------------- MODULE OperationMutex ----------------------------
(***************************************************************************)
(* deploy/serialize.ts: one operation at a time per deployer, by a chain   *)
(* of promises.  Each public operation claims its slot synchronously by    *)
(* putting its own settlement in place of the deployer's tail; it runs     *)
(* when the tail it found has settled, in an asynchronous context by which *)
(* a call from inside it is recognised.                                    *)
(*                                                                         *)
(* Calls are made by the migration's own code, by code inside a running    *)
(* operation, and by work an operation left behind when it settled.  An    *)
(* operation waits for the calls made inside it.                           *)
(***************************************************************************)
EXTENDS FiniteSets

CONSTANTS
  Op,         \* calls of a public operation
  Host,       \* deployers
  Unkeyed,    \* hostKey answered undefined
  Nobody      \* no operation: an empty tail, a call from the top level

ASSUME MutexAssumption ==
  /\ Unkeyed \notin Host
  /\ Nobody \notin Op

VARIABLES
  status,     \* the state of each call's promise, and of its body
  host,       \* the deployer it was called with
  caller,     \* the operation whose asynchronous context it was called in
  pred,       \* the operation whose settlement it is chained to
  tail,       \* tails: the last operation of each deployer
  earlier     \* history: the calls of the same deployer before it

vars == <<status, host, caller, pred, tail, earlier>>

Status == {"idle", "refused", "waiting", "running", "fulfilled", "rejected"}

TypeOK ==
  /\ status \in [Op -> Status]
  /\ host \in [Op -> Host \cup {Unkeyed}]
  /\ caller \in [Op -> Op \cup {Nobody}]
  /\ pred \in [Op -> Op \cup {Nobody}]
  /\ tail \in [Host -> Op \cup {Nobody}]
  /\ earlier \in [Op -> SUBSET Op]

Settled(o) == status[o] \in {"refused", "fulfilled", "rejected"}

\* The calls of deployer h that were given a slot.
claimed(h) == {o \in Op : host[o] = h /\ status[o] \notin {"idle", "refused"}}

-----------------------------------------------------------------------------

\* Where a call can come from: the top level, or the context of an operation
\* whose body has been entered, running or settled since.
Context == {Nobody} \cup {o \in Op : status[o] \in {"running", "fulfilled", "rejected"}}

\* Mutant: a call made inside another goes on to the chain like any other.
neverNested(c) == FALSE

\* active.getStore(): set by active.run around the body, for keyed operations.
inOperation(c) == c # Nobody /\ host[c] # Unkeyed

Init ==
  /\ status = [o \in Op |-> "idle"]
  /\ host = [o \in Op |-> Unkeyed]
  /\ caller = [o \in Op |-> Nobody]
  /\ pred = [o \in Op |-> Nobody]
  /\ tail = [h \in Host |-> Nobody]
  /\ earlier = [o \in Op |-> {}]

\* The call is on record: where it came from and the deployer it named.
record(o, h, c) ==
  /\ status[o] = "idle"
  /\ c \in Context
  /\ host' = [host EXCEPT ![o] = h]
  /\ caller' = [caller EXCEPT ![o] = c]

\* NestedOperationError, ahead of everything else.
RefuseNested(o, h, c) ==
  /\ record(o, h, c)
  /\ inOperation(c)
  /\ status' = [status EXCEPT ![o] = "refused"]
  /\ UNCHANGED <<pred, tail, earlier>>

\* No deployer handle to key on: it runs free.
RunUnkeyed(o, c) ==
  /\ record(o, Unkeyed, c)
  /\ ~inOperation(c)
  /\ status' = [status EXCEPT ![o] = "running"]
  /\ UNCHANGED <<pred, tail, earlier>>

\* The slot is claimed before the first await.  On a deployer nobody has used
\* the body is entered at once, on any other it is chained to the tail.
Claim(o, h, c) ==
  /\ record(o, h, c)
  /\ h \in Host
  /\ ~inOperation(c)
  /\ status' = [status EXCEPT ![o] = IF tail[h] = Nobody THEN "running" ELSE "waiting"]
  /\ pred' = [pred EXCEPT ![o] = tail[h]]
  /\ tail' = [tail EXCEPT ![h] = o]
  /\ earlier' = [earlier EXCEPT ![o] = claimed(h)]

\* Mutant: the reaction does not wait for the tail.
StartsAtOnce(o) ==
  /\ status[o] = "waiting"
  /\ status' = [status EXCEPT ![o] = "running"]
  /\ UNCHANGED <<host, caller, pred, tail, earlier>>

\* The tail has settled, one way or the other, and its reaction enters the body.
Start(o) ==
  /\ status[o] = "waiting"
  /\ Settled(pred[o])
  /\ status' = [status EXCEPT ![o] = "running"]
  /\ UNCHANGED <<host, caller, pred, tail, earlier>>

\* Mutant: the deployer's tail is cleaned up by whoever settles.
SettleForgetsTail(o) ==
  /\ status[o] = "running"
  /\ \A q \in Op : caller[q] = o => Settled(q)
  /\ \E s \in {"fulfilled", "rejected"} : status' = [status EXCEPT ![o] = s]
  /\ tail' = [h \in Host |-> IF h = host[o] THEN Nobody ELSE tail[h]]
  /\ UNCHANGED <<host, caller, pred, earlier>>

\* The body is done, and with it every call it made.
Settle(o) ==
  /\ status[o] = "running"
  /\ \A q \in Op : caller[q] = o => Settled(q)
  /\ \E s \in {"fulfilled", "rejected"} : status' = [status EXCEPT ![o] = s]
  /\ UNCHANGED <<host, caller, pred, tail, earlier>>

Call(o) ==
  \E c \in Context :
    \/ \E h \in Host : Claim(o, h, c)
    \/ RunUnkeyed(o, c)
    \/ \E h \in Host \cup {Unkeyed} : RefuseNested(o, h, c)

Next == \E o \in Op : Call(o) \/ Start(o) \/ Settle(o)

Spec == Init /\ [][Next]_vars

\* Reactions of settled promises run, and operation bodies end.
Fairness == \A o \in Op : WF_vars(Start(o)) /\ WF_vars(Settle(o))

FairSpec == Spec /\ Fairness
-----------------------------------------------------------------------------
(* Properties *)

\* Call order holds by construction, and with it one operation at a time: a
\* body is entered only when every earlier call of its deployer has settled.
CallOrder ==
  \A o \in Op : status[o] \in {"running", "fulfilled", "rejected"} =>
    \A q \in earlier[o] : Settled(q)

\* No call hangs, from whatever context it was made: nobody waits for a slot
\* that is held by an operation waiting for it.
EveryCallSettles == \A o \in Op : status[o] # "idle" ~> Settled(o)

\* Where a call stands, to someone who only knows of turns.
phase ==
  [o \in Op |->
     IF status[o] = "waiting" THEN "accepted"
     ELSE IF status[o] \in {"fulfilled", "rejected"} THEN "over"
     ELSE status[o]]

\* The chain implements turns in call order, and whatever fails: nobody who waits is
\* settled from outside, skipped or let in early.
Turns == INSTANCE OperationTurns WITH
  Op <- Op, Host <- Host, Unkeyed <- Unkeyed,
  phase <- phase, host <- host, earlier <- earlier

TakesTurns == Turns!TurnSpec
-----------------------------------------------------------------------------
(* Why the chain keeps the order: each link stands for everything before it *)

\* The operation at the end of a deployer's chain, and all before it.
ChainOf(o) == IF o = Nobody THEN {} ELSE earlier[o] \cup {o}

TailCovers == \A h \in Host : claimed(h) = ChainOf(tail[h])

PredCovers ==
  \A o \in Op : status[o] \notin {"idle", "refused"} /\ host[o] # Unkeyed
    => earlier[o] = ChainOf(pred[o])

\* Only operations that were given a slot are anyone's predecessor.
EarlierClaimed ==
  \A o \in Op : \A q \in earlier[o] : status[q] \notin {"idle", "refused"} /\ q # o

\* Nothing comes before a call that has no slot: nobody waits there.
SlotlessFirst ==
  \A o \in Op : status[o] \in {"idle", "refused"} \/ host[o] = Unkeyed => earlier[o] = {}

OrderInv ==
  TypeOK /\ TailCovers /\ PredCovers /\ EarlierClaimed /\ SlotlessFirst /\ CallOrder
=============================================================================
