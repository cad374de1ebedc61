---------------------------- MODULE OperationTurns ----------------------------
(***************************************************************************)
(* What serializeOperation promises: operations of one deployer take turns *)
(* in the order they were called, whatever became of the ones before; an   *)
(* operation without a deployer handle waits for nobody.                   *)
(***************************************************************************)
EXTENDS FiniteSets

CONSTANTS
  Op,         \* calls of a public operation
  Host,       \* deployers
  Unkeyed     \* the call has no deployer handle

VARIABLES
  phase,      \* "idle", "refused", "accepted", "running" or "over"
  host,       \* the deployer of each call
  earlier     \* the calls of the same deployer it comes after

turnVars == <<phase, host, earlier>>

\* The calls that already have a place in the order of deployer h.
queuedFor(h) == {q \in Op : host[q] = h /\ phase[q] \notin {"idle", "refused"}}

ahead(h) == IF h = Unkeyed THEN {} ELSE queuedFor(h)

allOver(S) == \A q \in S : phase[q] = "over"

TurnInit ==
  /\ phase = [o \in Op |-> "idle"]
  /\ host = [o \in Op |-> Unkeyed]
  /\ earlier = [o \in Op |-> {}]

Refuse(o) ==
  /\ phase[o] = "idle"
  /\ phase' = [phase EXCEPT ![o] = "refused"]
  /\ \E h \in Host \cup {Unkeyed} : host' = [host EXCEPT ![o] = h]
  /\ UNCHANGED earlier

Accept(o, h) ==
  /\ phase[o] = "idle"
  /\ host' = [host EXCEPT ![o] = h]
  /\ earlier' = [earlier EXCEPT ![o] = ahead(h)]
  /\ \/ phase' = [phase EXCEPT ![o] = "accepted"]
     \/ allOver(ahead(h)) /\ phase' = [phase EXCEPT ![o] = "running"]

TakeTurn(o) ==
  /\ phase[o] = "accepted"
  /\ allOver(earlier[o])
  /\ phase' = [phase EXCEPT ![o] = "running"]
  /\ UNCHANGED <<host, earlier>>

Finish(o) ==
  /\ phase[o] = "running"
  /\ phase' = [phase EXCEPT ![o] = "over"]
  /\ UNCHANGED <<host, earlier>>

TurnNext ==
  \E o \in Op :
    \/ Refuse(o) \/ TakeTurn(o) \/ Finish(o)
    \/ \E h \in Host \cup {Unkeyed} : Accept(o, h)

TurnFairness == \A o \in Op : WF_turnVars(TakeTurn(o)) /\ WF_turnVars(Finish(o))

TurnSpec == TurnInit /\ [][TurnNext]_turnVars /\ TurnFairness
=============================================================================
