----------------------------- MODULE QueueBridge -----------------------------
(***************************************************************************)
(* deploy/queue.ts, runThroughQueue: an owned promise over the host's      *)
(* migration queue.  Before start() the host keeps one chain of reactions, *)
(* to which every registration appends; a rejection passes down the chain  *)
(* skipping the steps behind it.  After start() each step is a promise of  *)
(* its own.  A migration mixes steps that go through the bridge with raw   *)
(* ones its author registered on the host directly.                        *)
(***************************************************************************)
EXTENDS Naturals, Sequences

CONSTANTS
  Step,       \* steps of one migration
  Bridged     \* the ones that go through runThroughQueue

ASSUME BridgedAssumption == Bridged \subseteq Step

VARIABLES
  started,    \* the host's start() was called
  chain,      \* reactions of the pre-start chain still to run, in order
  rejected,   \* the chain is rejected where it stands
  body,       \* how far each step's own function got
  promise,    \* the promise each bridged registration returned
  settles,    \* how often each of them was settled
  runner,     \* what the runner's await of start() learned
  behind      \* history: the steps registered ahead of each on the same chain

vars == <<started, chain, rejected, body, promise, settles, runner, behind>>

Body == {"unregistered", "queued", "running", "ok", "failed", "skipped"}

\* A reaction on the chain: a step's function, the host's own catch behind it,
\* the bridge's catch, and what start() appends.
Link == [kind : {"step", "hostCatch", "bridgeCatch"}, of : Step] \cup [kind : {"done"}]
link(kind, s) == [kind |-> kind, of |-> s]

\* The types, and that settleOnce never throws: no promise is settled twice, though a
\* failing step and the catch behind it both want to (queue.ts:82).
TypeOK ==
  /\ started \in BOOLEAN
  /\ \A i \in 1..Len(chain) : chain[i] \in Link
  /\ rejected \in BOOLEAN
  /\ body \in [Step -> Body]
  /\ promise \in [Step -> {"none", "pending", "resolved", "rejected"}]
  /\ settles \in [Step -> 0..1]
  /\ runner \in {"waiting", "done", "failed"}
  /\ behind \in [Step -> SUBSET Step]

Init ==
  /\ started = FALSE
  /\ chain = << >>
  /\ rejected = FALSE
  /\ body = [s \in Step |-> "unregistered"]
  /\ promise = [s \in Step |-> "none"]
  /\ settles = [s \in Step |-> 0]
  /\ runner = "waiting"
  /\ behind = [s \in Step |-> {}]

-----------------------------------------------------------------------------
(* The bridge *)

\* settleOnce(resolve) or settleOnce(reject); the flag is read by the caller.
settleOnce(s, how) ==
  /\ promise' = [promise EXCEPT ![s] = how]
  /\ settles' = [settles EXCEPT ![s] = @ + 1]

\* Mutant: only the step itself goes on the chain.
registersNoCatch(s) == <<link("step", s), link("hostCatch", s)>>

\* What registering s appends: the host's then brings its own catch along, and
\* the bridge hangs a catch of its own behind both.
registered(s) ==
  <<link("step", s), link("hostCatch", s)>>
    \o (IF s \in Bridged THEN <<link("bridgeCatch", s)>> ELSE << >>)

\* Registration, before start(): the chain grows.
RegisterEarly(s) ==
  /\ ~started
  /\ body[s] = "unregistered"
  /\ body' = [body EXCEPT ![s] = "queued"]
  /\ chain' = chain \o registered(s)
  /\ promise' = [promise EXCEPT ![s] = IF s \in Bridged THEN "pending" ELSE "none"]
  /\ behind' = [behind EXCEPT ![s] = {q \in Step : body[q] # "unregistered"}]
  /\ UNCHANGED <<started, rejected, settles, runner>>

\* Registration after start(): Promise.resolve().then(step), in nobody's order.
RegisterLate(s) ==
  /\ started
  /\ body[s] = "unregistered"
  /\ body' = [body EXCEPT ![s] = "running"]
  /\ promise' = [promise EXCEPT ![s] = IF s \in Bridged THEN "pending" ELSE "none"]
  /\ UNCHANGED <<started, chain, rejected, settles, runner, behind>>

\* Where the chain stands, for a step of it and for one registered late.
onChain(s) == chain # << >> /\ Head(chain) = link("step", s)
pastHead == IF chain = << >> THEN << >> ELSE Tail(chain)

\* Mutant: the bridge hands its step's failure to the host as well.
RethrowsToHost(s, how) ==
  /\ body[s] = "running"
  /\ body' = [body EXCEPT ![s] = how]
  /\ IF s \in Bridged
     THEN settleOnce(s, IF how = "ok" THEN "resolved" ELSE "rejected")
     ELSE UNCHANGED <<promise, settles>>
  /\ IF onChain(s)
     THEN chain' = pastHead /\ rejected' = (how = "failed")
     ELSE UNCHANGED <<chain, rejected>>
  /\ UNCHANGED <<started, runner, behind>>

\* The step's function ends.  Under the bridge the failure settles the owned
\* promise and the host sees a fulfilled step either way; a raw step's failure
\* rejects the chain it is on.
EndStep(s, how) ==
  /\ body[s] = "running"
  /\ body' = [body EXCEPT ![s] = how]
  /\ IF s \in Bridged
     THEN settleOnce(s, IF how = "ok" THEN "resolved" ELSE "rejected")
     ELSE UNCHANGED <<promise, settles>>
  /\ IF onChain(s)
     THEN chain' = pastHead /\ rejected' = (how = "failed" /\ s \notin Bridged)
     ELSE UNCHANGED <<chain, rejected>>
  /\ UNCHANGED <<started, runner, behind>>

\* The bridge's catch: reached rejected only when something ahead failed, which
\* includes this step itself having been skipped.  It rethrows.
reachedCatch(s) ==
  /\ started /\ chain # << >> /\ Head(chain) = link("bridgeCatch", s)
  /\ chain' = Tail(chain)
  /\ UNCHANGED <<started, body, runner, behind>>

\* Mutant: the catch swallows the failure it observed.
SwallowsFailure(s) ==
  /\ reachedCatch(s)
  /\ rejected' = FALSE
  /\ IF rejected /\ settles[s] = 0
     THEN settleOnce(s, "rejected")
     ELSE UNCHANGED <<promise, settles>>

\* Mutant: the catch settles whatever happened before.
SettlesAgain(s) ==
  /\ reachedCatch(s)
  /\ UNCHANGED rejected
  /\ IF rejected \/ body[s] = "failed"
     THEN settleOnce(s, "rejected")
     ELSE UNCHANGED <<promise, settles>>

BridgeCatch(s) ==
  /\ reachedCatch(s)
  /\ UNCHANGED rejected
  /\ IF rejected /\ settles[s] = 0
     THEN settleOnce(s, "rejected")
     ELSE UNCHANGED <<promise, settles>>

-----------------------------------------------------------------------------
(* The host *)

\* start(): appends then(_done) and opens the gate the chain hangs on.
Start ==
  /\ ~started
  /\ started' = TRUE
  /\ chain' = Append(chain, [kind |-> "done"])
  /\ UNCHANGED <<rejected, body, promise, settles, runner, behind>>

\* The chain reaches a step: fulfilled, it calls it; rejected, it passes by.
ReachStep(s) ==
  /\ started /\ onChain(s) /\ body[s] = "queued"
  /\ IF rejected
     THEN chain' = Tail(chain) /\ body' = [body EXCEPT ![s] = "skipped"]
     ELSE UNCHANGED chain /\ body' = [body EXCEPT ![s] = "running"]
  /\ UNCHANGED <<started, rejected, promise, settles, runner, behind>>

\* The host's catch tells the runner, the first time, and rethrows.
HostCatch(s) ==
  /\ started /\ chain # << >> /\ Head(chain) = link("hostCatch", s)
  /\ chain' = Tail(chain)
  /\ runner' = IF rejected /\ runner = "waiting" THEN "failed" ELSE runner
  /\ UNCHANGED <<started, rejected, body, promise, settles, behind>>

ReachDone ==
  /\ started /\ chain # << >> /\ Head(chain).kind = "done"
  /\ chain' = Tail(chain)
  /\ runner' = IF ~rejected /\ runner = "waiting" THEN "done" ELSE runner
  /\ UNCHANGED <<started, rejected, body, promise, settles, behind>>

Drive(s) ==
  \/ ReachStep(s) \/ HostCatch(s) \/ BridgeCatch(s)
  \/ \E how \in {"ok", "failed"} : EndStep(s, how)

Next ==
  \/ \E s \in Step : RegisterEarly(s) \/ RegisterLate(s) \/ Drive(s)
  \/ Start \/ ReachDone

Spec == Init /\ [][Next]_vars

\* The runner starts the deployer, reactions run, and steps end.
Fairness == WF_vars(Start) /\ WF_vars(ReachDone) /\ \A s \in Step : WF_vars(Drive(s))

FairSpec == Spec /\ Fairness
-----------------------------------------------------------------------------
(* Properties *)

\* A promise answers for its own step: resolved only by a step that ran to its
\* end, and the failure of a step reaches its caller and no other one - neither
\* a later step's caller nor the runner, which would report it once more.
AnswersForItsStep ==
  /\ \A s \in Bridged :
       /\ promise[s] = "resolved" => body[s] = "ok"
       /\ promise[s] = "rejected" =>
            \/ body[s] = "failed"
            \/ body[s] = "skipped" /\ \E q \in behind[s] \ Bridged : body[q] = "failed"
  /\ runner = "failed" => \E s \in Step \ Bridged : body[s] = "failed"

\* The host's own rule survives the bridge: no step of the chain runs behind a
\* raw step that failed, however many bridged ones stand between them.
NothingRunsPastFailure ==
  \A s \in Step : \A q \in behind[s] \ Bridged :
    body[q] = "failed" => body[s] \in {"queued", "skipped"}

\* The caller of a bridged step always learns how it ended, also when the step
\* was skipped; an await of the host's own value would be left suspended.
EveryCallerLearns ==
  \A s \in Bridged : body[s] # "unregistered" ~> promise[s] \in {"resolved", "rejected"}
=============================================================================
