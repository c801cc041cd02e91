------------------------------ MODULE Workflow ------------------------------
(***************************************************************************)
(* The reference workflow runner: `execute` and `dispatch_step` of         *)
(* crates/tower-agent-workflow/src/execution.rs.                           *)
(*                                                                         *)
(* The runner is one future. The futures of its steps live in a            *)
(* FuturesUnordered and are polled only from inside the runner's own       *)
(* `in_flight.next()`, so nothing the runner does is interleaved with the  *)
(* poll of a step, but the caller's cancellation token and the clock       *)
(* change at any moment. One action is one stretch of code between two     *)
(* points at which such a change, or another step, can intervene.          *)
(*                                                                         *)
(* `in_flight.next()` polls step futures until one is ready. When the      *)
(* select that surrounds it sees a cancellation first, it never reaches    *)
(* the steps; a cancellation that lands just after that check is first     *)
(* seen by a step. Hence the step actions do not require that the caller's *)
(* token is untouched, while the stop they lead to is recorded by the next *)
(* pass through the admission loop.                                        *)
(***************************************************************************)
EXTENDS Integers, FiniteSets

CONSTANTS
  Steps,          \* step identifiers; StepId's order is the order of numbers
  Needs,          \* Needs[s]: the `needs` of step s
  MaxConcurrency  \* WorkflowService::max_concurrency

ASSUME StepsAssumption == Steps \subseteq Nat /\ IsFiniteSet(Steps)

ASSUME NeedsAssumption == Needs \in [Steps -> SUBSET Steps]

\* What WorkflowDefinition::compile establishes (module Definition): no set
\* of steps is closed under "needs a member of the set".
ASSUME AcyclicAssumption ==
  \A T \in SUBSET Steps : T # {} => \E s \in T : Needs[s] \cap T = {}

ASSUME ConcurrencyAssumption == MaxConcurrency \in Nat \ {0}

VARIABLES
  pc,                      \* where `execute` stands
  remaining_dependencies,  \* per step, dependencies not yet counted off
  ready,                   \* the BTreeSet of admissible steps
  in_flight,               \* per step, the state of its dispatch future
  outputs,                 \* steps whose output is recorded
  failures,                \* steps whose error is recorded
  stop_reason,             \* Option<StopReason>
  run_cancelled,           \* run_cancellation.cancel() was called
  caller_cancelled,        \* context.cancellation
  deadline,                \* context.deadline against the clock
  result,                  \* what the run returned
  called                   \* history: steps whose `call` was invoked

vars == <<pc, remaining_dependencies, ready, in_flight, outputs, failures,
          stop_reason, run_cancelled, caller_cancelled, deadline, result,
          called>>

\* Every variable but pc, in the groups that actions leave alone together.
graph == <<remaining_dependencies, ready>>
settled == <<outputs, failures>>
tokens == <<stop_reason, run_cancelled>>
environment == <<caller_cancelled, deadline>>

(***************************************************************************)
(* Helpers                                                                 *)
(***************************************************************************)

\* The members of the FuturesUnordered.
InFlight == {s \in Steps : in_flight[s] # "none"}

\* A step future is in the middle of a poll: it holds a ready dispatcher
\* and has not yet looked at its token for the second time.
MidPoll == \E s \in Steps : in_flight[s] = "granted"

\* `in_flight.len() < max_concurrency`
HasCapacity == Cardinality(InFlight) < MaxConcurrency

\* A step's token is a child of run_cancellation, itself a child of the
\* caller's token.
StepCancelled == caller_cancelled \/ run_cancelled

\* Mutant: the stop is recorded, the run-local token is left alone.
StopUnsignalled(reason) ==
  /\ stop_reason' = reason
  /\ UNCHANGED run_cancelled

\* Record why the run stops and cancel the run-local token.
Stop(reason) ==
  /\ stop_reason' = reason
  /\ run_cancelled' = TRUE

Outgoing(s) == {t \in Steps : s \in Needs[t]}

\* Each successor of s has one dependency fewer.
CountOff(s) ==
  [t \in Steps |-> IF t \in Outgoing(s) THEN remaining_dependencies[t] - 1
                                       ELSE remaining_dependencies[t]]

\* Mutant: a successor is ready one dependency early.
NewlyReadyEarly(s) == {t \in Outgoing(s) : CountOff(s)[t] <= 1}

\* The successors that s was the last dependency of.
NewlyReady(s) == {t \in Outgoing(s) : CountOff(s)[t] = 0}

(***************************************************************************)
(* Initial state: `call` has boxed the future, nobody has polled it.       *)
(***************************************************************************)

Init ==
  /\ pc = "start"
  /\ remaining_dependencies = [s \in Steps |-> Cardinality(Needs[s])]
  /\ ready = {s \in Steps : Cardinality(Needs[s]) = 0}
  /\ in_flight = [s \in Steps |-> "none"]
  /\ outputs = {}
  /\ failures = {}
  /\ stop_reason = "none"
  /\ run_cancelled = FALSE
  /\ caller_cancelled \in BOOLEAN
  /\ deadline \in {"none", "ahead", "passed"}
  /\ result = "pending"
  /\ called = {}

(***************************************************************************)
(* The caller and the clock                                                *)
(***************************************************************************)

CancelCaller ==
  /\ ~caller_cancelled
  /\ caller_cancelled' = TRUE
  /\ UNCHANGED <<pc, graph, in_flight, settled, tokens, deadline, result,
                 called>>

DeadlinePasses ==
  /\ deadline = "ahead"
  /\ deadline' = "passed"
  /\ UNCHANGED <<pc, graph, in_flight, settled, tokens, caller_cancelled,
                 result, called>>

\* The workflow future is dropped where it is suspended: before its first
\* poll or inside `in_flight.next()`. Its state goes with it; the variables
\* keep their last values so that a property can say what was abandoned.
Drop ==
  /\ pc \in {"start", "wait"}
  /\ ~MidPoll
  /\ pc' = "dropped"
  /\ UNCHANGED <<graph, in_flight, settled, tokens, environment, result,
                 called>>

(***************************************************************************)
(* The runner                                                              *)
(***************************************************************************)

\* Before the loop: an already cancelled token, then an already passed
\* deadline.
Start ==
  /\ pc = "start"
  /\ pc' = "admit"
  /\ \/ /\ caller_cancelled
        /\ Stop("external")
     \/ /\ ~caller_cancelled
        /\ deadline = "passed"
        /\ Stop("deadline")
     \/ /\ ~caller_cancelled
        /\ deadline # "passed"
        /\ UNCHANGED tokens
  /\ UNCHANGED <<graph, in_flight, settled, environment, result, called>>

\* The two points at which a running workflow looks for a reason to stop:
\* an iteration of the admission loop, and the select around
\* `in_flight.next()`.
Looking ==
  /\ stop_reason = "none"
  /\ ~MidPoll
  /\ \/ pc = "admit" /\ HasCapacity
     \/ pc = "wait"

ObserveCancellation ==
  /\ Looking
  /\ caller_cancelled
  /\ Stop("external")
  /\ pc' = "admit"
  /\ UNCHANGED <<graph, in_flight, settled, environment, result, called>>

\* Mutant: the expired deadline is reported as a cancellation.
ObserveDeadlineAsCancellation ==
  /\ Looking
  /\ ~caller_cancelled
  /\ deadline = "passed"
  /\ Stop("external")
  /\ pc' = "admit"
  /\ UNCHANGED <<graph, in_flight, settled, environment, result, called>>

\* Both points look at the token before the clock.
ObserveDeadline ==
  /\ Looking
  /\ ~caller_cancelled
  /\ deadline = "passed"
  /\ Stop("deadline")
  /\ pc' = "admit"
  /\ UNCHANGED <<graph, in_flight, settled, environment, result, called>>

\* What an iteration of the admission loop looks at before it admits.
MustStop == caller_cancelled \/ deadline = "passed"

\* One iteration of the admission loop: the first ready step joins the
\* in-flight set, its dispatcher not yet polled.
AdmitStep ==
  /\ pc = "admit"
  /\ stop_reason = "none"
  /\ HasCapacity
  /\ ~MustStop
  /\ \E s \in ready :
       /\ \A t \in ready : s <= t
       /\ ready' = ready \ {s}
       /\ in_flight' = [in_flight EXCEPT ![s] = "waiting"]
  /\ UNCHANGED <<pc, remaining_dependencies, settled, tokens, environment,
                 result, called>>

\* Mutant: a new wave is admitted only when the previous one has ended.
AdmissionOverInWaves == InFlight # {} \/ stop_reason # "none" \/ ready = {}

\* The admission loop ends: the run is stopped, full, or has no ready step.
AdmissionOver ==
  \/ stop_reason # "none"
  \/ ~HasCapacity
  \/ ~MustStop /\ ready = {}

BeginWait ==
  /\ pc = "admit"
  /\ AdmissionOver
  /\ InFlight # {}
  /\ pc' = "wait"
  /\ UNCHANGED <<graph, in_flight, settled, tokens, environment, result,
                 called>>

\* The reply, given that the loop has ended.
Outcome ==
  CASE stop_reason = "external" -> "cancelled"
    [] stop_reason = "deadline" -> "deadline_exceeded"
    [] stop_reason = "step_failure" -> "steps_failed"
    [] OTHER -> IF Cardinality(outputs) # Cardinality(Steps)
                  THEN "incomplete"
                  ELSE "ok"

\* Mutant: a stopped run returns without draining the called steps.
DrainedUnlessStopped == InFlight = {} \/ stop_reason # "none"

\* The loop is left only when no step future is left.
Drained == InFlight = {}

Return ==
  /\ pc = "admit"
  /\ AdmissionOver
  /\ Drained
  /\ pc' = "done"
  /\ result' = Outcome
  /\ UNCHANGED <<graph, in_flight, settled, tokens, environment, called>>

(***************************************************************************)
(* The dispatch future of step s, polled from `in_flight.next()`           *)
(***************************************************************************)

\* The runner is inside `in_flight.next()` and polls s.
Polled(s) ==
  /\ pc = "wait"
  /\ \A t \in Steps \ {s} : in_flight[t] # "granted"

\* Mutant: the settlement does not lead back to the admission loop.
LeaveAndKeepWaiting(s) ==
  /\ in_flight' = [in_flight EXCEPT ![s] = "none"]
  /\ pc' = "wait"
  /\ UNCHANGED <<environment, result, called>>

\* s leaves the in-flight set and the runner handles its settlement.
Leave(s) ==
  /\ in_flight' = [in_flight EXCEPT ![s] = "none"]
  /\ pc' = "admit"
  /\ UNCHANGED <<environment, result, called>>

\* StepSettlement::Settled(Err): recorded; the first one stops the run.
RecordFailure(s) ==
  /\ failures' = failures \cup {s}
  /\ IF stop_reason = "none" THEN Stop("step_failure") ELSE UNCHANGED tokens
  /\ UNCHANGED <<outputs, graph>>

\* StepSettlement::Settled(Ok): recorded always; only a running workflow
\* counts off the successors.
RecordOutput(s) ==
  /\ outputs' = outputs \cup {s}
  /\ IF stop_reason = "none"
       THEN /\ remaining_dependencies' = CountOff(s)
            /\ ready' = ready \cup NewlyReady(s)
       ELSE UNCHANGED graph
  /\ UNCHANGED <<failures, tokens>>

\* The first select of dispatch_step: cancellation is polled before
\* readiness and the step settles as NotCalled.
AbandonReadiness(s) ==
  /\ Polled(s)
  /\ in_flight[s] = "waiting"
  /\ StepCancelled
  /\ Leave(s)
  /\ UNCHANGED <<graph, settled, tokens>>

\* The dispatcher answers `ready`. A dispatcher that is not ready yet
\* leaves everything as it is.
DispatcherReady(s) ==
  /\ Polled(s)
  /\ in_flight[s] = "waiting"
  /\ ~StepCancelled
  /\ in_flight' = [in_flight EXCEPT ![s] = "granted"]
  /\ UNCHANGED <<pc, graph, settled, tokens, environment, result, called>>

\* The dispatcher's readiness fails: an error that never crossed `call`.
DispatcherUnready(s) ==
  /\ Polled(s)
  /\ in_flight[s] = "waiting"
  /\ ~StepCancelled
  /\ Leave(s)
  /\ RecordFailure(s)

\* The second look at the token found a cancellation: NotCalled.
AbandonCall(s) ==
  /\ Polled(s)
  /\ in_flight[s] = "granted"
  /\ StepCancelled
  /\ Leave(s)
  /\ UNCHANGED <<graph, settled, tokens>>

\* Mutant: the token is not looked at again after readiness.
CallUnchecked(s) ==
  /\ Polled(s)
  /\ in_flight[s] = "granted"
  /\ in_flight' = [in_flight EXCEPT ![s] = "called"]
  /\ called' = called \cup {s}
  /\ UNCHANGED <<pc, graph, settled, tokens, environment, result>>

\* The second look found none: the dispatcher is called.
Call(s) ==
  /\ Polled(s)
  /\ in_flight[s] = "granted"
  /\ ~StepCancelled
  /\ in_flight' = [in_flight EXCEPT ![s] = "called"]
  /\ called' = called \cup {s}
  /\ UNCHANGED <<pc, graph, settled, tokens, environment, result>>

\* A called step settles, cancelled or not: dispatch_step does not race the
\* response with the token.
SettleOk(s) ==
  /\ Polled(s)
  /\ in_flight[s] = "called"
  /\ Leave(s)
  /\ RecordOutput(s)

SettleErr(s) ==
  /\ Polled(s)
  /\ in_flight[s] = "called"
  /\ Leave(s)
  /\ RecordFailure(s)

(***************************************************************************)
(* Specification                                                           *)
(***************************************************************************)

Runner ==
  \/ Start
  \/ ObserveCancellation
  \/ ObserveDeadline
  \/ AdmitStep
  \/ BeginWait
  \/ Return

Step(s) ==
  \/ AbandonReadiness(s)
  \/ DispatcherReady(s)
  \/ DispatcherUnready(s)
  \/ AbandonCall(s)
  \/ Call(s)
  \/ SettleOk(s)
  \/ SettleErr(s)

Environment == CancelCaller \/ DeadlinePasses \/ Drop

\* A finished run stays finished.
Finished == pc \in {"done", "dropped"} /\ UNCHANGED vars

Next ==
  \/ Runner
  \/ \E s \in Steps : Step(s)
  \/ Environment
  \/ Finished

Spec == Init /\ [][Next]_vars

\* The task that owns the runner is polled whenever a token, the timer or a
\* step wakes it, and a called step settles. Readiness is not assumed: a
\* dispatcher may stay unready for ever.
CooperativeFairness ==
  /\ WF_vars(Runner)
  /\ \A s \in Steps :
       /\ WF_vars(AbandonReadiness(s))
       /\ WF_vars(AbandonCall(s) \/ Call(s))
       /\ WF_vars(SettleOk(s) \/ SettleErr(s))

CooperativeSpec == Spec /\ CooperativeFairness

\* Every dispatcher answers its readiness poll at last.
ReadyFairness ==
  \A s \in Steps : WF_vars(DispatcherReady(s) \/ DispatcherUnready(s))

(***************************************************************************)
(* Properties                                                              *)
(***************************************************************************)

\* Every variable stays in its domain; in particular a dependency count
\* never underflows (`*remaining -= 1` on a usize).
TypeOK ==
  /\ pc \in {"start", "admit", "wait", "done", "dropped"}
  /\ remaining_dependencies \in [Steps -> Nat]
  /\ ready \subseteq Steps
  /\ in_flight \in [Steps -> {"none", "waiting", "granted", "called"}]
  /\ outputs \subseteq Steps
  /\ failures \subseteq Steps
  /\ stop_reason \in {"none", "external", "deadline", "step_failure"}
  /\ run_cancelled \in BOOLEAN
  /\ caller_cancelled \in BOOLEAN
  /\ deadline \in {"none", "ahead", "passed"}
  /\ result \in {"pending", "ok", "incomplete", "cancelled",
                 "deadline_exceeded", "steps_failed"}
  /\ called \subseteq Steps

\* The `expect("ready step dependencies must have completed")` of the
\* admission loop cannot fire: whatever is ready, admitted, called or
\* settled had the output of each of its dependencies.
DependenciesFirst ==
  \A s \in ready \cup InFlight \cup outputs \cup failures :
    Needs[s] \subseteq outputs

\* No run holds more step futures than max_concurrency, readiness-pending
\* ones included.
ConcurrencyBounded == Cardinality(InFlight) <= MaxConcurrency

\* "The scheduler is work-conserving": a running workflow sleeps only when
\* it is full or has nothing ready, whatever branch is slow.
WorkConserving ==
  pc = "wait" /\ stop_reason = "none" => ~HasCapacity \/ ready = {}

\* A run that returned has heard from every step it called, and lists each
\* one among its outputs or its failures, settled before or after the stop.
SettlementsReported ==
  pc = "done" => InFlight = {} /\ called \subseteq outputs \cup failures

\* The reply names what happened: success means that every step produced
\* its output, a stop is backed by its cause, and no failure is hidden
\* behind a success.
TruthfulReply ==
  /\ result = "ok" => outputs = Steps /\ failures = {}
  /\ result = "cancelled" => caller_cancelled
  /\ result = "deadline_exceeded" => deadline = "passed"
  /\ result = "steps_failed" => failures # {}

\* WorkflowFailure::Incomplete is unreachable: a validated acyclic graph is
\* finished unless the run was stopped, also when a step gave up its call
\* before the runner itself saw the cancellation.
NeverIncomplete == result # "incomplete"

\* No step is called after the run recorded a stop, or after its token was
\* seen cancelled, whatever the dispatcher's readiness raced with.
NoCallOnceStopped ==
  [][called' # called => stop_reason = "none" /\ ~StepCancelled]_vars

\* The first reason to stop is the one that is reported: later failures,
\* cancellations or deadlines do not replace it, and nothing reopens a run.
FirstStopWins ==
  [][stop_reason # "none" => stop_reason' = stop_reason
                             /\ ready' \subseteq ready]_vars

\* A cancelled or expired run ends although a dispatcher never becomes
\* ready, as long as called steps settle.
StopEnds ==
  caller_cancelled \/ deadline = "passed" ~> pc \in {"done", "dropped"}

\* A run whose dispatchers all answer ends.
Terminates == ReadyFairness => <>(pc \in {"done", "dropped"})

(***************************************************************************)
(* The inductive invariant behind the safety properties                    *)
(***************************************************************************)

\* A running workflow has counted off exactly the recorded outputs.
CountsExact ==
  stop_reason = "none" =>
    \A s \in Steps :
      remaining_dependencies[s] = Cardinality(Needs[s] \ outputs)

\* A step is in one place at a time, so it is admitted and settled once.
OnePlace ==
  /\ ready \cap (InFlight \cup outputs \cup failures) = {}
  /\ InFlight \cap (outputs \cup failures) = {}
  /\ outputs \cap failures = {}

\* A running workflow has not lost a step: what has all its dependencies
\* is somewhere, unless a cancelled step gave up its call.
NothingLost ==
  stop_reason = "none" /\ ~caller_cancelled =>
    \A s \in Steps :
      Needs[s] \subseteq outputs => s \in ready \cup InFlight \cup outputs

\* The run-local token is cancelled with the first stop, each stop has its
\* cause, and a run without a stop has no failure.
StopsCaused ==
  /\ run_cancelled <=> stop_reason # "none"
  /\ stop_reason = "external" => caller_cancelled
  /\ stop_reason = "deadline" => deadline = "passed"
  /\ stop_reason = "step_failure" => failures # {}
  /\ stop_reason = "none" => failures = {}
  /\ pc = "start" => stop_reason = "none"

\* A call is in flight or settled from the moment it is made.
CallsAccounted ==
  /\ \A s \in called : s \in outputs \cup failures \/ in_flight[s] = "called"
  /\ pc # "done" <=> result = "pending"
  /\ pc = "done" => InFlight = {}

\* The conjunction that every step of the runner preserves; it implies the
\* safety properties above.
IInv ==
  /\ TypeOK
  /\ DependenciesFirst
  /\ ConcurrencyBounded
  /\ WorkConserving
  /\ TruthfulReply
  /\ NeverIncomplete
  /\ CountsExact
  /\ OnePlace
  /\ NothingLost
  /\ StopsCaused
  /\ CallsAccounted

(***************************************************************************)
(* Refinement of the promise of module DagRun                              *)
(***************************************************************************)

StatusOf(s) ==
  IF s \in outputs THEN "ok"
  ELSE IF s \in failures THEN "err"
  ELSE IF in_flight[s] = "called" THEN "called"
  ELSE "pending"

Abstract == INSTANCE DagRun WITH
  status <- [s \in Steps |-> StatusOf(s)],
  open <- stop_reason = "none",
  reply <- CASE pc = "done" -> IF result = "ok" THEN "ok" ELSE "stopped"
             [] pc = "dropped" -> "dropped"
             [] OTHER -> "running"

\* Every behaviour of the runner is, seen from the caller, one of DagRun.
RunsTheGraph == Abstract!Spec

=============================================================================
