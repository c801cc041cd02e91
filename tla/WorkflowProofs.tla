--------------------------- MODULE WorkflowProofs ---------------------------
(***************************************************************************)
(* Safety of the workflow runner for every acyclic graph and every         *)
(* concurrency bound: IInv is inductive and implies the safety properties  *)
(* of module Workflow.                                                     *)
(***************************************************************************)
EXTENDS Workflow, FiniteSetTheorems, TLAPS

USE StepsAssumption, NeedsAssumption, ConcurrencyAssumption

(***************************************************************************)
(* Facts about the graph and its counters                                  *)
(***************************************************************************)

\* What is left of a step's dependencies is finite and can be counted.
LEMMA NeedsCountable ==
  ASSUME NEW s \in Steps, NEW S
  PROVE  /\ IsFiniteSet(Needs[s] \ S)
         /\ Cardinality(Needs[s] \ S) \in Nat
         /\ Cardinality(Needs[s] \ S) = 0 <=> Needs[s] \subseteq S
<1>1. IsFiniteSet(Needs[s] \ S)
  BY FS_Subset
<1>2. Cardinality(Needs[s] \ S) = 0 <=> Needs[s] \ S = {}
  BY <1>1, FS_EmptySet
<1>3. QED
  BY <1>1, <1>2, FS_CardinalityType

\* Any set of steps is finite and can be counted.
LEMMA StepSetCountable ==
  ASSUME NEW S \in SUBSET Steps
  PROVE  IsFiniteSet(S) /\ Cardinality(S) \in Nat
BY FS_Subset, FS_CardinalityType

\* The loop over `outgoing[step_id]` keeps the counters exact when the
\* output of s is new.
LEMMA CountOffExact ==
  ASSUME TypeOK, CountsExact, stop_reason = "none",
         NEW s \in Steps, s \notin outputs, NEW t \in Steps
  PROVE  CountOff(s)[t] = Cardinality(Needs[t] \ (outputs \cup {s}))
<1> DEFINE left == Needs[t] \ outputs
<1>1. IsFiniteSet(left) /\ Cardinality(left) \in Nat
  BY NeedsCountable
<1>2. Needs[t] \ (outputs \cup {s}) = left \ {s}
  OBVIOUS
<1>3. Cardinality(left \ {s})
        = IF s \in left THEN Cardinality(left) - 1 ELSE Cardinality(left)
  BY <1>1, FS_RemoveElement
<1>4. s \in left <=> t \in Outgoing(s)
  BY DEF Outgoing
<1>5. remaining_dependencies[t] = Cardinality(left)
  BY DEF CountsExact
<1>6. CASE s \in left
  BY <1>1, <1>2, <1>3, <1>4, <1>5, <1>6 DEF CountOff
<1>7. CASE s \notin left
  BY <1>1, <1>2, <1>3, <1>4, <1>5, <1>7 DEF CountOff
<1>8. QED
  BY <1>6, <1>7

\* The steps that become ready are those that s completes.
LEMMA NewlyReadyExact ==
  ASSUME TypeOK, CountsExact, stop_reason = "none",
         NEW s \in Steps, s \notin outputs, NEW t \in Steps
  PROVE  t \in NewlyReady(s)
           <=> s \in Needs[t] /\ Needs[t] \subseteq outputs \cup {s}
<1>1. CountOff(s)[t] = Cardinality(Needs[t] \ (outputs \cup {s}))
  BY CountOffExact
<1>2. Cardinality(Needs[t] \ (outputs \cup {s})) = 0
        <=> Needs[t] \subseteq outputs \cup {s}
  BY NeedsCountable
<1>3. QED
  BY <1>1, <1>2 DEF NewlyReady, Outgoing

(***************************************************************************)
(* The invariant holds initially                                           *)
(***************************************************************************)

LEMMA NothingInFlight ==
  ASSUME in_flight = [s \in Steps |-> "none"]
  PROVE  InFlight = {}
BY DEF InFlight

\* A run that has not been polled yet satisfies the invariant.
LEMMA InitIInv == Init => IInv
<1> SUFFICES ASSUME Init
             PROVE  IInv
  OBVIOUS
<1>1. InFlight = {} /\ Cardinality(InFlight) = 0
  BY NothingInFlight, FS_EmptySet DEF Init
<1>2. \A s \in Steps : /\ Cardinality(Needs[s]) \in Nat
                       /\ Cardinality(Needs[s]) = 0 <=> Needs[s] = {}
                       /\ Needs[s] \ {} = Needs[s]
  <2> SUFFICES ASSUME NEW s \in Steps
               PROVE  /\ Cardinality(Needs[s]) \in Nat
                      /\ Cardinality(Needs[s]) = 0 <=> Needs[s] = {}
                      /\ Needs[s] \ {} = Needs[s]
    OBVIOUS
  <2>1. Needs[s] \ {} = Needs[s]
    OBVIOUS
  <2>2. QED
    BY <2>1, NeedsCountable
<1>3. TypeOK
  BY <1>2 DEF Init, TypeOK
<1>4. DependenciesFirst
  BY <1>1, <1>2 DEF Init, DependenciesFirst
<1>5. ConcurrencyBounded
  BY <1>1 DEF ConcurrencyBounded
<1>6. CountsExact
  BY <1>2 DEF Init, CountsExact
<1>7. OnePlace
  BY <1>1 DEF Init, OnePlace
<1>8. NothingLost
  BY <1>2 DEF Init, NothingLost
<1>9. WorkConserving /\ TruthfulReply /\ NeverIncomplete /\ StopsCaused
  BY DEF Init, WorkConserving, TruthfulReply, NeverIncomplete, StopsCaused
<1>10. CallsAccounted
  BY <1>1 DEF Init, CallsAccounted
<1>11. QED
  BY <1>3, <1>4, <1>5, <1>6, <1>7, <1>8, <1>9, <1>10 DEF IInv

(***************************************************************************)
(* The invariant is preserved: the caller, the clock and the bookkeeping   *)
(* of the runner, none of which moves a step                               *)
(***************************************************************************)

\* What follows from leaving the step futures alone.
LEMMA SameFutures ==
  ASSUME UNCHANGED in_flight
  PROVE  InFlight' = InFlight /\ (HasCapacity' <=> HasCapacity)
BY DEF InFlight, HasCapacity

\* The caller's token, the clock and a dropped future.
LEMMA EnvironmentIInv ==
  ASSUME IInv, Environment
  PROVE  IInv'
<1>1. UNCHANGED in_flight /\ InFlight' = InFlight
      /\ (HasCapacity' <=> HasCapacity)
  BY SameFutures DEF Environment, CancelCaller, DeadlinePasses, Drop
<1>2. UNCHANGED <<graph, settled, tokens, result, called>>
  BY DEF Environment, CancelCaller, DeadlinePasses, Drop
<1>3. TypeOK'
  <2>1. CASE CancelCaller
    BY <2>1 DEF IInv, TypeOK, CancelCaller, graph, settled, tokens, environment
  <2>2. CASE DeadlinePasses
    BY <2>2 DEF IInv, TypeOK, DeadlinePasses, graph, settled, tokens, environment
  <2>3. CASE Drop
    BY <2>3 DEF IInv, TypeOK, Drop, graph, settled, tokens, environment
  <2>4. QED
    BY <2>1, <2>2, <2>3 DEF Environment
<1>4. DependenciesFirst' /\ ConcurrencyBounded' /\ CountsExact' /\ OnePlace'
  BY <1>1, <1>2 DEF IInv, DependenciesFirst, ConcurrencyBounded, CountsExact,
         OnePlace, graph, settled, tokens
<1>5. WorkConserving' /\ TruthfulReply' /\ NeverIncomplete' /\ NothingLost'
      /\ StopsCaused' /\ CallsAccounted'
  BY <1>1, <1>2 DEF IInv, TypeOK, WorkConserving, TruthfulReply,
         NeverIncomplete, NothingLost, StopsCaused, CallsAccounted,
         Environment, CancelCaller, DeadlinePasses, Drop, graph, settled,
         tokens, environment
<1>6. QED
  BY <1>3, <1>4, <1>5 DEF IInv

\* The looks for a reason to stop, before and inside the loop, and the
\* passage from the admission loop to the wait.
LEMMA LooksIInv ==
  ASSUME IInv, Start \/ ObserveCancellation \/ ObserveDeadline \/ BeginWait
  PROVE  IInv'
<1> USE DEF Start, ObserveCancellation, ObserveDeadline, BeginWait, Stop
<1>1. UNCHANGED in_flight /\ InFlight' = InFlight
      /\ (HasCapacity' <=> HasCapacity)
  BY SameFutures
<1>2. UNCHANGED <<graph, settled, environment, in_flight, result, called>>
  OBVIOUS
<1>3. TypeOK'
  BY <1>2 DEF IInv, TypeOK, graph, settled, tokens, environment
<1>4. DependenciesFirst' /\ ConcurrencyBounded' /\ OnePlace'
  BY <1>1, <1>2 DEF IInv, DependenciesFirst, ConcurrencyBounded, OnePlace,
         graph, settled
<1>5. CountsExact' /\ NothingLost' /\ StopsCaused'
  BY <1>1, <1>2 DEF IInv, TypeOK, CountsExact, NothingLost, StopsCaused,
         graph, settled, tokens, environment
<1>6. WorkConserving'
  BY <1>1, <1>2 DEF IInv, WorkConserving, AdmissionOver, graph, tokens
<1>7. TruthfulReply' /\ NeverIncomplete' /\ CallsAccounted'
  BY <1>1, <1>2 DEF IInv, TruthfulReply, NeverIncomplete, CallsAccounted,
         Looking, graph, settled, environment
<1>8. QED
  BY <1>3, <1>4, <1>5, <1>6, <1>7 DEF IInv

\* A drained run that was never stopped has every output: a smallest missing
\* step would have all its dependencies, and so be ready or in flight.
LEMMA DrainedIsComplete ==
  ASSUME IInv, stop_reason = "none", InFlight = {}, AdmissionOver
  PROVE  outputs = Steps
<1>1. ~caller_cancelled /\ ready = {}
  <2>1. Cardinality(InFlight) = 0
    BY FS_EmptySet
  <2>2. HasCapacity
    BY <2>1 DEF HasCapacity
  <2>3. QED
    BY <2>2 DEF AdmissionOver, MustStop
<1>2. ASSUME Steps \ outputs # {}
      PROVE  FALSE
  <2>1. PICK s \in Steps \ outputs : Needs[s] \cap (Steps \ outputs) = {}
    BY <1>2, AcyclicAssumption
  <2>2. Needs[s] \subseteq outputs
    BY <2>1
  <2>3. s \in ready \cup InFlight \cup outputs
    BY <1>1, <2>1, <2>2 DEF IInv, NothingLost
  <2>4. QED
    BY <1>1, <2>1, <2>3
<1>3. QED
  BY <1>2 DEF IInv, TypeOK

\* The run returns.
LEMMA ReturnIInv ==
  ASSUME IInv, Return
  PROVE  IInv'
<1> USE DEF Return
<1>1. UNCHANGED in_flight /\ InFlight' = InFlight
      /\ (HasCapacity' <=> HasCapacity)
  BY SameFutures
<1>2. UNCHANGED <<graph, settled, tokens, environment, in_flight, called>>
  OBVIOUS
<1>3. stop_reason = "none" => outputs = Steps /\ Outcome = "ok"
  BY DrainedIsComplete DEF Drained, Outcome
<1>4. stop_reason # "none" =>
        \/ stop_reason = "external" /\ Outcome = "cancelled"
        \/ stop_reason = "deadline" /\ Outcome = "deadline_exceeded"
        \/ stop_reason = "step_failure" /\ Outcome = "steps_failed"
  BY DEF Outcome, IInv, TypeOK
<1>5. TypeOK'
  BY <1>2, <1>3, <1>4 DEF IInv, TypeOK, graph, settled, tokens, environment
<1>6. DependenciesFirst' /\ ConcurrencyBounded' /\ OnePlace' /\ CountsExact'
      /\ NothingLost' /\ StopsCaused'
  BY <1>1, <1>2 DEF IInv, DependenciesFirst, ConcurrencyBounded, OnePlace,
         CountsExact, NothingLost, StopsCaused, graph, settled, tokens,
         environment
<1>7. TruthfulReply' /\ NeverIncomplete'
  BY <1>2, <1>3, <1>4 DEF IInv, TruthfulReply, NeverIncomplete, StopsCaused,
         settled, tokens, environment
<1>8. WorkConserving' /\ CallsAccounted'
  BY <1>1, <1>2, <1>3, <1>4 DEF IInv, WorkConserving, CallsAccounted, Drained,
         settled
<1>9. QED
  BY <1>5, <1>6, <1>7, <1>8 DEF IInv

(***************************************************************************)
(* The invariant is preserved: steps on their way to the call              *)
(***************************************************************************)

\* The first ready step joins the in-flight set.
LEMMA AdmitStepIInv ==
  ASSUME IInv, AdmitStep
  PROVE  IInv'
<1>1. PICK s \in ready : /\ ready' = ready \ {s}
                         /\ in_flight' = [in_flight EXCEPT ![s] = "waiting"]
  BY DEF AdmitStep
<1>2. s \in Steps /\ s \notin InFlight
  BY <1>1 DEF IInv, TypeOK, OnePlace
<1>3. InFlight' = InFlight \cup {s}
  BY <1>1, <1>2 DEF InFlight, IInv, TypeOK
<1>4. UNCHANGED <<pc, remaining_dependencies, settled, tokens, environment,
                  result, called>> /\ pc = "admit"
  BY DEF AdmitStep
<1>5. TypeOK'
  BY <1>1, <1>2, <1>4 DEF IInv, TypeOK, settled, tokens, environment
<1>6. ConcurrencyBounded'
  <2>1. IsFiniteSet(InFlight) /\ Cardinality(InFlight) \in Nat
    BY StepSetCountable DEF InFlight
  <2>2. Cardinality(InFlight \cup {s}) = Cardinality(InFlight) + 1
    BY <1>2, <2>1, FS_AddElement
  <2>3. QED
    BY <1>3, <2>1, <2>2 DEF AdmitStep, HasCapacity, ConcurrencyBounded
<1>7. DependenciesFirst' /\ OnePlace' /\ NothingLost'
  BY <1>1, <1>3, <1>4 DEF IInv, DependenciesFirst, OnePlace, NothingLost,
         settled, tokens, environment
<1>8. CountsExact' /\ StopsCaused' /\ TruthfulReply' /\ NeverIncomplete'
      /\ WorkConserving'
  BY <1>4 DEF IInv, CountsExact, StopsCaused, TruthfulReply, NeverIncomplete,
         WorkConserving, settled, tokens, environment
<1>9. CallsAccounted'
  BY <1>1, <1>2, <1>4 DEF InFlight, TypeOK, IInv, CallsAccounted, settled
<1>10. QED
  BY <1>5, <1>6, <1>7, <1>8, <1>9 DEF IInv

\* A step that becomes ready, or is called, stays in the in-flight set.
LEMMA CallIInv ==
  ASSUME IInv, NEW s \in Steps, DispatcherReady(s) \/ Call(s)
  PROVE  IInv'
<1> USE DEF DispatcherReady, Call
<1>1. InFlight' = InFlight /\ s \in InFlight
  BY DEF InFlight, IInv, TypeOK
<1>2. HasCapacity' <=> HasCapacity
  BY <1>1 DEF HasCapacity
<1>3. UNCHANGED <<pc, graph, settled, tokens, environment, result>>
      /\ called' \subseteq called \cup {s}
  OBVIOUS
<1>4. TypeOK'
  BY <1>3 DEF IInv, TypeOK, graph, settled, tokens, environment
<1>5. DependenciesFirst' /\ ConcurrencyBounded' /\ OnePlace' /\ CountsExact'
      /\ NothingLost' /\ StopsCaused'
  BY <1>1, <1>3 DEF IInv, DependenciesFirst, ConcurrencyBounded, OnePlace,
         CountsExact, NothingLost, StopsCaused, graph, settled, tokens,
         environment
<1>6. WorkConserving' /\ TruthfulReply' /\ NeverIncomplete'
  BY <1>2, <1>3 DEF IInv, WorkConserving, TruthfulReply, NeverIncomplete,
         graph, settled, tokens, environment
<1>7. CallsAccounted'
  BY <1>1, <1>3 DEF IInv, TypeOK, CallsAccounted, settled
<1>8. QED
  BY <1>4, <1>5, <1>6, <1>7 DEF IInv

(***************************************************************************)
(* The invariant is preserved: steps that leave the in-flight set          *)
(***************************************************************************)

\* What leaving does whatever the settlement is.
LEMMA LeaveFutures ==
  ASSUME IInv, NEW s \in Steps, in_flight[s] # "none", Leave(s), pc = "wait"
  PROVE  /\ s \in InFlight
         /\ InFlight' = InFlight \ {s}
         /\ in_flight' \in [Steps -> {"none", "waiting", "granted", "called"}]
         /\ ConcurrencyBounded'
         /\ WorkConserving'
         /\ pc' = "admit"
         /\ result' = "pending"
         /\ result = "pending"
         /\ UNCHANGED <<environment, called>>
<1>1. s \in InFlight /\ InFlight' = InFlight \ {s}
  BY DEF InFlight, Leave, IInv, TypeOK
<1>2. ConcurrencyBounded'
  <2>1. IsFiniteSet(InFlight) /\ Cardinality(InFlight) \in Nat
    BY StepSetCountable DEF InFlight
  <2>2. Cardinality(InFlight \ {s}) = Cardinality(InFlight) - 1
    BY <1>1, <2>1, FS_RemoveElement
  <2>3. QED
    BY <1>1, <2>1, <2>2 DEF IInv, ConcurrencyBounded
<1>3. QED
  BY <1>1, <1>2 DEF Leave, WorkConserving, IInv, TypeOK, CallsAccounted

\* NotCalled: the step vanishes from the run, but its token is cancelled.
LEMMA AbandonIInv ==
  ASSUME IInv, NEW s \in Steps, AbandonReadiness(s) \/ AbandonCall(s)
  PROVE  IInv'
<1> USE DEF AbandonReadiness, AbandonCall
<1>1. UNCHANGED <<graph, settled, tokens>> /\ StepCancelled
  OBVIOUS
<1>2. /\ InFlight' = InFlight \ {s}
      /\ in_flight' \in [Steps -> {"none", "waiting", "granted", "called"}]
      /\ ConcurrencyBounded' /\ WorkConserving'
      /\ pc' = "admit" /\ result' = "pending"
      /\ UNCHANGED <<environment, called>>
  BY LeaveFutures DEF Polled
<1>3. s \notin called
  BY DEF IInv, CallsAccounted, OnePlace, InFlight
<1>4. TypeOK'
  BY <1>1, <1>2 DEF IInv, TypeOK, graph, settled, tokens, environment
<1>5. DependenciesFirst' /\ OnePlace' /\ CountsExact'
  BY <1>1, <1>2 DEF IInv, DependenciesFirst, OnePlace, CountsExact, graph,
         settled, tokens
<1>6. NothingLost' /\ StopsCaused'
  BY <1>1, <1>2 DEF IInv, NothingLost, StopsCaused, StepCancelled, graph,
         settled, tokens, environment
<1>7. TruthfulReply' /\ NeverIncomplete'
  BY <1>2 DEF TruthfulReply, NeverIncomplete
<1>8. CallsAccounted'
  BY <1>1, <1>2, <1>3 DEF IInv, TypeOK, CallsAccounted, Leave, settled
<1>9. QED
  BY <1>2, <1>4, <1>5, <1>6, <1>7, <1>8 DEF IInv

\* Settled(Err), from the readiness poll or from the call.
LEMMA FailureIInv ==
  ASSUME IInv, NEW s \in Steps, DispatcherUnready(s) \/ SettleErr(s)
  PROVE  IInv'
<1> USE DEF DispatcherUnready, SettleErr
<1>1. /\ failures' = failures \cup {s}
      /\ UNCHANGED <<outputs, graph>>
      /\ stop_reason' # "none"
      /\ run_cancelled'
      /\ stop_reason' = stop_reason \/ stop_reason' = "step_failure"
  BY DEF RecordFailure, Stop, tokens, IInv, StopsCaused, TypeOK
<1>2. /\ s \in InFlight
      /\ InFlight' = InFlight \ {s}
      /\ in_flight' \in [Steps -> {"none", "waiting", "granted", "called"}]
      /\ ConcurrencyBounded' /\ WorkConserving'
      /\ pc' = "admit" /\ result' = "pending"
      /\ UNCHANGED <<environment, called>>
  BY LeaveFutures DEF Polled
<1>3. TypeOK'
  BY <1>1, <1>2 DEF IInv, TypeOK, RecordFailure, Stop, graph, tokens,
         environment
<1>4. DependenciesFirst' /\ OnePlace'
  BY <1>1, <1>2 DEF IInv, DependenciesFirst, OnePlace, graph
<1>5. CountsExact' /\ NothingLost'
  BY <1>1 DEF CountsExact, NothingLost
<1>6. StopsCaused'
  BY <1>1, <1>2 DEF IInv, TypeOK, StopsCaused, environment
<1>7. TruthfulReply' /\ NeverIncomplete'
  BY <1>2 DEF TruthfulReply, NeverIncomplete
<1>8. CallsAccounted'
  BY <1>1, <1>2 DEF IInv, TypeOK, CallsAccounted, Leave
<1>9. QED
  BY <1>2, <1>3, <1>4, <1>5, <1>6, <1>7, <1>8 DEF IInv

\* Settled(Ok): the output is recorded, and a running workflow counts off
\* the successors and makes the completed ones ready.
LEMMA SuccessIInv ==
  ASSUME IInv, NEW s \in Steps, SettleOk(s)
  PROVE  IInv'
<1> USE DEF SettleOk
<1>1. /\ outputs' = outputs \cup {s}
      /\ UNCHANGED <<failures, tokens>>
  BY DEF RecordOutput
<1>2. /\ s \in InFlight
      /\ InFlight' = InFlight \ {s}
      /\ in_flight' \in [Steps -> {"none", "waiting", "granted", "called"}]
      /\ ConcurrencyBounded' /\ WorkConserving'
      /\ pc' = "admit" /\ result' = "pending"
      /\ UNCHANGED <<environment, called>>
  BY LeaveFutures DEF Polled
<1>3. s \notin outputs /\ s \notin failures
  BY <1>2 DEF IInv, OnePlace
<1>4. TruthfulReply' /\ NeverIncomplete' /\ StopsCaused'
  BY <1>1, <1>2 DEF IInv, TruthfulReply, NeverIncomplete, StopsCaused, tokens,
         environment
<1>5. CallsAccounted'
  BY <1>1, <1>2 DEF IInv, TypeOK, CallsAccounted, Leave
<1>6. CASE stop_reason # "none"
  <2>1. UNCHANGED graph
    BY <1>6 DEF RecordOutput
  <2>2. TypeOK'
    BY <1>1, <1>2, <2>1 DEF IInv, TypeOK, graph, tokens, environment
  <2>3. DependenciesFirst' /\ OnePlace'
    BY <1>1, <1>2, <2>1 DEF IInv, DependenciesFirst, OnePlace, graph
  <2>4. CountsExact' /\ NothingLost'
    BY <1>1, <1>6 DEF CountsExact, NothingLost, tokens
  <2>5. QED
    BY <1>2, <1>4, <1>5, <2>2, <2>3, <2>4 DEF IInv
<1>7. CASE stop_reason = "none"
  <2>1. /\ remaining_dependencies' = CountOff(s)
        /\ ready' = ready \cup NewlyReady(s)
    BY <1>7 DEF RecordOutput
  <2>2. \A t \in Steps :
          remaining_dependencies'[t] = Cardinality(Needs[t] \ outputs')
    BY <1>1, <1>3, <1>7, <2>1, CountOffExact DEF IInv
  <2>3. \A t \in Steps :
          t \in NewlyReady(s)
            <=> s \in Needs[t] /\ Needs[t] \subseteq outputs'
    BY <1>1, <1>3, <1>7, NewlyReadyExact DEF IInv
  <2>4. NewlyReady(s) \subseteq Steps
    BY DEF NewlyReady, Outgoing
  <2>5. remaining_dependencies' \in [Steps -> Nat]
    <3>1. ASSUME NEW t \in Steps
          PROVE  remaining_dependencies'[t] \in Nat
      <4>1. Cardinality(Needs[t] \ (outputs \cup {s})) \in Nat
        BY NeedsCountable
      <4>2. QED
        BY <1>1, <2>2, <4>1
    <3>2. remaining_dependencies' = [t \in Steps |-> remaining_dependencies'[t]]
      BY <2>1 DEF CountOff
    <3>3. QED
      BY <3>1, <3>2
  <2>6. TypeOK'
    BY <1>1, <1>2, <2>1, <2>4, <2>5 DEF IInv, TypeOK, tokens, environment
  <2>7. CountsExact'
    BY <2>2 DEF CountsExact
  <2>8. DependenciesFirst'
    BY <1>1, <1>2, <2>1, <2>3, <2>4 DEF IInv, DependenciesFirst
  <2>9. OnePlace'
    <3>1. \A t \in NewlyReady(s) :
            t \notin ready \cup InFlight \cup outputs \cup failures
      BY <1>3, <2>3, <2>4 DEF IInv, DependenciesFirst
    <3>2. s \notin NewlyReady(s)
      BY <1>2, <3>1
    <3>3. QED
      BY <1>1, <1>2, <1>3, <2>1, <3>1, <3>2 DEF IInv, OnePlace
  <2>10. NothingLost'
    <3>1. SUFFICES ASSUME ~caller_cancelled, NEW t \in Steps,
                          Needs[t] \subseteq outputs'
                   PROVE  t \in ready' \cup InFlight' \cup outputs'
      BY <1>2 DEF NothingLost, environment
    <3>2. CASE s \in Needs[t]
      BY <2>1, <2>3, <3>1, <3>2
    <3>3. CASE s \notin Needs[t]
      <4>1. t \in ready \cup InFlight \cup outputs
        BY <1>1, <1>7, <3>1, <3>3 DEF IInv, NothingLost
      <4>2. QED
        BY <1>1, <1>2, <2>1, <4>1
    <3>4. QED
      BY <3>2, <3>3
  <2>11. QED
    BY <1>2, <1>4, <1>5, <2>6, <2>7, <2>8, <2>9, <2>10 DEF IInv
<1>8. QED
  BY <1>6, <1>7

(***************************************************************************)
(* The theorems                                                            *)
(***************************************************************************)

\* Every step of the runner preserves the invariant.
LEMMA NextIInv == IInv /\ [Next]_vars => IInv'
<1> SUFFICES ASSUME IInv, [Next]_vars
             PROVE  IInv'
  OBVIOUS
<1>1. CASE Runner
  BY <1>1, LooksIInv, ReturnIInv, AdmitStepIInv DEF Runner
<1>2. ASSUME NEW s \in Steps, Step(s)
      PROVE  IInv'
  BY <1>2, AbandonIInv, CallIInv, FailureIInv, SuccessIInv DEF Step
<1>3. CASE Environment
  BY <1>3, EnvironmentIInv
<1>4. CASE UNCHANGED vars
  <2>1. UNCHANGED in_flight /\ InFlight' = InFlight
        /\ (HasCapacity' <=> HasCapacity)
    BY <1>4, SameFutures DEF vars
  <2>2. QED
    BY <1>4, <2>1 DEF vars, IInv, TypeOK, DependenciesFirst,
           ConcurrencyBounded, WorkConserving, TruthfulReply, NeverIncomplete,
           CountsExact, OnePlace, NothingLost, StopsCaused, CallsAccounted
<1>5. QED
  BY <1>1, <1>2, <1>3, <1>4 DEF Next, Finished

\* The inductive invariant holds throughout every run of the workflow
\* runner, for every acyclic graph and every positive max_concurrency.
THEOREM Invariance == Spec => []IInv
BY InitIInv, NextIInv, PTL DEF Spec

\* Type correctness; in particular `*remaining -= 1` never underflows.
THEOREM TypeCorrect == Spec => []TypeOK
<1>1. IInv => TypeOK
  BY DEF IInv
<1>2. QED
  BY <1>1, Invariance, PTL

\* The expectation of the admission loop, "ready step dependencies must have
\* completed", holds whenever it is evaluated.
THEOREM OrderRespected == Spec => []DependenciesFirst
<1>1. IInv => DependenciesFirst
  BY DEF IInv
<1>2. QED
  BY <1>1, Invariance, PTL

\* A run never holds more step futures than max_concurrency and never sleeps
\* with a ready step and free capacity.
THEOREM SchedulerBounds == Spec => [](ConcurrencyBounded /\ WorkConserving)
<1>1. IInv => ConcurrencyBounded /\ WorkConserving
  BY DEF IInv
<1>2. QED
  BY <1>1, Invariance, PTL

\* WorkflowFailure::Incomplete is never returned for a validated graph, and
\* every other reply is backed by what happened.
THEOREM RepliesTruthful == Spec => [](TruthfulReply /\ NeverIncomplete)
<1>1. IInv => TruthfulReply /\ NeverIncomplete
  BY DEF IInv
<1>2. QED
  BY <1>1, Invariance, PTL

\* A returned run has drained every called step and lists its settlement.
THEOREM DrainedBeforeReturn == Spec => []SettlementsReported
<1>1. IInv => SettlementsReported
  BY DEF IInv, SettlementsReported, CallsAccounted, InFlight, TypeOK
<1>2. QED
  BY <1>1, Invariance, PTL

\* No step crosses the call boundary once the run recorded a stop or the
\* step's token was seen cancelled.
THEOREM CallBoundary == Spec => NoCallOnceStopped
<1>1. IInv /\ [Next]_vars =>
        [called' # called => stop_reason = "none" /\ ~StepCancelled]_vars
  <2> SUFFICES ASSUME IInv, Next, called' # called
               PROVE  stop_reason = "none" /\ ~StepCancelled
    OBVIOUS
  <2>1. \E s \in Steps : Call(s)
    BY DEF Next, Runner, Step, Environment, Finished, Start,
           ObserveCancellation, ObserveDeadline, AdmitStep, BeginWait, Return,
           AbandonReadiness, DispatcherReady, DispatcherUnready, AbandonCall,
           SettleOk, SettleErr, Leave, CancelCaller, DeadlinePasses, Drop, vars
  <2>2. QED
    BY <2>1 DEF Call, StepCancelled, IInv, StopsCaused
<1>2. QED
  BY <1>1, Invariance, PTL DEF Spec, NoCallOnceStopped

\* The first recorded reason to stop is final, and a stopped run makes no
\* further step ready.
THEOREM StopIsFinal == Spec => FirstStopWins
<1>1. IInv /\ [Next]_vars =>
        [stop_reason # "none" => stop_reason' = stop_reason
                                 /\ ready' \subseteq ready]_vars
  <2> SUFFICES ASSUME IInv, Next, stop_reason # "none"
               PROVE  stop_reason' = stop_reason /\ ready' \subseteq ready
    OBVIOUS
  <2>1. CASE Runner
    BY <2>1 DEF Runner, Start, ObserveCancellation, ObserveDeadline, Looking,
           AdmitStep, BeginWait, Return, IInv, StopsCaused, graph, tokens
  <2>2. ASSUME NEW s \in Steps, Step(s)
        PROVE  stop_reason' = stop_reason /\ ready' \subseteq ready
    BY <2>2 DEF Step, AbandonReadiness, DispatcherReady, DispatcherUnready,
           AbandonCall, Call, SettleOk, SettleErr, RecordOutput,
           RecordFailure, graph, tokens
  <2>3. CASE Environment \/ Finished
    BY <2>3 DEF Environment, CancelCaller, DeadlinePasses, Drop, Finished,
           graph, tokens, vars
  <2>4. QED
    BY <2>1, <2>2, <2>3 DEF Next
<1>2. QED
  BY <1>1, Invariance, PTL DEF Spec, FirstStopWins

(***************************************************************************)
(* The runner implements the promise of module DagRun                      *)
(***************************************************************************)

\* An unpolled run is an initial run of DagRun.
LEMMA InitRefines == Init => Abstract!Init
BY DEF Init, Abstract!Init, StatusOf

\* The status of a step depends on the outputs, the failures and whether the
\* step is called.
LEMMA StatusStable ==
  ASSUME UNCHANGED <<outputs, failures>>, NEW s \in Steps,
         in_flight'[s] = "called" <=> in_flight[s] = "called"
  PROVE  StatusOf(s)' = StatusOf(s)
BY DEF StatusOf

\* Steps that the caller cannot see: nothing settles, nothing is called, no
\* stop is recorded and the run does not return.
LEMMA HiddenRefines ==
  ASSUME IInv,
         \/ CancelCaller \/ DeadlinePasses \/ AdmitStep \/ BeginWait
         \/ \E s \in Steps : AbandonReadiness(s) \/ AbandonCall(s)
                             \/ DispatcherReady(s)
  PROVE  UNCHANGED Abstract!vars
<1> USE DEF CancelCaller, DeadlinePasses, AdmitStep, BeginWait,
            AbandonReadiness, AbandonCall, DispatcherReady, Leave
<1>1. UNCHANGED <<outputs, failures, stop_reason, result>>
  BY DEF settled, tokens
<1>2. \A s \in Steps : in_flight'[s] = "called" <=> in_flight[s] = "called"
  BY DEF IInv, TypeOK, OnePlace, InFlight
<1>3. \A s \in Steps : StatusOf(s)' = StatusOf(s)
  BY <1>1, <1>2, StatusStable
<1>4. \/ pc \notin {"done", "dropped"} /\ pc' \notin {"done", "dropped"}
      \/ pc' = pc
  BY DEF Polled
<1>5. QED
  BY <1>1, <1>3, <1>4 DEF Abstract!vars

\* A recorded deadline or cancellation closes the run; a start that finds no
\* reason to stop changes nothing.
LEMMA LooksRefine ==
  ASSUME IInv, Start \/ ObserveCancellation \/ ObserveDeadline
  PROVE  Abstract!Close \/ UNCHANGED Abstract!vars
<1> USE DEF Start, ObserveCancellation, ObserveDeadline
<1>1. UNCHANGED <<outputs, failures, in_flight, result>>
  BY DEF settled
<1>2. \A s \in Steps : StatusOf(s)' = StatusOf(s)
  BY <1>1, StatusStable
<1>3. pc \notin {"done", "dropped"} /\ pc' \notin {"done", "dropped"}
  BY DEF Looking
<1>4. CASE UNCHANGED stop_reason
  BY <1>1, <1>2, <1>3, <1>4 DEF Abstract!vars
<1>5. CASE stop_reason = "none" /\ stop_reason' # "none"
  BY <1>1, <1>2, <1>3, <1>5 DEF Abstract!Close
<1>6. QED
  BY <1>4, <1>5 DEF Looking, Stop, tokens, IInv, TypeOK, StopsCaused

\* The caller drops the future.
LEMMA DropRefines ==
  ASSUME Drop
  PROVE  Abstract!Drop
<1>1. UNCHANGED <<outputs, failures, in_flight, stop_reason>>
  BY DEF Drop, settled, tokens
<1>2. \A s \in Steps : StatusOf(s)' = StatusOf(s)
  BY <1>1, StatusStable
<1>3. QED
  BY <1>1, <1>2 DEF Drop, Abstract!Drop

\* A return happens when nothing is called, and is a success exactly for a
\* run that was never closed.
LEMMA ReturnRefines ==
  ASSUME IInv, Return
  PROVE  Abstract!Return
<1>1. UNCHANGED <<outputs, failures, in_flight, stop_reason>>
  BY DEF Return, settled, tokens
<1>2. \A s \in Steps : StatusOf(s)' = StatusOf(s) /\ StatusOf(s) # "called"
  BY <1>1, StatusStable DEF Return, Drained, InFlight, StatusOf
<1>3. stop_reason = "none" =>
        result' = "ok" /\ \A s \in Steps : StatusOf(s) = "ok"
  BY DrainedIsComplete DEF Return, Drained, Outcome, StatusOf
<1>4. stop_reason # "none" => result' # "ok"
  BY DEF Return, Outcome, IInv, TypeOK
<1>5. QED
  BY <1>1, <1>2, <1>3, <1>4 DEF Return, Abstract!Return

\* A call of an admitted step is a call of DagRun.
LEMMA CallRefines ==
  ASSUME IInv, NEW s \in Steps, Call(s)
  PROVE  Abstract!Call(s)
<1>1. UNCHANGED <<outputs, failures, stop_reason, pc, result>>
  BY DEF Call, settled, tokens
<1>2. s \in InFlight /\ s \notin outputs /\ s \notin failures
  BY DEF Call, InFlight, IInv, OnePlace
<1>3. StatusOf(s) = "pending" /\ StatusOf(s)' = "called"
  BY <1>1, <1>2 DEF Call, StatusOf, IInv, TypeOK
<1>4. \A t \in Steps \ {s} : StatusOf(t)' = StatusOf(t)
  BY <1>1, StatusStable DEF Call, IInv, TypeOK
<1>5. \A d \in Needs[s] : StatusOf(d) = "ok"
  BY <1>2 DEF StatusOf, IInv, DependenciesFirst
<1>6. stop_reason = "none" /\ pc = "wait"
  BY DEF Call, Polled, StepCancelled, IInv, StopsCaused
<1>7. [t \in Steps |-> StatusOf(t)]'
        = [[t \in Steps |-> StatusOf(t)] EXCEPT ![s] = "called"]
  BY <1>3, <1>4
<1>8. QED
  BY <1>1, <1>3, <1>5, <1>6, <1>7 DEF Abstract!Call

\* A recorded output is a success of DagRun.
LEMMA SuccessRefines ==
  ASSUME IInv, NEW s \in Steps, SettleOk(s)
  PROVE  Abstract!Succeed(s)
<1>1. outputs' = outputs \cup {s} /\ UNCHANGED <<failures, stop_reason>>
  BY DEF SettleOk, RecordOutput, tokens
<1>2. s \in InFlight /\ s \notin outputs /\ s \notin failures
  BY DEF SettleOk, InFlight, IInv, OnePlace
<1>3. StatusOf(s) = "called" /\ StatusOf(s)' = "ok"
  BY <1>1, <1>2 DEF SettleOk, StatusOf
<1>4. \A t \in Steps \ {s} : StatusOf(t)' = StatusOf(t)
  BY <1>1 DEF SettleOk, Leave, StatusOf, IInv, TypeOK
<1>5. [t \in Steps |-> StatusOf(t)]'
        = [[t \in Steps |-> StatusOf(t)] EXCEPT ![s] = "ok"]
  BY <1>3, <1>4
<1>6. pc = "wait" /\ pc' = "admit"
  BY DEF SettleOk, Polled, Leave
<1>7. QED
  BY <1>1, <1>3, <1>5, <1>6 DEF Abstract!Succeed

\* A recorded error, before or after the call, is a failure of DagRun.
LEMMA FailureRefines ==
  ASSUME IInv, NEW s \in Steps, DispatcherUnready(s) \/ SettleErr(s)
  PROVE  Abstract!Fail(s)
<1> USE DEF DispatcherUnready, SettleErr
<1>1. failures' = failures \cup {s} /\ UNCHANGED outputs
      /\ stop_reason' # "none"
  BY DEF RecordFailure, Stop, tokens
<1>2. s \in InFlight /\ s \notin outputs /\ s \notin failures
  BY DEF InFlight, IInv, OnePlace
<1>3. StatusOf(s) \in {"called", "pending"} /\ StatusOf(s)' = "err"
  BY <1>1, <1>2 DEF StatusOf
<1>4. \A t \in Steps \ {s} : StatusOf(t)' = StatusOf(t)
  BY <1>1 DEF Leave, StatusOf, IInv, TypeOK
<1>5. \A d \in Needs[s] : StatusOf(d) = "ok"
  BY <1>2 DEF StatusOf, IInv, DependenciesFirst
<1>6. [t \in Steps |-> StatusOf(t)]'
        = [[t \in Steps |-> StatusOf(t)] EXCEPT ![s] = "err"]
  BY <1>3, <1>4
<1>7. pc = "wait" /\ pc' = "admit"
  BY DEF Polled, Leave
<1>8. QED
  BY <1>1, <1>3, <1>5, <1>6, <1>7 DEF Abstract!Fail

\* Every behaviour of the runner is a behaviour of DagRun: a caller sees
\* steps called at most once, after their dependencies, never after a stop,
\* and a reply only when every called step has settled.
THEOREM Refinement == Spec => RunsTheGraph
<1>1. IInv /\ [Next]_vars => [Abstract!Next]_(Abstract!vars)
  <2> SUFFICES ASSUME IInv, [Next]_vars
               PROVE  Abstract!Next \/ UNCHANGED Abstract!vars
    OBVIOUS
  <2>1. CASE Runner
    BY <2>1, LooksRefine, ReturnRefines, HiddenRefines
       DEF Runner, Abstract!Next
  <2>2. ASSUME NEW s \in Steps, Step(s)
        PROVE  Abstract!Next \/ UNCHANGED Abstract!vars
    BY <2>2, HiddenRefines, CallRefines, SuccessRefines, FailureRefines
       DEF Step, Abstract!Next
  <2>3. CASE Environment
    BY <2>3, HiddenRefines, DropRefines DEF Environment, Abstract!Next
  <2>4. CASE UNCHANGED vars
    BY <2>4 DEF vars, Abstract!vars, StatusOf
  <2>5. QED
    BY <2>1, <2>2, <2>3, <2>4 DEF Next, Finished
<1>2. QED
  BY <1>1, InitRefines, Invariance, PTL DEF Spec, RunsTheGraph, Abstract!Spec

=============================================================================
