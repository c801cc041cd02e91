-------------------------- MODULE AgentStackProofs --------------------------
(***************************************************************************)
(* Safety of the reference stack for every finite set of calls, every      *)
(* subset of them made by workflow steps, and every capacity: IInv of      *)
(* module AgentStack is inductive and implies its safety properties.       *)
(***************************************************************************)
EXTENDS AgentStack, FiniteSetTheorems, TLAPS

USE CallsAssumption, CapacityAssumption

(***************************************************************************)
(* Facts about results                                                     *)
(***************************************************************************)

\* The errors that the layers construct themselves are results, say that the
\* call is over, and claim no effects only as stated.
LEMMA ConstructedErrors ==
  /\ {Busy, CancelledBeforeLaunch, ElapsedBeforeExecution, InvalidRequest,
      LaunchFailed, ReadinessPanic, CancelledStep, CallPanic, FuturePanic,
      JoinFailed, Err("unavailable", "Admission", "none", FALSE)}
       \subseteq Results \ {Nothing}
  /\ Nothing \in Results
  /\ \A r \in {CallPanic, FuturePanic, JoinFailed} : r.effects = "possible"
BY DEF Results, Busy, CancelledBeforeLaunch, ElapsedBeforeExecution,
       InvalidRequest, LaunchFailed, ReadinessPanic, CancelledStep, CallPanic,
       FuturePanic, JoinFailed, Nothing, Err, Kinds, Phases, Effects

\* What a provider that was launched may settle with has effects.
LEMMA LaunchedSettlements ==
  \A s \in RunningFailures \cup CancelledInFlight \cup {Ok} :
    s \in Results \ {Nothing} /\ s.effects \in {"possible", "reported"}
<1>1. ASSUME NEW kind \in {"provider", "cancelled"},
             NEW phase \in {"Running", "Settlement"}, NEW e \in BOOLEAN
      PROVE  LET s == Err(kind, phase, "possible", e)
             IN s \in Results \ {Nothing} /\ s.effects = "possible"
  BY DEF Results, Nothing, Err, Kinds, Phases, Effects
<1>2. Ok \in Results \ {Nothing} /\ Ok.effects = "reported"
  BY DEF Ok, Results, Nothing, Err, Kinds, Phases, Effects
<1>3. QED
  BY <1>1, <1>2 DEF RunningFailures, CancelledInFlight

\* What the adapter may settle with before launch.
LEMMA UnlaunchedSettlements ==
  \A e \in {InvalidRequest, CancelledBeforeLaunch, LaunchFailed} :
    \A s \in Unlaunched(e) : s \in Results \ {Nothing}
BY DEF Unlaunched, InvalidRequest, CancelledBeforeLaunch, LaunchFailed,
       Results, Nothing, Err, Kinds, Phases, Effects

\* EffectState::combine is the maximum of the two severities.
LEMMA CombineIsMaximum ==
  ASSUME NEW a \in Effects, NEW b \in Effects
  PROVE  /\ Combine(a, b) \in Effects
         /\ Combine(Combine(a, b), b) = Combine(a, b)
         /\ Combine(a, a) = a
         /\ a # "none" \/ b # "none" => Combine(a, b) # "none"
BY DEF Combine, Effects

\* Deadline's wrapping of a settlement is a result that keeps the effects and
\* the evidence of what it wraps.
LEMMA DrainedPreserves ==
  ASSUME TypeOK, NEW c \in Calls, NEW s \in Results, s # Nothing
  PROVE  /\ Drained(c, s) \in Results
         /\ Drained(c, s) # Nothing
         /\ Combine(Drained(c, s).effects, s.effects) = Drained(c, s).effects
         /\ s.evidence => Drained(c, s).evidence
         /\ s.effects # "none" => Drained(c, s).effects # "none"
<1>1. s.effects \in Effects /\ s.evidence \in BOOLEAN
  BY DEF Results
<1>2. CASE branch[c] = "racing"
  BY <1>1, <1>2, CombineIsMaximum DEF Drained
<1>3. CASE branch[c] # "racing"
  <2> DEFINE outer == Outer(branch[c])
             r == PreserveSettlement(outer, s)
  <2>1. /\ outer.kind \in {"deadline_exceeded", "cancelled"}
        /\ outer.phase = "Running" /\ outer.effects = "possible"
        /\ outer.evidence = FALSE
        /\ outer \in [kind : Kinds, phase : Phases, effects : Effects,
                      evidence : BOOLEAN]
    BY DEF Outer, Err, Kinds, Phases, Effects
  <2>2. /\ r.kind = outer.kind /\ r.phase = "Running"
        /\ r.effects = Combine("possible", s.effects)
        /\ r.evidence = s.evidence
        /\ r \in [kind : Kinds, phase : Phases, effects : Effects,
                  evidence : BOOLEAN]
    BY <1>1, <2>1, CombineIsMaximum DEF PreserveSettlement, Effects
  <2>3. r \in Results /\ r # Nothing
    BY <2>1, <2>2 DEF Results, Nothing, Err
  <2>4. Drained(c, s) = r
    BY <1>3 DEF Drained
  <2>5. QED
    BY <1>1, <2>2, <2>3, <2>4, CombineIsMaximum DEF Effects
<1>4. QED
  BY <1>2, <1>3

(***************************************************************************)
(* Type correctness                                                        *)
(***************************************************************************)

\* A task that ends with a result leaves every variable in its domain.
LEMMA FinishTyped ==
  ASSUME TypeOK, NEW c \in Calls, NEW r \in Results, Finish(c, r),
         settled' \in [Calls -> Results]
  PROVE  TypeOK'
<1>1. receipts' \in [Calls -> Seq(Results)]
  BY DEF TypeOK, Finish
<1>2. QED
  BY <1>1 DEF TypeOK, Finish

\* So does one whose inner future settles, wrapped by Deadline or not.
LEMMA SettleTyped ==
  ASSUME TypeOK, NEW c \in Calls, NEW s \in Results, s # Nothing,
         SettleInner(c, s)
  PROVE  TypeOK'
<1>1. Drained(c, s) \in Results
  BY DrainedPreserves
<1>2. settled' \in [Calls -> Results]
  BY DEF SettleInner, TypeOK
<1>3. QED
  BY <1>1, <1>2, FinishTyped DEF SettleInner

\* What an abandoned call is recorded as.
LEMMA AbandonedTyped ==
  ASSUME NEW c \in Calls
  PROVE  Abandoned(c) \in Results /\ Abandoned(c) # Nothing
BY DEF Abandoned, Results, Nothing, Err, Kinds, Phases, Effects

\* Every step of the system keeps the variables in their domains.
LEMMA TypeStep ==
  ASSUME TypeOK, Next
  PROVE  TypeOK'
<1> PICK c \in Calls : \/ CancelToken(c) \/ DeadlinePasses(c) \/ CallerStep(c)
                       \/ TaskStep(c) \/ SettleRunning(c) \/ PanicInFuture(c)
                       \/ Abort(c)
  BY DEF Next
<1> USE ConstructedErrors
<1>1. CASE CancelToken(c)
  BY <1>1 DEF CancelToken, TypeOK
<1>2. CASE DeadlinePasses(c)
  BY <1>2 DEF DeadlinePasses, TypeOK
<1>3. CASE PollReady(c)
  BY <1>3 DEF PollReady, TypeOK
<1>4. CASE PollStalled(c)
  BY <1>4 DEF PollStalled, TypeOK
<1>5. CASE PollFails(c)
  <2>1. reply' \in [Calls -> Results] /\ permit' \in [Calls -> BOOLEAN]
    <3>1. CASE reply' = [reply EXCEPT ![c] = ReadinessPanic]
               /\ permit' = [permit EXCEPT ![c] = @ /\ c \notin Steps]
      BY <3>1 DEF TypeOK
    <3>2. CASE reply' = [reply EXCEPT ![c] = Err("unavailable", "Admission",
                                                 "none", FALSE)]
               /\ permit' = [permit EXCEPT ![c] = FALSE]
      BY <3>2 DEF TypeOK
    <3>3. QED
      BY <1>5, <3>1, <3>2 DEF PollFails
  <2>2. QED
    BY <1>5, <2>1 DEF PollFails, TypeOK
<1>6. CASE DropService(c)
  BY <1>6 DEF DropService, TypeOK
<1>7. CASE StepUnprepared(c)
  BY <1>7 DEF StepUnprepared, TypeOK
<1>8. CASE StepGivesUp(c)
  BY <1>8 DEF StepGivesUp, TypeOK
<1>9. CASE StepLooks(c)
  BY <1>9 DEF StepLooks, TypeOK
<1>10. CASE Call(c)
  BY <1>10 DEF Call, TypeOK, Raced
<1>11. CASE TakeReply(c)
  BY <1>11 DEF TakeReply, TypeOK
<1>12. CASE DropCaller(c)
  BY <1>12 DEF DropCaller, TypeOK
<1>13. CASE FirstPoll(c)
  BY <1>13 DEF FirstPoll, TypeOK
<1>14. CASE ObserveCancellation(c)
  BY <1>14 DEF ObserveCancellation, TypeOK
<1>15. CASE ObserveDeadline(c)
  BY <1>15 DEF ObserveDeadline, TypeOK
<1>16. CASE Launch(c)
  BY <1>16 DEF Launch, TypeOK, Raced
<1>17. CASE SettleRefused(c)
  BY <1>17, FinishTyped DEF SettleRefused, TypeOK
<1>18. CASE SettleRejected(c)
  BY <1>18, UnlaunchedSettlements, SettleTyped DEF SettleRejected
<1>19. CASE SettleUnlaunched(c)
  BY <1>19, UnlaunchedSettlements, SettleTyped DEF SettleUnlaunched
<1>20. CASE SettleCancelled(c)
  BY <1>20, LaunchedSettlements, SettleTyped DEF SettleCancelled
<1>21. CASE SettleRunning(c)
  BY <1>21, LaunchedSettlements, SettleTyped DEF SettleRunning
<1>22. CASE PanicInFuture(c)
  BY <1>22, FinishTyped DEF PanicInFuture, TypeOK
<1>23. CASE Abort(c)
  BY <1>23, AbandonedTyped DEF Abort, TypeOK
<1>24. CASE KeepService(c)
  <2>1. Nothing \in Results
    OBVIOUS
  <2>2. reply' \in [Calls -> Results]
    BY <1>24, <2>1 DEF KeepService, TypeOK
  <2>3. QED
    BY <1>24, <2>2 DEF KeepService, TypeOK
<1>25. QED
  BY <1>1, <1>2, <1>3, <1>4, <1>5, <1>6, <1>7, <1>8, <1>9, <1>10, <1>11,
     <1>12, <1>13, <1>14, <1>15, <1>16, <1>17, <1>18, <1>19, <1>20, <1>21,
     <1>22, <1>23, <1>24 DEF CallerStep, TaskStep

(***************************************************************************)
(* Counting permits                                                        *)
(***************************************************************************)

\* Any set of calls is finite and can be counted.
LEMMA CallSetCountable ==
  ASSUME NEW S \in SUBSET Calls
  PROVE  IsFiniteSet(S) /\ Cardinality(S) \in Nat
BY FS_Subset, FS_CardinalityType

\* A step that takes no permit does not overdraw the semaphore.
LEMMA NoneTaken ==
  ASSUME PermitsOut <= Capacity, \A d \in Calls : permit'[d] => permit[d]
  PROVE  PermitsOut' <= Capacity
<1> DEFINE before == {d \in Calls : permit[d]}
           after == {d \in Calls : permit'[d]}
<1>1. after \in SUBSET before /\ before \in SUBSET Calls
  OBVIOUS
<1>2. Cardinality(after) <= Cardinality(before)
  BY <1>1, CallSetCountable, FS_Subset
<1>3. Cardinality(after) \in Nat /\ Cardinality(before) \in Nat
  BY <1>1, CallSetCountable
<1>4. QED
  BY <1>2, <1>3 DEF PermitsOut

\* Neither does a try_acquire that looks at the permits that are left.
LEMMA OneTaken ==
  ASSUME TypeOK, PermitsOut <= Capacity, NEW c \in Calls,
         permit' = [permit EXCEPT ![c] = @ \/ PermitsOut < Capacity]
  PROVE  PermitsOut' <= Capacity
<1> DEFINE before == {d \in Calls : permit[d]}
           after == {d \in Calls : permit'[d]}
<1>1. before \in SUBSET Calls /\ IsFiniteSet(before)
      /\ Cardinality(before) \in Nat
  BY CallSetCountable
<1>2. CASE permit[c] \/ ~(PermitsOut < Capacity)
  BY <1>2, NoneTaken DEF TypeOK
<1>3. CASE ~permit[c] /\ PermitsOut < Capacity
  <2>1. after = before \cup {c} /\ c \notin before
    BY <1>3 DEF TypeOK
  <2>2. Cardinality(after) = Cardinality(before) + 1
    BY <1>1, <2>1, FS_AddElement
  <2>3. QED
    BY <1>1, <1>3, <2>2 DEF PermitsOut
<1>4. QED
  BY <1>2, <1>3

(***************************************************************************)
(* The invariant holds initially                                           *)
(***************************************************************************)

\* Calls that have not been made satisfy the invariant.
LEMMA InitIInv == Init => IInv
<1> SUFFICES ASSUME Init
             PROVE  IInv
  OBVIOUS
<1>1. TypeOK
  BY ConstructedErrors DEF Init, TypeOK
<1>2. PermitsCover
  <2>1. {c \in Calls : permit[c]} = {}
    BY DEF Init
  <2>2. PermitsOut = 0
    BY <2>1, FS_EmptySet DEF PermitsOut
  <2>3. QED
    BY <2>2 DEF Init, PermitsCover
<1>3. PermitsOwned /\ Lifecycle
  BY DEF Init, PermitsOwned, Lifecycle
<1>4. RepliesAfterSettlement /\ NoEffectsMeansNotLaunched
      /\ SettlementPreserved
  BY DEF Init, RepliesAfterSettlement, NoEffectsMeansNotLaunched,
         SettlementPreserved
<1>5. QED
  BY <1>1, <1>2, <1>3, <1>4 DEF IInv, StackInv

(***************************************************************************)
(* The invariant is preserved: the host, the clock and the looks of the    *)
(* task, none of which moves a permit or a result                          *)
(***************************************************************************)

\* The token, the clock, the first poll and the branch of Deadline's select.
LEMMA LooksInv ==
  ASSUME IInv, NEW c \in Calls,
         \/ CancelToken(c) \/ DeadlinePasses(c) \/ FirstPoll(c)
         \/ ObserveCancellation(c) \/ ObserveDeadline(c)
  PROVE  StackInv'
<1> USE DEF CancelToken, DeadlinePasses, FirstPoll, ObserveCancellation,
            ObserveDeadline
<1>1. UNCHANGED <<caller, permit, inner, launched, settled, reply, receipts>>
  OBVIOUS
<1>2. PermitsCover' /\ PermitsOwned'
  BY <1>1 DEF IInv, StackInv, PermitsCover, PermitsOut, PermitsOwned, Pending
<1>3. Lifecycle'
  <2>1. \A d \in Calls : polled[d] => polled'[d]
    BY DEF IInv, StackInv, TypeOK
  <2>2. \A d \in Calls : inner[d] = "none" => polled'[d] = polled[d]
    BY DEF IInv, StackInv, TypeOK, Pending
  <2>3. QED
    BY <1>1, <2>1, <2>2 DEF IInv, StackInv, Lifecycle
<1>4. RepliesAfterSettlement' /\ NoEffectsMeansNotLaunched'
      /\ SettlementPreserved'
  BY <1>1 DEF IInv, StackInv, RepliesAfterSettlement, NoEffectsMeansNotLaunched,
         SettlementPreserved
<1>5. QED
  BY <1>2, <1>2, <1>3, <1>4 DEF StackInv

(***************************************************************************)
(* The invariant is preserved: the caller                                  *)
(***************************************************************************)

\* What a step of a caller that has not called yet must show.
LEMMA BeforeCall ==
  ASSUME IInv, NEW c \in Calls, PermitsOut' <= Capacity,
         inner[c] = "none",
         UNCHANGED <<inner, polled, launched, settled, receipts>>,
         \A d \in Calls \ {c} : /\ permit'[d] = permit[d]
                                /\ caller'[d] = caller[d]
                                /\ reply'[d] = reply[d],
         caller'[c] # "waiting",
         caller'[c] \in {"idle", "ready", "calling"} => reply'[c] = Nothing,
         permit'[c] => caller'[c] \in {"ready", "calling", "failed"}
  PROVE  StackInv'
<1>1. PermitsCover'
  BY DEF IInv, StackInv, PermitsCover
<1>2. PermitsOwned'
  BY DEF IInv, StackInv, PermitsOwned, Pending
<1>3. Lifecycle'
  BY DEF IInv, StackInv, Lifecycle
<1>4. RepliesAfterSettlement' /\ NoEffectsMeansNotLaunched'
      /\ SettlementPreserved'
  BY DEF IInv, StackInv, Lifecycle, RepliesAfterSettlement, NoEffectsMeansNotLaunched,
         SettlementPreserved
<1>5. QED
  BY <1>1, <1>2, <1>3, <1>4 DEF StackInv

\* A caller that has not called has no task, and no reply unless it failed.
LEMMA NotYetCalled ==
  ASSUME IInv, NEW c \in Calls,
         caller[c] \in {"idle", "ready", "calling", "failed"}
  PROVE  /\ inner[c] = "none"
         /\ caller[c] # "failed" => reply[c] = Nothing
BY DEF IInv, StackInv, TypeOK, Lifecycle

\* The caller polls for readiness, and is granted it.
LEMMA PollReadyInv ==
  ASSUME IInv, NEW c \in Calls, PollReady(c) \/ PollStalled(c)
  PROVE  StackInv'
<1> USE DEF PollReady, PollStalled
<1>1. caller[c] \in {"idle", "ready"} /\ inner[c] = "none"
      /\ reply[c] = Nothing
  BY NotYetCalled DEF Polls
<1>2. PermitsOut' <= Capacity
  <2>1. CASE PollReady(c)
    BY <2>1, OneTaken DEF IInv, StackInv, PermitsCover
  <2>2. CASE PollStalled(c)
    <3>1. \A d \in Calls : permit'[d] => permit[d]
      BY <2>2 DEF IInv, TypeOK
    <3>2. QED
      BY <3>1, NoneTaken DEF IInv, StackInv, PermitsCover
  <2>3. QED
    BY <2>1, <2>2
<1>3. caller'[c] = "ready" /\ reply' = reply
  BY DEF IInv, TypeOK
<1>4. \A d \in Calls \ {c} : permit'[d] = permit[d] /\ caller'[d] = caller[d]
  BY DEF IInv, TypeOK
<1>5. QED
  BY <1>1, <1>2, <1>3, <1>4, BeforeCall

\* Readiness fails or panics.
LEMMA PollFailsInv ==
  ASSUME IInv, NEW c \in Calls, PollFails(c)
  PROVE  StackInv'
<1>1. caller[c] \in {"idle", "ready"} /\ inner[c] = "none"
  BY NotYetCalled DEF PollFails, Polls
<1>2. PICK kept \in BOOLEAN,
           r \in {Err("unavailable", "Admission", "none", FALSE),
                  ReadinessPanic} :
        /\ kept => c \notin Steps
        /\ permit' = [permit EXCEPT ![c] = @ /\ kept]
        /\ reply' = [reply EXCEPT ![c] = r]
  <2>1. permit \in [Calls -> BOOLEAN]
    BY DEF IInv, TypeOK
  <2>2. CASE permit' = [permit EXCEPT ![c] = FALSE]
    <3>1. permit' = [permit EXCEPT ![c] = @ /\ FALSE]
      BY <2>1, <2>2
    <3>2. QED
      BY <3>1 DEF PollFails
  <2>3. CASE permit' = [permit EXCEPT ![c] = @ /\ c \notin Steps]
    BY <2>3 DEF PollFails
  <2>4. QED
    BY <2>2, <2>3 DEF PollFails
<1>3. caller' = [caller EXCEPT ![c] = IF c \in Steps THEN "replied"
                                                     ELSE "failed"]
      /\ UNCHANGED <<inner, polled, launched, settled, receipts>>
  BY DEF PollFails
<1>4. PermitsOut' <= Capacity
  <2>1. \A d \in Calls : permit'[d] => permit[d]
    BY <1>2 DEF IInv, TypeOK
  <2>2. QED
    BY <2>1, NoneTaken DEF IInv, StackInv, PermitsCover
<1>5. caller'[c] \in {"replied", "failed"}
      /\ (permit'[c] => caller'[c] = "failed")
  BY <1>2, <1>3 DEF IInv, TypeOK
<1>6. \A d \in Calls \ {c} : /\ permit'[d] = permit[d]
                             /\ caller'[d] = caller[d]
                             /\ reply'[d] = reply[d]
  BY <1>2, <1>3 DEF IInv, TypeOK
<1>7. QED
  BY <1>1, <1>3, <1>4, <1>5, <1>6, BeforeCall

\* The caller goes on after a failed readiness.
LEMMA KeepServiceInv ==
  ASSUME IInv, NEW c \in Calls, KeepService(c)
  PROVE  StackInv'
<1>1. inner[c] = "none"
  BY NotYetCalled DEF KeepService
<1>2. /\ caller'[c] = "ready" /\ reply'[c] = Nothing /\ permit' = permit
      /\ UNCHANGED <<inner, polled, launched, settled, receipts>>
      /\ \A d \in Calls \ {c} : caller'[d] = caller[d] /\ reply'[d] = reply[d]
  BY DEF KeepService, IInv, TypeOK
<1>3. PermitsOut' <= Capacity
  BY <1>2, NoneTaken DEF IInv, StackInv, PermitsCover
<1>4. QED
  BY <1>1, <1>2, <1>3, BeforeCall

\* The caller gives up before it calls, or takes a last look at its token.
LEMMA GivesUpInv ==
  ASSUME IInv, NEW c \in Calls,
         DropService(c) \/ StepUnprepared(c) \/ StepGivesUp(c) \/ StepLooks(c)
  PROVE  StackInv'
<1> USE DEF DropService, StepUnprepared, StepGivesUp, StepLooks
<1>1. caller[c] \in {"idle", "ready", "failed"} /\ inner[c] = "none"
      /\ (caller[c] # "failed" => reply[c] = Nothing)
  BY NotYetCalled
<1>2. UNCHANGED <<token, deadline, inner, branch, polled, launched, settled,
                  receipts>>
  OBVIOUS
<1>3. PermitsOut' <= Capacity
  <2>1. \A d \in Calls : permit'[d] => permit[d]
    BY DEF IInv, StackInv, TypeOK
  <2>2. QED
    BY <2>1, NoneTaken DEF IInv, StackInv, PermitsCover
<1>4. caller'[c] \in {"gone", "replied", "calling"}
      /\ (caller'[c] = "calling" => reply'[c] = Nothing)
  BY <1>1 DEF IInv, StackInv, TypeOK
<1>5. permit'[c] => caller'[c] = "calling"
  <2>1. permit[c] => caller[c] # "idle"
    BY <1>1 DEF IInv, StackInv, PermitsOwned, Pending
  <2>2. QED
    BY <2>1 DEF IInv, TypeOK
<1>6. \A d \in Calls \ {c} : /\ permit'[d] = permit[d]
                             /\ caller'[d] = caller[d]
                             /\ reply'[d] = reply[d]
  BY DEF IInv, StackInv, TypeOK
<1>7. QED
  BY <1>1, <1>2, <1>3, <1>3, <1>4, <1>5, <1>6, BeforeCall

\* The service call: the descent ends in a task that owns the permit, or has
\* dropped it.
LEMMA CallInv ==
  ASSUME IInv, NEW c \in Calls, Call(c)
  PROVE  StackInv'
<1>1. caller[c] \in {"ready", "calling"} /\ inner[c] = "none"
      /\ reply[c] = Nothing
  BY NotYetCalled DEF Call
<1>2. PICK to \in {"busy", "refused_cancelled", "refused_elapsed", "rejected",
                   "prepared", "call_panicked"} :
        /\ Descent(c, to)
        /\ inner' = [inner EXCEPT ![c] = to]
        /\ token' = [token EXCEPT ![c] = @ \/ to = "refused_elapsed"]
        /\ permit' = [permit EXCEPT ![c] = @ /\ to # "call_panicked"]
  BY DEF Call
<1>3. caller' = [caller EXCEPT ![c] = "waiting"]
      /\ UNCHANGED <<deadline, branch, polled, launched, settled, reply,
                     receipts>>
  BY DEF Call
<1>4. PermitsCover'
  <2>1. \A d \in Calls : permit'[d] => permit[d]
    BY <1>2 DEF IInv, StackInv, TypeOK
  <2>2. PermitsOut' <= Capacity
    BY <2>1, NoneTaken DEF IInv, StackInv, PermitsCover
  <2>3. to = "prepared" => permit'[c]
    BY <1>2 DEF Descent, Sheds, IInv, TypeOK
  <2>4. QED
    BY <1>2, <2>2, <2>3 DEF IInv, StackInv, TypeOK, PermitsCover
<1>5. PermitsOwned'
  BY <1>1, <1>2, <1>3 DEF IInv, StackInv, TypeOK, PermitsOwned, Pending
<1>6. Lifecycle'
  BY <1>1, <1>2, <1>3 DEF IInv, StackInv, TypeOK, Lifecycle
<1>7. RepliesAfterSettlement' /\ NoEffectsMeansNotLaunched'
      /\ SettlementPreserved'
  BY <1>1, <1>2, <1>3 DEF IInv, StackInv, TypeOK, Lifecycle, RepliesAfterSettlement,
         NoEffectsMeansNotLaunched, SettlementPreserved
<1>8. QED
  BY <1>4, <1>4, <1>5, <1>6, <1>7 DEF StackInv

\* The caller takes its reply, or drops its future and leaves the task.
LEMMA LeavesInv ==
  ASSUME IInv, NEW c \in Calls, TakeReply(c) \/ DropCaller(c)
  PROVE  StackInv'
<1> USE DEF TakeReply, DropCaller
<1>1. caller[c] = "waiting" /\ inner[c] # "none"
      /\ (TakeReply(c) => inner[c] = "ended")
  BY DEF IInv, StackInv, TypeOK, Lifecycle, RepliesAfterSettlement
<1>2. UNCHANGED <<permit, deadline, inner, branch, polled, launched, settled,
                  reply, receipts>>
  OBVIOUS
<1>3. PermitsCover'
  BY <1>2 DEF IInv, StackInv, PermitsCover, PermitsOut
<1>4. PermitsOwned'
  BY <1>1, <1>2 DEF IInv, StackInv, TypeOK, PermitsOwned, Lifecycle, Pending
<1>5. Lifecycle'
  BY <1>1, <1>2 DEF IInv, StackInv, TypeOK, Lifecycle
<1>6. RepliesAfterSettlement' /\ NoEffectsMeansNotLaunched'
      /\ SettlementPreserved'
  BY <1>2 DEF IInv, StackInv, RepliesAfterSettlement, NoEffectsMeansNotLaunched,
         SettlementPreserved
<1>7. QED
  BY <1>3, <1>3, <1>4, <1>5, <1>6 DEF StackInv

(***************************************************************************)
(* The invariant is preserved: the supervised task                         *)
(***************************************************************************)

\* The provider is launched under the permit that the call brought along.
LEMMA LaunchInv ==
  ASSUME IInv, NEW c \in Calls, Launch(c)
  PROVE  StackInv'
<1> USE DEF Launch
<1>1. inner[c] = "prepared" /\ polled[c] /\ reply[c] = Nothing
      /\ caller[c] \in {"waiting", "gone"}
  BY DEF Pending
<1>2. PermitsCover'
  BY <1>1 DEF IInv, StackInv, TypeOK, PermitsCover, PermitsOut
<1>3. PermitsOwned'
  BY <1>1 DEF IInv, StackInv, TypeOK, PermitsOwned, Pending
<1>4. Lifecycle'
  BY <1>1 DEF IInv, StackInv, TypeOK, Lifecycle
<1>5. RepliesAfterSettlement'
  BY <1>1 DEF IInv, StackInv, TypeOK, RepliesAfterSettlement
<1>6. NoEffectsMeansNotLaunched' /\ SettlementPreserved'
  BY <1>1 DEF IInv, StackInv, TypeOK, RepliesAfterSettlement,
         NoEffectsMeansNotLaunched, SettlementPreserved
<1>7. QED
  BY <1>2, <1>3, <1>4, <1>5, <1>6 DEF StackInv

\* What the end of a task must show: r is its result, q its receipt and s
\* what the provider settled with, if it did.
LEMMA EndOfTask ==
  ASSUME IInv, NEW c \in Calls, Pending(c),
         NEW r \in Results, NEW q \in Results, NEW s \in Results,
         inner' = [inner EXCEPT ![c] = "ended"],
         permit' = [permit EXCEPT ![c] = FALSE],
         reply' = [reply EXCEPT ![c] = r],
         receipts' = [receipts EXCEPT ![c] = Append(@, q)],
         settled' = [settled EXCEPT ![c] = s],
         UNCHANGED <<caller, polled, launched>>,
         r # Nothing,
         launched[c] => r.effects # "none" /\ q.effects # "none",
         s # Nothing => /\ Combine(r.effects, s.effects) = r.effects
                        /\ s.evidence => r.evidence
  PROVE  StackInv'
<1>1. caller[c] \in {"waiting", "gone"} /\ inner[c] \notin {"none", "ended"}
      /\ receipts[c] = <<>>
  BY DEF IInv, StackInv, Pending, Lifecycle, RepliesAfterSettlement
<1>2. /\ inner'[c] = "ended" /\ ~permit'[c] /\ reply'[c] = r
      /\ settled'[c] = s /\ receipts'[c] = <<q>>
  BY <1>1 DEF IInv, TypeOK
<1>3. \A d \in Calls \ {c} :
        /\ inner'[d] = inner[d] /\ permit'[d] = permit[d]
        /\ reply'[d] = reply[d] /\ settled'[d] = settled[d]
        /\ receipts'[d] = receipts[d]
  BY DEF IInv, TypeOK
<1>4. PermitsCover'
  <2>1. \A d \in Calls : permit'[d] => permit[d]
    BY <1>2, <1>3
  <2>2. PermitsOut' <= Capacity
    BY <2>1, NoneTaken DEF IInv, StackInv, PermitsCover
  <2>3. QED
    BY <1>2, <1>3, <2>2 DEF IInv, StackInv, PermitsCover
<1>5. PermitsOwned'
  BY <1>2, <1>3 DEF IInv, StackInv, PermitsOwned, Pending
<1>6. Lifecycle'
  BY <1>1, <1>2, <1>3 DEF IInv, StackInv, Lifecycle
<1>7. RepliesAfterSettlement'
  BY <1>2, <1>3 DEF IInv, StackInv, RepliesAfterSettlement
<1>8. NoEffectsMeansNotLaunched'
  BY <1>2, <1>3 DEF IInv, StackInv, NoEffectsMeansNotLaunched
<1>9. SettlementPreserved'
  BY <1>2, <1>3 DEF IInv, StackInv, SettlementPreserved
<1>10. QED
  BY <1>4, <1>5, <1>6, <1>7, <1>8, <1>9 DEF StackInv

\* A task that ends without a settlement of the provider: refused before
\* Deadline's select, or unwound by a panic.
LEMMA FinishInv ==
  ASSUME IInv, NEW c \in Calls, Pending(c), NEW r \in Results \ {Nothing},
         Finish(c, r), UNCHANGED settled,
         launched[c] => r.effects # "none"
  PROVE  StackInv'
<1>1. settled[c] = Nothing
  BY DEF IInv, StackInv, Lifecycle, Pending
<1>2. settled' = [settled EXCEPT ![c] = Nothing]
  BY <1>1 DEF IInv, TypeOK
<1>3. QED
  BY <1>2, EndOfTask, ConstructedErrors DEF Finish

\* A task whose inner future settles with s.
LEMMA SettleInv ==
  ASSUME IInv, NEW c \in Calls, Pending(c), NEW s \in Results \ {Nothing},
         SettleInner(c, s), launched[c] => s.effects # "none"
  PROVE  StackInv'
BY EndOfTask, DrainedPreserves DEF IInv, SettleInner, Finish

\* A provider that was not launched, or settles with effects, may settle.
LEMMA TaskEndsInv ==
  ASSUME IInv, NEW c \in Calls,
         \/ SettleRefused(c) \/ SettleRejected(c) \/ SettleUnlaunched(c)
         \/ SettleCancelled(c) \/ SettleRunning(c) \/ PanicInFuture(c)
  PROVE  StackInv'
<1> USE ConstructedErrors
<1>1. launched[c] => inner[c] \in {"running", "ended"}
  BY DEF IInv, StackInv, Lifecycle
<1>2. CASE SettleRefused(c)
  BY <1>1, <1>2, FinishInv DEF SettleRefused
<1>3. CASE SettleRejected(c)
  BY <1>1, <1>3, SettleInv, UnlaunchedSettlements DEF SettleRejected
<1>4. CASE SettleUnlaunched(c)
  BY <1>1, <1>4, SettleInv, UnlaunchedSettlements DEF SettleUnlaunched
<1>5. CASE SettleCancelled(c)
  BY <1>5, SettleInv, LaunchedSettlements DEF SettleCancelled
<1>6. CASE SettleRunning(c)
  BY <1>6, SettleInv, LaunchedSettlements DEF SettleRunning
<1>7. CASE PanicInFuture(c)
  BY <1>7, FinishInv DEF PanicInFuture
<1>8. QED
  BY <1>2, <1>3, <1>4, <1>5, <1>6, <1>7

\* The runtime drops the task: only a task that was polled can have launched.
LEMMA AbortInv ==
  ASSUME IInv, NEW c \in Calls, Abort(c)
  PROVE  StackInv'
<1>1. settled[c] = Nothing /\ (launched[c] => polled[c])
  BY DEF IInv, StackInv, Lifecycle, Abort, Pending
<1>2. settled' = [settled EXCEPT ![c] = Nothing]
  BY <1>1 DEF IInv, TypeOK, Abort
<1>3. polled[c] => Abandoned(c).effects = "possible"
  BY DEF Abandoned, Err
<1>4. QED
  BY <1>1, <1>2, <1>3, EndOfTask, ConstructedErrors, AbandonedTyped DEF Abort

(***************************************************************************)
(* Theorems                                                                *)
(***************************************************************************)

\* The invariant is inductive.
LEMMA IInvStep == IInv /\ [Next]_vars => IInv'
<1> SUFFICES ASSUME IInv, [Next]_vars
             PROVE  IInv'
  OBVIOUS
<1>1. CASE Next
  <2>1. TypeOK'
    BY <1>1, TypeStep DEF IInv
  <2>2. StackInv'
    <3> PICK c \in Calls :
          \/ CancelToken(c) \/ DeadlinePasses(c) \/ CallerStep(c)
          \/ TaskStep(c) \/ SettleRunning(c) \/ PanicInFuture(c) \/ Abort(c)
      BY <1>1 DEF Next
    <3>1. CASE CallerStep(c)
      BY <3>1, PollReadyInv, PollFailsInv, KeepServiceInv, GivesUpInv,
         CallInv, LeavesInv
         DEF CallerStep
    <3>2. CASE ~CallerStep(c)
      BY <3>2, LooksInv, LaunchInv, TaskEndsInv, AbortInv DEF TaskStep
    <3>3. QED
      BY <3>1, <3>2
  <2>3. QED
    BY <2>1, <2>2 DEF IInv
<1>2. CASE UNCHANGED vars
  BY <1>2 DEF vars, IInv, TypeOK, StackInv, PermitsCover, PermitsOut,
         PermitsOwned, Pending, Lifecycle, RepliesAfterSettlement,
         NoEffectsMeansNotLaunched, SettlementPreserved
<1>3. QED
  BY <1>1, <1>2

\* Every reachable state of the stack satisfies the inductive invariant.
THEOREM Invariance == Spec => []IInv
BY InitIInv, IInvStep, PTL DEF Spec

\* Clones share one capacity boundary: no more providers run, or are about
\* to, than the semaphore has permits, whatever happened to their callers.
THEOREM CapacityIsShared == Spec => []CapacityShared
<1>1. IInv => CapacityShared
  <2> SUFFICES ASSUME IInv
               PROVE  CapacityShared
    OBVIOUS
  <2> DEFINE running == {c \in Calls : inner[c] \in {"prepared", "running"}}
             holding == {c \in Calls : permit[c]}
  <2>1. running \in SUBSET holding /\ holding \in SUBSET Calls
    BY DEF IInv, StackInv, PermitsCover
  <2>2. Cardinality(running) <= Cardinality(holding)
        /\ Cardinality(running) \in Nat /\ Cardinality(holding) \in Nat
    BY <2>1, CallSetCountable, FS_Subset
  <2>3. Cardinality(holding) <= Capacity
    BY DEF IInv, StackInv, PermitsCover, PermitsOut
  <2>4. QED
    BY <2>2, <2>3 DEF CapacityShared
<1>2. QED
  BY <1>1, Invariance, PTL

\* A permit never outlives both the clone it was parked in and the task it
\* was passed to, so a caller that is answered or gone leaks no capacity.
THEOREM NoPermitLeaks == Spec => []PermitsOwned
BY Invariance, PTL DEF IInv, StackInv

\* Effect conservatism: neither a reply nor a receipt that claims no effects
\* is ever about a provider that was launched.
THEOREM EffectsConservative == Spec => []NoEffectsMeansNotLaunched
BY Invariance, PTL DEF IInv, StackInv

\* What a provider settled with is never weakened, and its accounting never
\* lost, by the deadline or the cancellation that overtook it.
THEOREM SettlementsSurvive == Spec => []SettlementPreserved
BY Invariance, PTL DEF IInv, StackInv

\* Nobody is answered before the provider has settled, and a call that ended
\* has exactly one receipt.
THEOREM AnsweredAfterSettlement == Spec => []RepliesAfterSettlement
BY Invariance, PTL DEF IInv, StackInv

=============================================================================
