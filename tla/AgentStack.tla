----------------------------- MODULE AgentStack -----------------------------
(***************************************************************************)
(* One provider behind the kernel's reference stack                        *)
(*                                                                         *)
(*   Supervise > Observe > CatchPanic > Admission > Deadline               *)
(*     > ValidateTurn > Authority > provider                               *)
(*                                                                         *)
(* of crates/tower-agent/src/layer. Several calls share the stack: each    *)
(* works on its own clone, and the clones share the admission semaphore.   *)
(* A call's `poll_ready` and `call` run on the caller; the future that     *)
(* `call` returns runs on a task that Supervise spawns, so the caller may  *)
(* go away while it runs. Tokens and clocks change at any moment.          *)
(*                                                                         *)
(* The provider is an adapter such as ClaudeService: its future looks at   *)
(* the token before it launches, and settles once launched. Some callers   *)
(* are workflow steps: AgentStepService of crates/tower-agent-workflow.    *)
(***************************************************************************)
EXTENDS Integers, FiniteSets, Sequences

CONSTANTS
  Calls,    \* the calls made on clones of one stack
  Steps,    \* the calls that AgentStepService makes
  Capacity  \* permits of the admission semaphore

ASSUME CallsAssumption == IsFiniteSet(Calls) /\ Steps \subseteq Calls

ASSUME CapacityAssumption == Capacity \in Nat \ {0}

VARIABLES
  caller,    \* caller[c]: what the caller of c is doing
  permit,    \* c holds an admission permit
  token,     \* c's cancellation token is cancelled
  deadline,  \* c's deadline against the clock
  inner,     \* what the future below Deadline is
  branch,    \* the branch that Deadline's select has taken
  polled,    \* Observe's future has been polled (ReceiptGuard::launched)
  launched,  \* history: the provider was really launched
  settled,   \* history: what the provider itself settled with
  reply,     \* the result of the supervised task
  receipts   \* the receipts recorded for c

vars == <<caller, permit, token, deadline, inner, branch, polled, launched,
          settled, reply, receipts>>

(***************************************************************************)
(* Results                                                                 *)
(***************************************************************************)

\* EffectState, from weakest to strongest.
Effects == {"none", "possible", "reported"}

\* EffectState::combine
Combine(a, b) ==
  IF "reported" \in {a, b} THEN "reported"
  ELSE IF "possible" \in {a, b} THEN "possible"
  ELSE "none"

Phases == {"Admission", "Validation", "Launch", "Running", "Settlement"}

Kinds == {"busy", "cancelled", "deadline_exceeded", "invalid_request",
          "provider", "internal", "unavailable"}

Err(kind, phase, effects, evidence) ==
  [kind |-> kind, phase |-> phase, effects |-> effects, evidence |-> evidence]

\* A TurnOutcome carries its accounting; its effects are reported.
Ok == Err("ok", "Settlement", "reported", TRUE)

Nothing == Err("pending", "Admission", "none", FALSE)

\* An error of the admission or the validation phase is about a call that
\* never began: it has no effects. Evidence it may have, since an adapter
\* names the session that the host preassigned.
Results ==
  {r \in [kind : Kinds \cup {"ok", "pending"}, phase : Phases,
          effects : Effects, evidence : BOOLEAN] :
     r.phase \in {"Admission", "Validation"} =>
       r.effects = "none"}

\* AgentError constructors.
Busy == Err("busy", "Admission", "none", FALSE)
CancelledBeforeLaunch == Err("cancelled", "Admission", "none", FALSE)
ElapsedBeforeExecution == Err("deadline_exceeded", "Admission", "none", FALSE)
InvalidRequest == Err("invalid_request", "Validation", "none", FALSE)
LaunchFailed == Err("provider", "Launch", "none", FALSE)
ReadinessPanic == Err("internal", "Admission", "none", FALSE)
CancelledStep == Err("cancelled", "Running", "none", FALSE)
CallPanic == Err("internal", "Launch", "possible", FALSE)
FuturePanic == Err("internal", "Settlement", "possible", FALSE)
JoinFailed == Err("internal", "Settlement", "possible", FALSE)

\* What a launched provider may settle with: its own success or failure,
\* with or without accounting, in the running or the settlement phase.
RunningFailures == {Err("provider", phase, "possible", e) :
                      phase \in {"Running", "Settlement"}, e \in BOOLEAN}
CancelledInFlight == {Err("cancelled", "Running", "possible", e) :
                        e \in BOOLEAN}

\* Mutant: a success behind a deadline or a cancellation leaves no trace.
PreserveSettlementOfFailures(outer, s) ==
  IF s.kind = "ok" THEN outer
  ELSE [outer EXCEPT !.effects = Combine(@, s.effects),
                     !.evidence = @ \/ s.evidence]

\* preserve_settlement and AgentError::with_cause: the outer error keeps its
\* kind and phase, and adopts the effects and the evidence of the settlement.
PreserveSettlement(outer, s) ==
  [outer EXCEPT !.effects = Combine(@, s.effects),
                !.evidence = @ \/ s.evidence]

\* What Deadline makes of a settlement, given the branch it took.
Outer(b) == IF b = "deadline"
              THEN Err("deadline_exceeded", "Running", "possible", FALSE)
              ELSE Err("cancelled", "Running", "possible", FALSE)

Drained(c, s) ==
  IF branch[c] = "racing" THEN s ELSE PreserveSettlement(Outer(branch[c]), s)

(***************************************************************************)
(* State                                                                   *)
(***************************************************************************)

\* The supervised task of c exists and has not ended.
Pending(c) == caller[c] \in {"waiting", "gone"} /\ inner[c] # "none"
              /\ reply[c] = Nothing

\* Futures that are still below Deadline's select.
Raced == {"rejected", "prepared", "running"}

Init ==
  /\ caller = [c \in Calls |-> "idle"]
  /\ permit = [c \in Calls |-> FALSE]
  /\ token = [c \in Calls |-> FALSE]
  /\ deadline \in [Calls -> {"none", "ahead"}]
  /\ inner = [c \in Calls |-> "none"]
  /\ branch = [c \in Calls |-> "racing"]
  /\ polled = [c \in Calls |-> FALSE]
  /\ launched = [c \in Calls |-> FALSE]
  /\ settled = [c \in Calls |-> Nothing]
  /\ reply = [c \in Calls |-> Nothing]
  /\ receipts = [c \in Calls |-> <<>>]

(***************************************************************************)
(* The host and the clock                                                  *)
(***************************************************************************)

CancelToken(c) ==
  /\ ~token[c]
  /\ token' = [token EXCEPT ![c] = TRUE]
  /\ UNCHANGED <<caller, permit, deadline, inner, branch, polled, launched,
                 settled, reply, receipts>>

DeadlinePasses(c) ==
  /\ deadline[c] = "ahead"
  /\ deadline' = [deadline EXCEPT ![c] = "passed"]
  /\ UNCHANGED <<caller, permit, token, inner, branch, polled, launched,
                 settled, reply, receipts>>

(***************************************************************************)
(* The caller: poll_ready and call, all layers in one synchronous descent  *)
(***************************************************************************)

PermitsOut == Cardinality({c \in Calls : permit[c]})

\* A caller that may poll: a step polls until it is ready, and then calls.
Polls(c) == caller[c] \in (IF c \in Steps THEN {"idle"} ELSE {"idle", "ready"})

\* Admission::poll_ready over a ready inner service: keep the permit, or try
\* to take one; readiness is granted either way.
PollReady(c) ==
  /\ Polls(c)
  /\ caller' = [caller EXCEPT ![c] = "ready"]
  /\ permit' = [permit EXCEPT ![c] = @ \/ PermitsOut < Capacity]
  /\ UNCHANGED <<token, deadline, inner, branch, polled, launched, settled,
                 reply, receipts>>

\* Admission::poll_ready over a stalled inner service: shed.
PollStalled(c) ==
  /\ Polls(c)
  /\ caller' = [caller EXCEPT ![c] = "ready"]
  /\ permit' = [permit EXCEPT ![c] = FALSE]
  /\ UNCHANGED <<token, deadline, inner, branch, polled, launched, settled,
                 reply, receipts>>

\* The inner service fails or panics in poll_ready; CatchPanic names a panic.
\* Unwinding does not run Admission's release, so a permit taken earlier
\* stays with the clone until the caller drops it. A step returns the error
\* and drops its clone at once.
PollFails(c) ==
  /\ Polls(c)
  /\ \/ /\ reply' = [reply EXCEPT ![c] = Err("unavailable", "Admission",
                                             "none", FALSE)]
        /\ permit' = [permit EXCEPT ![c] = FALSE]
     \/ /\ reply' = [reply EXCEPT ![c] = ReadinessPanic]
        /\ permit' = [permit EXCEPT ![c] = @ /\ c \notin Steps]
  /\ caller' = [caller EXCEPT ![c] = IF c \in Steps THEN "replied" ELSE "failed"]
  /\ UNCHANGED <<token, deadline, inner, branch, polled, launched, settled,
                 receipts>>

\* A caller that keeps its clone after a failed readiness goes on as if it had
\* succeeded: it polls again, or calls, which is Busy without a permit.
KeepService(c) ==
  /\ caller[c] = "failed"
  /\ caller' = [caller EXCEPT ![c] = "ready"]
  /\ reply' = [reply EXCEPT ![c] = Nothing]
  /\ UNCHANGED <<permit, token, deadline, inner, branch, polled, launched,
                 settled, receipts>>

\* The caller drops its clone without a call; a parked permit goes with it.
DropService(c) ==
  /\ caller[c] \in {"ready", "failed"}
  /\ caller' = [caller EXCEPT ![c] = "gone"]
  /\ permit' = [permit EXCEPT ![c] = FALSE]
  /\ UNCHANGED <<token, deadline, inner, branch, polled, launched, settled,
                 reply, receipts>>

\* AgentStepService::call: the preparer refuses, before the stack is asked
\* for anything.
StepUnprepared(c) ==
  /\ c \in Steps /\ caller[c] = "idle"
  /\ caller' = [caller EXCEPT ![c] = "replied"]
  /\ reply' = [reply EXCEPT ![c] = InvalidRequest]
  /\ UNCHANGED <<permit, token, deadline, inner, branch, polled, launched,
                 settled, receipts>>

\* AgentStepService::call: the step sees its token while it waits for the
\* stack or after the stack became ready, and its clone is dropped.
StepGivesUp(c) ==
  /\ c \in Steps /\ caller[c] \in {"idle", "ready"}
  /\ token[c]
  /\ caller' = [caller EXCEPT ![c] = "replied"]
  /\ permit' = [permit EXCEPT ![c] = FALSE]
  /\ reply' = [reply EXCEPT ![c] = CancelledStep]
  /\ UNCHANGED <<token, deadline, inner, branch, polled, launched, settled,
                 receipts>>

\* The step's last look at its token. It may still be cancelled before the
\* layers below look at it.
StepLooks(c) ==
  /\ c \in Steps /\ caller[c] = "ready"
  /\ ~token[c]
  /\ caller' = [caller EXCEPT ![c] = "calling"]
  /\ UNCHANGED <<permit, token, deadline, inner, branch, polled, launched,
                 settled, reply, receipts>>

\* Mutant: a call without a permit goes through.
ShedsNever(c) == FALSE

\* Admission::call found no permit.
Sheds(c) == ~permit[c]

\* Which future the descent ends in. Below Admission, Deadline refuses a
\* cancelled token, then an elapsed deadline; a layer or the adapter's own
\* preflight may refuse the body; the adapter's call may panic.
Descent(c, to) ==
  \/ to = "busy" /\ Sheds(c)
  \/ /\ ~Sheds(c)
     /\ \/ to = "refused_cancelled" /\ token[c]
        \/ to = "refused_elapsed" /\ ~token[c] /\ deadline[c] = "passed"
        \/ /\ to \in {"rejected", "prepared", "call_panicked"}
           /\ ~token[c]
           /\ deadline[c] # "passed"

\* The service call: the future is spawned, and the caller awaits the task
\* under CancelOnDrop. Deadline cancels the token of an elapsed call; a
\* panic of `call` unwinds through Admission and drops the permit.
Call(c) ==
  /\ caller[c] = IF c \in Steps THEN "calling" ELSE "ready"
  /\ \E to \in {"busy", "refused_cancelled", "refused_elapsed", "rejected",
                "prepared", "call_panicked"} :
       /\ Descent(c, to)
       /\ inner' = [inner EXCEPT ![c] = to]
       /\ token' = [token EXCEPT ![c] = @ \/ to = "refused_elapsed"]
       /\ permit' = [permit EXCEPT ![c] = @ /\ to # "call_panicked"]
  /\ caller' = [caller EXCEPT ![c] = "waiting"]
  /\ UNCHANGED <<deadline, branch, polled, launched, settled, reply, receipts>>

\* The caller takes the result of a finished task and disarms the guard.
TakeReply(c) ==
  /\ caller[c] = "waiting"
  /\ reply[c] # Nothing
  /\ caller' = [caller EXCEPT ![c] = "replied"]
  /\ UNCHANGED <<permit, token, deadline, inner, branch, polled, launched,
                 settled, reply, receipts>>

\* Mutant: dropping the caller's future tells nobody.
DropCallerSilently(c) ==
  /\ caller[c] = "waiting"
  /\ caller' = [caller EXCEPT ![c] = "gone"]
  /\ UNCHANGED <<permit, token, deadline, inner, branch, polled, launched,
                 settled, reply, receipts>>

\* The caller drops its future: CancelOnDrop cancels the token, and the task
\* is detached, not aborted.
DropCaller(c) ==
  /\ caller[c] = "waiting"
  /\ caller' = [caller EXCEPT ![c] = "gone"]
  /\ token' = [token EXCEPT ![c] = TRUE]
  /\ UNCHANGED <<permit, deadline, inner, branch, polled, launched, settled,
                 reply, receipts>>

(***************************************************************************)
(* The supervised task                                                     *)
(***************************************************************************)

\* The task is polled for the first time: ReceiptGuard::mark_launched.
FirstPoll(c) ==
  /\ Pending(c)
  /\ ~polled[c]
  /\ polled' = [polled EXCEPT ![c] = TRUE]
  /\ UNCHANGED <<caller, permit, token, deadline, inner, branch, launched,
                 settled, reply, receipts>>

\* Mutant: the cancellation is answered while the provider still runs.
ObserveCancellationAtOnce(c) ==
  /\ Pending(c) /\ polled[c]
  /\ branch[c] = "racing"
  /\ inner[c] \in Raced
  /\ token[c]
  /\ branch' = [branch EXCEPT ![c] = "cancelled"]
  /\ reply' = [reply EXCEPT ![c] = Outer("cancelled")]
  /\ UNCHANGED <<caller, permit, token, deadline, inner, polled, launched,
                 settled, receipts>>

\* Deadline's select takes the cancellation branch: from now on it only
\* waits for the inner future to settle.
ObserveCancellation(c) ==
  /\ Pending(c) /\ polled[c]
  /\ branch[c] = "racing"
  /\ inner[c] \in Raced
  /\ token[c]
  /\ branch' = [branch EXCEPT ![c] = "cancelled"]
  /\ UNCHANGED <<caller, permit, token, deadline, inner, polled, launched,
                 settled, reply, receipts>>

\* Mutant: the elapsed deadline is recorded, the provider is not told.
ObserveDeadlineSilently(c) ==
  /\ Pending(c) /\ polled[c]
  /\ branch[c] = "racing"
  /\ inner[c] \in Raced
  /\ deadline[c] = "passed"
  /\ branch' = [branch EXCEPT ![c] = "deadline"]
  /\ UNCHANGED <<caller, permit, token, deadline, inner, polled, launched,
                 settled, reply, receipts>>

\* Deadline's select takes the timer branch and cancels the token.
ObserveDeadline(c) ==
  /\ Pending(c) /\ polled[c]
  /\ branch[c] = "racing"
  /\ inner[c] \in Raced
  /\ deadline[c] = "passed"
  /\ branch' = [branch EXCEPT ![c] = "deadline"]
  /\ token' = [token EXCEPT ![c] = TRUE]
  /\ UNCHANGED <<caller, permit, deadline, inner, polled, launched, settled,
                 reply, receipts>>

\* The adapter's future found no cancellation and launches the provider.
Launch(c) ==
  /\ Pending(c) /\ polled[c]
  /\ inner[c] = "prepared"
  /\ ~token[c]
  /\ inner' = [inner EXCEPT ![c] = "running"]
  /\ launched' = [launched EXCEPT ![c] = TRUE]
  /\ UNCHANGED <<caller, permit, token, deadline, branch, polled, settled,
                 reply, receipts>>

\* The task ends with result r: Admission drops the permit, Observe records
\* the receipt of the normalised result.
Finish(c, r) ==
  /\ inner' = [inner EXCEPT ![c] = "ended"]
  /\ permit' = [permit EXCEPT ![c] = FALSE]
  /\ reply' = [reply EXCEPT ![c] = r]
  /\ receipts' = [receipts EXCEPT ![c] = Append(@, r)]
  /\ UNCHANGED <<caller, token, deadline, branch, polled, launched>>

\* Refusals above Deadline's select, whose futures are ready at once.
SettleRefused(c) ==
  /\ Pending(c) /\ polled[c]
  /\ \/ inner[c] = "busy" /\ Finish(c, Busy)
     \/ inner[c] = "refused_cancelled" /\ Finish(c, CancelledBeforeLaunch)
     \/ inner[c] = "refused_elapsed" /\ Finish(c, ElapsedBeforeExecution)
     \/ inner[c] = "call_panicked" /\ Finish(c, CallPanic)
  /\ UNCHANGED settled

\* An adapter's error before launch, with the preassigned session or without.
Unlaunched(error) == {[error EXCEPT !.evidence = e] : e \in BOOLEAN}

\* The future below Deadline settles with s, which Deadline wraps unless it
\* won its race.
SettleInner(c, s) ==
  /\ settled' = [settled EXCEPT ![c] = s]
  /\ Finish(c, Drained(c, s))

\* A body refused by ValidateTurn, Authority or the adapter's preflight.
SettleRejected(c) ==
  /\ Pending(c) /\ polled[c]
  /\ inner[c] = "rejected"
  /\ \E s \in Unlaunched(InvalidRequest) : SettleInner(c, s)

\* The adapter's future gives up before launch: it saw the token, or the
\* provider could not be started.
SettleUnlaunched(c) ==
  /\ Pending(c) /\ polled[c]
  /\ inner[c] = "prepared"
  /\ \E s \in Unlaunched(IF token[c] THEN CancelledBeforeLaunch
                                     ELSE LaunchFailed) :
       SettleInner(c, s)

\* A launched provider settles on its own account.
SettleRunning(c) ==
  /\ Pending(c) /\ polled[c]
  /\ inner[c] = "running"
  /\ \E s \in RunningFailures \cup {Ok} : SettleInner(c, s)

\* A launched provider answers a cancellation: it stops, or it was already
\* past stopping and settles as it would have.
SettleCancelled(c) ==
  /\ Pending(c) /\ polled[c]
  /\ inner[c] = "running"
  /\ token[c]
  /\ \E s \in CancelledInFlight \cup {Ok} : SettleInner(c, s)

\* The future below CatchPanic panics; Deadline and Admission unwind.
PanicInFuture(c) ==
  /\ Pending(c) /\ polled[c]
  /\ inner[c] \in {"prepared", "running"}
  /\ Finish(c, FuturePanic)
  /\ UNCHANGED settled

\* Mutant: an abandoned call is always recorded as harmless.
AbandonedAsHarmless(c) == Err("internal", "Settlement", "none", FALSE)

\* ReceiptStatus::Abandoned: what ReceiptGuard's drop records.
Abandoned(c) == Err("internal", "Settlement",
                    IF polled[c] THEN "possible" ELSE "none", FALSE)

\* The runtime shuts the task down: every future is dropped where it stands,
\* the receipt guard records an abandonment, and awaiting the task fails.
Abort(c) ==
  /\ Pending(c)
  /\ inner' = [inner EXCEPT ![c] = "ended"]
  /\ permit' = [permit EXCEPT ![c] = FALSE]
  /\ reply' = [reply EXCEPT ![c] = JoinFailed]
  /\ receipts' = [receipts EXCEPT ![c] = Append(@, Abandoned(c))]
  /\ UNCHANGED <<caller, token, deadline, branch, polled, launched, settled>>

(***************************************************************************)
(* Specification                                                           *)
(***************************************************************************)

CallerStep(c) ==
  \/ PollReady(c)
  \/ PollStalled(c)
  \/ PollFails(c)
  \/ KeepService(c)
  \/ DropService(c)
  \/ StepUnprepared(c)
  \/ StepGivesUp(c)
  \/ StepLooks(c)
  \/ Call(c)
  \/ TakeReply(c)
  \/ DropCaller(c)

\* Steps the runtime takes whenever the task is woken.
TaskStep(c) ==
  \/ FirstPoll(c)
  \/ ObserveCancellation(c)
  \/ ObserveDeadline(c)
  \/ Launch(c)
  \/ SettleRefused(c)
  \/ SettleRejected(c)
  \/ SettleUnlaunched(c)
  \/ SettleCancelled(c)

Next ==
  \E c \in Calls :
    \/ CancelToken(c)
    \/ DeadlinePasses(c)
    \/ CallerStep(c)
    \/ TaskStep(c)
    \/ SettleRunning(c)
    \/ PanicInFuture(c)
    \/ Abort(c)

Spec == Init /\ [][Next]_vars

\* A woken task is polled, and a provider answers a cancelled token; it is
\* not assumed to settle otherwise, nor is any caller assumed to act.
FairSpec == Spec /\ \A c \in Calls : WF_vars(TaskStep(c))

(***************************************************************************)
(* Properties                                                              *)
(***************************************************************************)

\* Every variable stays in its domain; in particular the layers build no
\* result that claims effects of a call that never began.
TypeOK ==
  /\ caller \in [Calls -> {"idle", "ready", "calling", "failed", "waiting",
                           "replied", "gone"}]
  /\ permit \in [Calls -> BOOLEAN]
  /\ token \in [Calls -> BOOLEAN]
  /\ deadline \in [Calls -> {"none", "ahead", "passed"}]
  /\ inner \in [Calls -> Raced \cup {"none", "busy", "refused_cancelled",
                           "refused_elapsed", "call_panicked", "ended"}]
  /\ branch \in [Calls -> {"racing", "cancelled", "deadline"}]
  /\ polled \in [Calls -> BOOLEAN]
  /\ launched \in [Calls -> BOOLEAN]
  /\ settled \in [Calls -> Results]
  /\ reply \in [Calls -> Results]
  /\ receipts \in [Calls -> Seq(Results)]

\* "Cloned admission services share one capacity boundary", and capacity
\* covers every provider that runs, also those whose caller has gone.
CapacityShared ==
  Cardinality({c \in Calls : inner[c] \in {"prepared", "running"}}) <= Capacity

\* Effect conservatism: a result or a receipt that claims no effects is
\* never about a provider that was launched, whatever raced, panicked or
\* was shut down.
NoEffectsMeansNotLaunched ==
  \A c \in Calls :
    launched[c] =>
      /\ reply[c] # Nothing => reply[c].effects # "none"
      /\ \A i \in DOMAIN receipts[c] : receipts[c][i].effects # "none"

\* "Severity only ever increases": what the provider settled with is not
\* weakened by the layers above, and its accounting is not lost, when a
\* deadline or a cancellation overtook it.
SettlementPreserved ==
  \A c \in Calls :
    settled[c] # Nothing =>
      /\ Combine(reply[c].effects, settled[c].effects) = reply[c].effects
      /\ settled[c].evidence => reply[c].evidence

\* "Cancellation and deadline return only after the inner service settles":
\* a caller never holds a reply while the provider still runs, and each call
\* has exactly one receipt by the time its result exists.
RepliesAfterSettlement ==
  \A c \in Calls :
    /\ reply[c] # Nothing => inner[c] \in {"none", "ended"}
    /\ inner[c] = "ended" => Len(receipts[c]) = 1
    /\ inner[c] # "ended" => receipts[c] = <<>>

\* A caller that goes away gives its capacity back to the others: its drop
\* reaches the provider, which settles, and the permit is released. So does
\* one that has its answer, also a step that gave up between the readiness
\* of the stack and its call (CancelOnDrop, Admission, AgentStepService).
DropReturnsCapacity ==
  \A c \in Calls : caller[c] \in {"gone", "replied"} ~> ~permit[c]

\* A deadline is never just observed: an expired call settles.
DeadlineSettles ==
  \A c \in Calls :
    Pending(c) /\ deadline[c] = "passed" ~> reply[c] # Nothing

\* docs/architecture.md: "Phase records how far execution actually got, so a
\* rejection before launch is never reported as `Running`."
RunningMeansLaunched ==
  \A c \in Calls : reply[c].phase = "Running" => launched[c]

(***************************************************************************)
(* The inductive invariant (module AgentStackProofs)                       *)
(***************************************************************************)

\* The semaphore is never overdrawn, and a future that may become or is a
\* provider owns one of its permits.
PermitsCover ==
  /\ PermitsOut <= Capacity
  /\ \A c \in Calls : inner[c] \in {"prepared", "running"} => permit[c]

\* No permit outlives what it was taken for: it is parked in a clone that the
\* caller still has, or it belongs to a task that has not ended.
PermitsOwned ==
  \A c \in Calls :
    permit[c] => caller[c] \in {"ready", "calling", "failed"} \/ Pending(c)

\* The life of a call: there is a task exactly from the service call on, only
\* a polled task launches, and it has a result exactly when it has ended.
Lifecycle ==
  \A c \in Calls :
    /\ inner[c] # "none" => caller[c] \in {"waiting", "replied", "gone"}
    /\ inner[c] = "none" => caller[c] # "waiting" /\ ~polled[c]
    /\ caller[c] \in {"idle", "ready", "calling"} => reply[c] = Nothing
    /\ inner[c] = "ended" => reply[c] # Nothing
    /\ launched[c] => inner[c] \in {"running", "ended"} /\ polled[c]
    /\ settled[c] # Nothing => inner[c] = "ended"

\* What every step preserves, given that the variables are in their domains.
StackInv ==
  /\ PermitsCover
  /\ PermitsOwned
  /\ Lifecycle
  /\ RepliesAfterSettlement
  /\ NoEffectsMeansNotLaunched
  /\ SettlementPreserved

IInv == TypeOK /\ StackInv

=============================================================================
