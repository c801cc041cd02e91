---------------------------- MODULE LocalRunStore ----------------------------
(***************************************************************************)
(* The in-process host of examples/apalis-local/src/main.rs: the run store *)
(* that owns every step's record, the dispatcher through which a workflow  *)
(* run registers a step and waits for its result, and the queue worker     *)
(* that claims, launches, calls and commits.                               *)
(*                                                                         *)
(* Every method of the store is one critical section of its mutex, except  *)
(* that a result is published on the record's watch channel after the      *)
(* mutex was released. A task or a dispatcher call can be dropped at its   *)
(* awaits, hence between these sections but not between a commit and its   *)
(* publication.                                                            *)
(*                                                                         *)
(* The queue (Apalis) is a bag of references: it belongs to a worker and   *)
(* is gone with it, and a send on it fails afterwards. The rendezvous of   *)
(* the root steps only lets time pass between launch and provider call.    *)
(***************************************************************************)
EXTENDS Integers, FiniteSets

CONSTANTS
  Steps,        \* StepJobRefs; their order is the BTreeMap's
  Calls,        \* dispatcher calls, of one coordinator or of several
  Concurrency,  \* concurrent tasks of a worker (ConcurrencyLimitLayer)
  Invocations,  \* Invocations[c]: what call c may ask a step to be frozen to
  MaxEpoch,     \* bound on claim epochs
  MaxWorkers    \* bound on workers that are started one after another

ASSUME StepsAssumption == Steps \subseteq Nat /\ IsFiniteSet(Steps)

ASSUME BoundsAssumption ==
  MaxEpoch \in Nat \ {0} /\ MaxWorkers \in Nat \ {0} /\ Concurrency \in Nat

VARIABLES
  records,      \* StepRecord per reference
  next_epoch,   \* the store's epoch counter
  queue,        \* deliveries per reference in the current worker's queue
  worker,       \* "up", "stopping" or "down"
  started,      \* workers started so far
  task,         \* tasks of the current worker
  call,         \* the dispatcher calls
  settlements,  \* uncertain steps that reconciliation has yet to publish
  provided      \* history: provider calls per reference

vars == <<records, next_epoch, queue, worker, started, task, call,
          settlements, provided>>

store == <<records, next_epoch>>
transport == <<queue, worker, started>>

\* Slots for tasks; a delivery takes the first one that is free.
Tasks == 1..Concurrency

NoInvocation == "none"
AnyInvocation == (UNION {Invocations[c] : c \in Calls}) \cup {NoInvocation}
Results == {"ok", "err"}
Answers == Results \cup {"lost"}

RecordStates ==
  {"absent", "pending", "claimed", "launched", "terminal", "uncertain"}
StepRecords ==
  {r \in [state : RecordStates, epoch : 0..MaxEpoch, call : BOOLEAN,
          frozen : AnyInvocation,
          provider_call_recorded : BOOLEAN, terminal : Answers \cup {"none"}] :
     r.state \in {"absent", "pending"} \/ r.epoch > 0}

NoRecord ==
  [state |-> "absent", epoch |-> 0, call |-> FALSE, frozen |-> NoInvocation,
   provider_call_recorded |-> FALSE, terminal |-> "none"]

\* A record as `register` inserts it.
PendingRecord(invocation) ==
  [NoRecord EXCEPT !.state = "pending", !.call = TRUE, !.frozen = invocation]

IdleTask == [pc |-> "idle", key |-> 0, epoch |-> 0, result |-> "none"]

NewCall == [pc |-> "new", key |-> 0, invocation |-> NoInvocation,
            sink |-> "dead", reply |-> "none"]

Init ==
  /\ records = [k \in Steps |-> NoRecord]
  /\ next_epoch = 0
  /\ queue = [k \in Steps |-> 0]
  /\ worker = "down"
  /\ started = 0
  /\ task = [t \in Tasks |-> IdleTask]
  /\ call = [c \in Calls |-> NewCall]
  /\ settlements = {}
  /\ provided = [k \in Steps |-> 0]

(***************************************************************************)
(* DurableStepDispatcher::call                                             *)
(***************************************************************************)

Reply(c, answer) ==
  call' = [call EXCEPT ![c].pc = "done", ![c].reply = answer]

\* Mutant: a replay is not compared with the frozen call.
CollidesNever(k, invocation) == FALSE

\* A logical identity is already bound to another invocation.
Collides(k, invocation) ==
  records[k].state # "absent" /\ records[k].frozen # invocation

\* `register`, up to its first return: insert the record, or subscribe to the
\* one that is there; only pending work is to be enqueued. The sink is that of
\* the running worker or of an earlier one.
Register(c, k, invocation, sink) ==
  /\ call[c].pc = "new"
  /\ IF sink = "live" THEN worker # "down"
                      ELSE started > 1 \/ (started = 1 /\ worker = "down")
  /\ records' = IF records[k].state = "absent"
                  THEN [records EXCEPT ![k] = PendingRecord(invocation)]
                  ELSE records
  /\ call' = [call EXCEPT ![c] =
       [pc |-> IF Collides(k, invocation) THEN "done"
               ELSE IF records'[k].state = "pending" THEN "send1"
               ELSE "watch",
        key |-> k, invocation |-> invocation, sink |-> sink,
        reply |-> IF Collides(k, invocation) THEN "collision" ELSE "none"]]
  /\ UNCHANGED <<next_epoch, transport, task, settlements, provided>>

\* The reference is sent twice. A sink without its worker is an internal
\* error, which `internal` reports as Admission without effects.
Send(c) ==
  /\ call[c].pc \in {"send1", "send2"}
  /\ IF call[c].sink = "live"
       THEN /\ queue' = [queue EXCEPT ![call[c].key] = @ + 1]
            /\ call' = [call EXCEPT ![c].pc =
                          IF @ = "send1" THEN "send2" ELSE "watch"]
       ELSE Reply(c, "unsent") /\ UNCHANGED queue
  /\ UNCHANGED <<store, worker, started, task, settlements, provided>>

\* The loop on the watch channel.
ObserveTerminal(c) ==
  /\ call[c].pc = "watch"
  /\ records[call[c].key].terminal # "none"
  /\ Reply(c, records[call[c].key].terminal)
  /\ UNCHANGED <<store, transport, task, settlements, provided>>

\* The coordinator is lost, and its calls with it.
DropCall(c) ==
  /\ call[c].pc \in {"send1", "send2", "watch"}
  /\ call' = [call EXCEPT ![c] = [NewCall EXCEPT !.pc = "dropped"]]
  /\ UNCHANGED <<store, transport, task, settlements, provided>>

(***************************************************************************)
(* LocalWorker                                                             *)
(***************************************************************************)

StartWorker ==
  /\ worker = "down"
  /\ started < MaxWorkers
  /\ worker' = "up"
  /\ started' = started + 1
  /\ UNCHANGED <<store, queue, task, call, settlements, provided>>

\* The worker is gone, with its queue and every sink to it.
WorkerGone ==
  /\ worker' = "down"
  /\ queue' = [k \in Steps |-> 0]
  /\ call' = [c \in Calls |-> [call[c] EXCEPT !.sink = "dead"]]

\* `stop`: no further delivery is taken, running tasks are drained.
StopWorker ==
  /\ worker = "up"
  /\ worker' = "stopping"
  /\ UNCHANGED <<store, queue, started, task, call, settlements, provided>>

WorkerJoined ==
  /\ worker = "stopping"
  /\ \A t \in Tasks : task[t].pc = "idle"
  /\ WorkerGone
  /\ UNCHANGED <<store, started, task, settlements, provided>>

\* `abort`: tasks are dropped where they await.
AbortWorker ==
  /\ worker = "up"
  /\ \A t \in Tasks : task[t].pc # "publish"
  /\ WorkerGone
  /\ task' = [t \in Tasks |-> IdleTask]
  /\ UNCHANGED <<store, started, settlements, provided>>

(***************************************************************************)
(* LocalAgentTaskService::call                                             *)
(***************************************************************************)

Advance(t, pc) == task' = [task EXCEPT ![t].pc = pc]

\* The store refuses; the task ends with an error and nothing is retried.
Finish(t) == task' = [task EXCEPT ![t] = IdleTask]

\* The epoch of the next claim; the counter is shared by all steps.
FreshEpoch(k) == next_epoch + 1

\* A delivery, and `claim`: pending work is won, anything else is skipped.
Claim(t, k) ==
  /\ worker = "up"
  /\ task[t].pc = "idle"
  /\ \A u \in Tasks : task[u].pc = "idle" => t <= u
  /\ queue[k] > 0
  /\ queue' = [queue EXCEPT ![k] = @ - 1]
  /\ IF records[k].state = "pending"
       THEN LET epoch == FreshEpoch(k)
            IN /\ epoch <= MaxEpoch
               /\ next_epoch' = epoch
               /\ records' = [records EXCEPT ![k].state = "claimed",
                                             ![k].epoch = epoch]
               /\ task' = [task EXCEPT ![t] =
                    [IdleTask EXCEPT !.pc = "claimed", !.key = k,
                                     !.epoch = epoch]]
       ELSE UNCHANGED <<store, task>>
  /\ UNCHANGED <<worker, started, call, settlements, provided>>

\* The record is in this state under the task's own claim.
Holds(t, state) ==
  /\ task[t].pc # "idle"
  /\ records[task[t].key].state = state
  /\ records[task[t].key].epoch = task[t].epoch

\* `launch`: the call leaves the record.
Launch(t) ==
  /\ task[t].pc = "claimed"
  /\ IF Holds(t, "claimed") /\ records[task[t].key].call
       THEN /\ records' = [records EXCEPT ![task[t].key].state = "launched",
                                          ![task[t].key].call = FALSE]
            /\ Advance(t, "held")
       ELSE Finish(t) /\ UNCHANGED records
  /\ UNCHANGED <<next_epoch, transport, call, settlements, provided>>

\* Mutant: any launched task calls, whatever became of its record.
MayCallProviderAlways(t) == TRUE

MayCallProvider(t) ==
  /\ Holds(t, "launched")
  /\ ~records[task[t].key].provider_call_recorded

\* `note_provider_call`, after the root's wait; then the provider runs.
NoteProviderCall(t) ==
  /\ task[t].pc = "held"
  /\ IF MayCallProvider(t)
       THEN /\ records' = [records EXCEPT
                 ![task[t].key].provider_call_recorded = TRUE]
            /\ provided' = [provided EXCEPT ![task[t].key] = @ + 1]
            /\ Advance(t, "calling")
       ELSE Finish(t) /\ UNCHANGED <<records, provided>>
  /\ UNCHANGED <<next_epoch, transport, call, settlements>>

MayComplete(t) ==
  /\ Holds(t, "launched")
  /\ records[task[t].key].provider_call_recorded

\* `complete`, under the mutex.
Complete(t, result) ==
  /\ task[t].pc = "calling"
  /\ IF MayComplete(t)
       THEN /\ records' = [records EXCEPT ![task[t].key].state = "terminal"]
            /\ task' = [task EXCEPT ![t].pc = "publish",
                                    ![t].result = result]
       ELSE Finish(t) /\ UNCHANGED records
  /\ UNCHANGED <<next_epoch, transport, call, settlements, provided>>

\* `complete`, behind it: `send_replace` on the watch channel.
PublishResult(t) ==
  /\ task[t].pc = "publish"
  /\ records' = [records EXCEPT ![task[t].key].terminal = task[t].result]
  /\ Finish(t)
  /\ UNCHANGED <<next_epoch, transport, call, settlements, provided>>

(***************************************************************************)
(* reconcile_worker_loss                                                   *)
(***************************************************************************)

Lost == {k \in Steps : records[k].state \in {"claimed", "launched"}}

\* Mutant: launched work is made pending again like claimed work.
FencedRetryable(record) ==
  IF record.state \in {"claimed", "launched"}
    THEN [record EXCEPT !.state = "pending"] ELSE record

\* A claim becomes pending again, a launch uncertain.
Fenced(record) ==
  CASE record.state = "claimed" -> [record EXCEPT !.state = "pending"]
    [] record.state = "launched" -> [record EXCEPT !.state = "uncertain"]
    [] OTHER -> record

\* Mutant: the uncertain steps are counted but not settled.
SettlementsOfNone(fenced) == {}

\* The uncertain steps whose waiting calls must hear of it.
SettlementsOf(fenced) ==
  {k \in Steps : records[k].state = "launched"
                   /\ fenced[k].state = "uncertain"}

\* Under the mutex. The caller vouches that the worker is gone; the store
\* does not rely on it, so it may also find tasks that are still alive.
ReconcileWorkerLoss ==
  /\ settlements = {}
  /\ Lost # {}
  /\ records' = [k \in Steps |-> Fenced(records[k])]
  /\ settlements' = SettlementsOf(records')
  /\ UNCHANGED <<next_epoch, transport, task, call, provided>>

\* Behind it, one settlement after the other.
PublishLoss(k) ==
  /\ k \in settlements
  /\ \A j \in settlements : k <= j
  /\ records' = [records EXCEPT ![k].terminal = "lost"]
  /\ settlements' = settlements \ {k}
  /\ UNCHANGED <<next_epoch, transport, task, call, provided>>

(***************************************************************************)
(* The system                                                              *)
(***************************************************************************)

Dispatch(c) ==
  \/ \E k \in Steps, invocation \in Invocations[c], sink \in {"live", "dead"} :
       Register(c, k, invocation, sink)
  \/ Send(c)
  \/ ObserveTerminal(c)
  \/ DropCall(c)

\* What a task does by itself once a delivery has started it.
Proceed(t) ==
  \/ Launch(t)
  \/ NoteProviderCall(t)
  \/ \E result \in Results : Complete(t, result)
  \/ PublishResult(t)

Host ==
  \/ StartWorker
  \/ StopWorker
  \/ WorkerJoined
  \/ AbortWorker
  \/ ReconcileWorkerLoss
  \/ \E k \in Steps : PublishLoss(k)

Next ==
  \/ \E c \in Calls : Dispatch(c)
  \/ \E t \in Tasks : Proceed(t) \/ \E k \in Steps : Claim(t, k)
  \/ Host

Spec == Init /\ [][Next]_vars

\* A worker left this step behind: nobody carries its claim any more.
Orphaned(k) ==
  /\ k \in Lost
  /\ \A t \in Tasks : task[t].key # k \/ ~Holds(t, records[k].state)

\* The runtime polls what is woken, a provider answers, and the work of a
\* worker that is gone is reconciled. Nothing is assumed of deliveries, of the start of
\* another worker, or of calls that are still to be made.
Fairness ==
  /\ \A c \in Calls : WF_vars(ObserveTerminal(c))
  /\ \A t \in Tasks : WF_vars(Proceed(t))
  /\ WF_vars((\E k \in Steps : Orphaned(k)) /\ ReconcileWorkerLoss)
  /\ WF_vars(\E k \in Steps : PublishLoss(k))

FairSpec == Spec /\ Fairness

(***************************************************************************)
(* Properties                                                              *)
(***************************************************************************)

\* Every variable stays in its domain; a record that is or was owned names
\* an epoch that a claim has handed out.
TypeOK ==
  /\ records \in [Steps -> StepRecords]
  /\ next_epoch \in 0..MaxEpoch
  /\ queue \in [Steps -> Nat]
  /\ worker \in {"up", "stopping", "down"}
  /\ started \in 0..MaxWorkers
  /\ task \in [Tasks ->
       [pc : {"idle", "claimed", "held", "calling", "publish"},
        key : Steps \cup {0}, epoch : 0..MaxEpoch,
        result : Results \cup {"none"}]]
  /\ call \in [Calls ->
       [pc : {"new", "send1", "send2", "watch", "done", "dropped"},
        key : Steps \cup {0}, invocation : AnyInvocation,
        sink : {"live", "dead"},
        reply : Answers \cup {"none", "collision", "unsent"}]]
  /\ settlements \subseteq Steps
  /\ provided \in [Steps -> Nat]

\* "A claim still retains its call": work that can still be launched has not
\* lost the call it needs, through any sequence of claims, losses and
\* replays, so the errors for a missing record or call do not occur.
CallRetained ==
  \A k \in Steps :
    /\ records[k].state \in {"pending", "claimed"} <=> records[k].call
    /\ queue[k] > 0 => records[k].state # "absent"

\* A waiting call is told what the record says, and only about its own
\* invocation: a provider's result of a step that is terminal, or the loss
\* of a step that is uncertain.
RepliesMatchRecord ==
  \A c \in Calls :
    call[c].reply \in Answers =>
      LET record == records[call[c].key]
      IN /\ record.frozen = call[c].invocation
         /\ record.state =
              IF call[c].reply = "lost" THEN "uncertain" ELSE "terminal"

\* A provider is called at most once for a step, and never once the step was
\* declared uncertain, even by a task that has not noticed its loss.
NoCallAfterLoss ==
  [][\A k \in Steps :
       provided'[k] # provided[k] =>
         records[k].state # "uncertain" /\ provided[k] = 0]_vars

\* What was published on a record's watch channel is never replaced, neither
\* a result by a loss nor a loss by the result of a task that came late: all
\* who wait for the step, now or later, are told the same.
PublishedOnce ==
  [][\A k \in Steps :
       records[k].terminal # "none" =>
         records'[k].terminal = records[k].terminal]_vars

\* "uncertain settlements left the coordinator hanging" does not happen: a
\* call that waits for a launched step is answered, whether the worker
\* finishes, is stopped or disappears.
LaunchedSettles ==
  \A c \in Calls :
    (call[c].pc = "watch" /\ records[call[c].key].state = "launched")
      ~> call[c].pc # "watch"

\* crates/tower-agent/src/error.rs on EffectState::None: "Nothing ran.
\* Repeating the call cannot duplicate an effect." It is what a call reports
\* whose reference could not be sent.
UnsentMeansNothingRan ==
  \A c \in Calls :
    call[c].pc # "done" \/ call[c].reply # "unsent"
      \/ provided[call[c].key] = 0

(***************************************************************************)
(* The inductive invariant (module LocalRunStoreProofs)                    *)
(***************************************************************************)

\* A call that is under way has found or made the record of its invocation,
\* and one that was answered keeps the reference it was answered for.
CallBound(c) ==
  /\ call[c].pc \in {"send1", "send2", "watch"} =>
       /\ call[c].key \in Steps
       /\ records[call[c].key].state # "absent"
       /\ records[call[c].key].frozen = call[c].invocation
  /\ call[c].reply \in Answers => call[c].pc = "done" /\ call[c].key \in Steps

\* What is published, or about to be, agrees with the state of the record,
\* and the history counts the provider calls that were recorded.
RecordAgrees(k) ==
  /\ records[k].terminal \in Results => records[k].state = "terminal"
  /\ records[k].terminal = "lost" => records[k].state = "uncertain"
  /\ k \in settlements =>
       records[k].state = "uncertain" /\ records[k].terminal = "none"
  /\ records[k].provider_call_recorded =>
       records[k].state \in {"launched", "terminal", "uncertain"}
  /\ provided[k] = IF records[k].provider_call_recorded THEN 1 ELSE 0
  /\ records[k].epoch <= next_epoch

\* A task works under a claim that was handed out, and the one that settled
\* a record is to publish its result.
TaskOwns(t) ==
  task[t].pc # "idle" =>
    /\ task[t].key \in Steps
    /\ task[t].epoch <= next_epoch
    /\ task[t].pc = "publish" =>
         /\ task[t].result \in Results
         /\ records[task[t].key].state = "terminal"
         /\ records[task[t].key].terminal = "none"
         /\ records[task[t].key].epoch = task[t].epoch

\* No two tasks work under the same claim.
ClaimsApart ==
  \A t, u \in Tasks :
    t # u /\ task[t].pc # "idle" /\ task[u].pc # "idle" =>
      task[t].epoch # task[u].epoch

StoreInv ==
  /\ CallRetained
  /\ RepliesMatchRecord
  /\ \A c \in Calls : CallBound(c)
  /\ \A k \in Steps : RecordAgrees(k)
  /\ \A t \in Tasks : TaskOwns(t)
  /\ ClaimsApart

IInv == TypeOK /\ StoreInv

=============================================================================
