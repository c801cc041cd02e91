# A TLA+ model of tower-agent

tower-agent puts coding-agent providers behind Tower services: a kernel of
middleware layers around one provider call, a runner that executes a dependency
graph of such calls, adapters for the Claude and Codex command lines, a planner,
an MCP server, and hosts that run workflows over a job queue. These modules model
the parts of it that keep state while other things happen: cancellation, clocks,
panics, dropped futures, crashes; and the decisions on one turn, from the layers that
describe it to the reply of the provider's child process.

## The system

| Part | State | Operations | What is hard about it |
|---|---|---|---|
| Workflow definitions (`tower-agent-workflow/definition.rs`) | steps, dependencies, in-degrees, topological order | `single`, pipeline and DAG builders, `compile` | deciding acyclicity; an order that does not depend on authoring |
| Workflow runner (`execution.rs`) | dependency counts, ready set, in-flight futures, outputs, failures, stop reason, run token | `execute`, `dispatch_step` | readiness against cancellation; stop, then drain; first stop wins; a bound that also covers steps waiting for readiness |
| Middleware stack (`tower-agent/layer`) | permits, tokens, the branch a deadline took, receipts | `poll_ready` and `call` of each layer, the supervised task, drops | a caller that goes away; deadline, cancellation and settlement at once; panics in three places; effects that must not be understated |
| Errors (`error.rs`) | kind, phase, effects, evidence | constructors, `combine`, `with_cause` | severity that only rises |
| Adapters (`tower-agent-claude`, `tower-agent-codex`) | configuration, child process, stream, session | `preflight`, `call`, settlement mapping | many checks that `preflight` and `call` must agree on, on a file system that changes in between; what a cancelled or failed process has already done; which session is proven |
| Host policy (`authority.rs`, `environment.rs`, `process.rs`) | ceiling, writable roots, variables | `authorize`, `resolve`, `observe` | what a turn asks for must be granted exactly or refused |
| Agent step (`tower-agent-workflow/agent.rs`) | a clone of the stack | `call` | gives up between readiness and call |
| Event channel (`event.rs`), receipt sink (`observe.rs`) | queue, byte budget | `try_emit`, `recv`, `try_record` | emitters and receiver share a counter without a lock |
| MCP (`tower-agent-mcp`) | continuations, progress counter | tool calls, elicitation, mint, resolve, forget | eviction and forgotten scopes against use; a settlement that must be answered although the client cancels or the store fails; progress numbers that must increase |
| Planner (`tower-agent-plan`) | layers of partial turns | merge, resolve, compile, preflight, route | a baseline that depends on an answer; controls that one provider has and the other has not |
| Durable host (`examples/apalis-durable`) | an append-only log and its fold in memory | open, append, admit, execute, recover, reconcile, cancel | crashes inside and between appends, redelivery, fencing |
| In-process host (`examples/apalis-local`) | run store, claims, queue | register, claim, launch, complete, reconcile | duplicate delivery and worker loss |

The runner calls a dispatcher service per step; `AgentStepService` makes the
middleware stack such a dispatcher. The stack calls an adapter. Cancellation flows
downwards through child tokens (caller, run, step, provider), results flow upwards
and are only ever made more severe. A host keeps its own truth in a store and uses
a queue only to learn that a step is ready.

## Modules

| Module | Models |
|---|---|
| `DagRun` | what one run promises: each step called at most once, after its dependencies, while the run is open; a reply only when every called step has settled |
| `Workflow` | `execute` and `dispatch_step`; implements `DagRun` |
| `Definition` | the builders and `compile` |
| `AgentStack` | Supervise, Observe, CatchPanic, Admission, Deadline, ValidateTurn and Authority over an adapter, called directly or by `AgentStepService` |
| `DurableStore` | `store.rs` and the host functions of `main.rs` |
| `LocalRunStore` | the run store, dispatcher and queue worker of `apalis-local` |
| `EventChannel` | the byte-bounded event channel of `event.rs` |
| `Planner` | layers, resolution and folding of the planner, as operators |
| `ProviderAdapters` | checks, commands, environment and settlement of both adapters, as operators; uses `Planner` |
| `PlannedTurn` | one turn through planner, preflight, router, adapter and child process; composes the two |
| `McpTools` | the turn tool and the plan tool over one continuation store; plans with `Planner` |
| `WorkflowProofs`, `DefinitionProofs`, `AgentStackProofs`, `DurableStoreProofs`, `LocalRunStoreProofs`, `EventChannelProofs`, `PlannedTurnProofs`, `McpToolsProofs` | the theorems about these modules and their proofs |
| `MC*` | the graphs, inputs and sets for TLC |

### Workflow

`pc` is the position of `execute`: before its first poll (`start`), in the
admission loop (`admit`), inside `in_flight.next()` (`wait`), returned, or dropped.
`in_flight[s]` is the state of the future of `dispatch_step`: waiting for readiness,
granted (ready, before the second look at the token), called. The runner and its
steps are one task, so a step moves only while `pc = "wait"`, and while one is
between readiness and its second look nothing else of the task moves; the caller's
token and the clock move at any time. `Start`, `ObserveCancellation`,
`ObserveDeadline`, `AdmitStep`, `BeginWait` and `Return` are the stretches of
`execute`; `AbandonReadiness`, `DispatcherReady`, `DispatcherUnready`,
`AbandonCall`, `Call`, `SettleOk` and `SettleErr` those of a step, each of the last
including what the runner does with the settlement. `called` is a history variable.

Inputs, jobs and outputs are identities only. The graph is a parameter with the
assumption that module `Definition` establishes for accepted definitions.

### Definition

One action per stage of a build: the builder, the checks of the workflow itself,
one iteration of the insertion loop, the linking of edges, one iteration of Kahn's
loop, the verdict. Identifier syntax is the set `ValidIds`; errors are their
variant, with the rule which defect is met first.

### AgentStack

One record of state per call. `poll_ready` and `call` are one synchronous descent
through all layers, hence one action each; the returned future belongs to a task,
whose steps interleave with the caller, the token, the clock and the other calls.
`inner` is the future below Deadline: refused in one of several ways, prepared (the
adapter's future, not yet launched), running, ended. `branch` is the arm Deadline's
select has taken. A result is a kind, a phase, an effect state, and whether there is
evidence. `launched` and `settled` are history variables: what the provider really
did, against which the reported result is judged. The provider is free to settle
with anything an adapter can report; once cancelled it answers. A caller whose readiness
failed drops its clone or keeps it (`KeepService`) and polls or calls again.

The calls in `Steps` are made by `AgentStepService`. It prepares first, then waits
for readiness under a biased select with the step's token, looks at the token once
more (`StepLooks`) and calls on the same clone; when it gives up (`StepGivesUp`) the
clone is dropped with the permit that readiness took.

### DurableStore

The log is represented by the fold of its terminated lines and by what follows the
last newline, since a replay cannot tell more. Each append may succeed, fail having
written nothing or everything, or (`TornWrites`) stop within the line or before the
newline; only success is folded into memory. A process opens the log, does one thing
at a time and may die at any point; deliveries are chosen freely, so lost and repeated
ones are included. `admit` and `recover_lost` return claims (`claims`), which the
process may execute later, after it has admitted or recovered other steps or the same
one again. Three constants say what the host does: `Exclusive`, that a process starts
only when no other one is up; `Careful`, the steps of which it executes only the newest
claim that it knows of, and gives up its claims when it fails to claim the step again,
which is what `phase_one` does (`admit(..)?`, then `execute`); `TornWrites`, that a write
may stop in the middle. Of a step that is not careful old claims are executed too, so that
the fence has something to keep out. `calls`, `cleared`, `granted` and `stopped` are history
variables, and so is `spoiled`: a record was written behind a line without its newline,
where it cannot be read. Mismatched schemas and fingerprints are refused without a change
and are left out.

### LocalRunStore

Each method of the store is one critical section and one action, named after it.
`complete` and `reconcile_worker_loss` publish on the record's watch channel after
they released the mutex, so publication is an action of its own; a task can be
dropped at its awaits only, hence not between the two. A dispatcher call registers,
sends its reference twice and waits; it may be dropped with its coordinator at any of
these points, and another call is the replay. The worker starts, stops gracefully or
is aborted; its queue, a bag of references, and all sinks to it go with it.
Reconciliation may come while tasks of the worker are still alive, since the store
does not rely on its caller being right. What a step is frozen to is a token. The
rendezvous of the two root steps is only a delay between launch and provider call.

### EventChannel

One action per access to the shared counter and per operation of the channel. An
event is its size. The first load is relaxed and may return any earlier value, so it
is a free choice; the compare-and-swap sees the counter itself.

### Planner, ProviderAdapters, PlannedTurn

A partial turn is a function on the paths that it binds; a layer above replaces what a
layer below binds. Strings, paths and schemas are classes, as far as a check tells them
apart: a prompt is text or blank. A directory or a skill folder is a name, and `files`
says what the name stands for: a directory inside an allowed root, one outside, a skill
folder, or nothing. Somebody may change that at any time and as often as they like
(`ChangeFiles`); `preflight`, `call` and Codex's future each read it anew, and `looks`
remembers what each of them read. Options that are handed on without a check share one
path. What a command says of a turn is the list of paths that the code of either adapter
hands on (`ClaudeFlags`, `CodexFlags`), not the turn itself. The
loop over the answers binds a path that is unbound to the first answer that can be bound
and reports the others.
`Resolve`, `FoldCodes` and `Prepare` are `resolve`, `plan` of either provider and
`prepare`.

The checks of an adapter are a sequence in the order of the code; the first one that
fails is the reply. `preflight` and `call` of an adapter use the same sequences where the
code shares the functions. The configuration of the router and of both services is one
record, `host`. The looks at the token are where they are in the code: in `prepare`, at
the start of Codex's future, after `build_codex`, in `run` of Claude. `Launch` is the
last look, Codex's schema file and `AgentEvent::Started`; then the wrapper spawns the
child, which may act, and returns one of its errors or a result. Which errors a wrapper
can return before it has spawned, or before the CLI has begun, is an assumption about the
libraries, stated in `Unspawned`, `StartRefusals` and `PossibleStream`. `acted` is a
history variable. After the spawn only `prepared` is read, so the rest is forgotten.

### McpTools

One record per call. Its position is between the awaits of `run`: arrived, planning,
asking the client, running, settled, done. The store's operations are critical sections
of a mutex and hence one action; the ids of continuations are numbered in the order of
minting, and `mints` remembers what each one named. A client may name any id ever minted
or one that was not. The service below settles with what PlannedTurn's replies allow.
A cancelled request is forwarded once; the future is never dropped. The number of a
progress report is taken (`Count`) and reported later (`Report`), so emitters overlap.
When a call ends, the data of its future is forgotten.

## Runs

| Run | Bounds | Shows |
|---|---|---|
| `WorkflowRun` | 5 steps, 2 slots | order, work conservation, settlements, replies, call boundary, refinement of `DagRun`; a stopped run ends without any readiness, and every run ends when dispatchers answer |
| `DefinitionBuild` | all inputs of up to 2 steps, 3 ids of which one is invalid, up to 2 dependencies each; all graphs on 4 steps in two authored orders | nothing authored is lost, altered or reordered, acyclicity is decided exactly, the order is canonical |
| `AgentStackCalls` | a call and an agent step, 1 permit | capacity, effect conservatism, preserved settlements, reply after settlement; permits of callers that are gone or answered return, expired calls settle |
| `AgentStackPhase` | 2 calls, 1 permit | violated: see findings |
| `DurableRestart` | 2 steps, one of them careful, 2 processes of which one is up at a time, 2 epochs and 2 calls each, torn writes | what was committed survives: steps, fences, launches, uncertainties, answers, a cancellation; one call of the careful step; rising epochs and sticky cancellation; results of old claims are fenced out and an answer on record is final; uncertain work stays so |
| `DurableTorn` | 1 step, 1 process | violated: see findings |
| `LocalWorker` | 2 steps, 2 calls, 2 tasks, 2 epochs, 2 workers in succession | work keeps its call until it is launched, replies that match record and invocation, no call after a loss, no call left waiting for a launched step |
| `LocalUnsent` | as `LocalWorker` | violated: see findings |
| `EventBudget` | 3 emitters, 2 items, 3 bytes, events of 1, 2 and (oversized) 3 bytes | ceilings hold at every moment, the counter is exact |
| `PlannedTurns` | turns with up to two deviations from a plain one, planned or built by hand; 4 file systems; streams of up to 3 events | a launched command carries what the highest layer asked for, inside the host's policy; preflight and call agree unless the file system has changed; replies are true about effects and sessions, whatever the exit code; a cancelled call settles |
| `McpCalls` | 2 turn calls and 1 plan call in 2 scopes, room for 1 name, 3 rounds, 2 progress events | a continuation resumes its own conversation or nothing; names resolve until evicted or forgotten; every settlement and every cancellation is answered; a plan that was answered in time is run |
| `PlannedDirectories` | turns of Claude that name a directory | violated: see findings |

The diamond with an independent step has a join, a fan-out, and more ready steps
than slots; its root is not the first step in id order, so that the order of
admission and the order of the graph differ. Two calls over one permit give every
contention for capacity; calls interact through nothing else. Two epochs let a
claim be lost and taken again, two calls let a provider be called once too often: an
old claim and the one that replaced it, both executed. What a second step adds is a
recovery that stops between two steps, and a claim held while another step is worked on;
`Few` bounds what the two come to together, two calls and three epochs, so that either can
use up its own bound, and lets only the first expire. TLC does not go on behind a spoiled
line (`Unspoiled`): it stays spoiled, and none of the properties says anything then. Two
calls for two steps include the replay of one step and the loss of two at once.
Three emitters let one hold a reservation while two others race; they may emit for
ever, as the states of the channel are finitely many. A check of a turn depends on one
or two bindings, and so does each conflict between layers, host and turn; two deviations
reach each of them, and every pair of defects in the order of checks. A stream of three
events has room for a handle, a second one that contradicts it and a terminal event, or
for two terminal events. The file systems are the one that the names suggest and three in
which everything is in place, elsewhere or gone, so every check of them changes its mind in
both directions. Room for one name makes every second mint an eviction, and two
scopes are an owner and somebody else; only the first call reports progress and only
the plan call is cancelled, since calls share nothing but the store.

Deadlock is checked for `Workflow` and `Definition`, whose last states are marked.
The other systems may stop: a caller need not call, a host need not work, an emitter
need not emit, a turn that was answered is over, and the epoch bounds end the behaviours
of the stores.

### Fairness

`CooperativeSpec`: the runtime polls the runner when it can move, and a called step
settles. The runner itself waits for that without a timeout, so nothing weaker would
do. Readiness is not assumed; the select in `dispatch_step` must get a stopped run
out of it. `Terminates` has as its premise `ReadyFairness`, that a dispatcher answers
its readiness poll, since nothing else ends a run without deadline. `FairSpec` of the
stack: the runtime polls a woken task, and a provider answers a cancelled token; it
may otherwise run for ever. `FairSpec` of the in-process host: tasks and publications
are scheduled, providers answer, the gate of the root steps opens, and the host
reconciles work that no task owns any more; nothing is assumed of deliveries or of a
further worker, so a step that is still pending when its queue is lost waits for a
replay. `FairSpec` of `PlannedTurn`: the futures are polled, and the wrapper's
cancellation path ends the child after its grace period; nothing makes a child end by
itself. `FairSpec` of `McpTools`: the futures are polled, and the service settles a call
whose token is cancelled, which is what `DeadlineSettles` and `CancelledCallSettles` say
of the modules below; a client may never answer, and a turn may run for ever.

### Findings

* `AgentStackPhase`: Deadline's select is unbiased, so a cancellation may overtake
  an immediate rejection of the inner call, which is then reported in phase
  `Running` with possible effects. docs/architecture.md says that a rejection before
  launch is never reported as `Running`. The claim about effects is conservative,
  so no safety property of `AgentStackCalls` is affected. The run has no agent steps;
  `AgentStepService` also reports phase `Running`, with no effects, when it gives up
  before its call (agent.rs:103 and 108, `AgentError::cancelled`).
* `DurableTorn`: `open` tolerates a torn last line, but `append` then writes behind
  it, on the same line. The new record was synced, its `append` returned, and the
  next `open` skips it. store.rs promises that such a commit survives.
* `LocalUnsent`: the dispatcher sends each reference twice. When the worker disappears
  between the sends the second fails and is reported with `EffectState::None`, although
  the first may have been executed. error.rs says of that state that nothing ran.
* `PlannedDirectories`: the comment on Claude's `additional_directories` says that the
  host's filesystem authority bounds them and that a directory it refuses fails
  validation. `ClaudeService` has no such authority, and `build_query` hands on every
  directory whose name is UTF-8.

Observations that are no violation of a checked property:

* crates/tower-agent-mcp/src/plan.rs:230-233 says that an unknown provider name is left
  unbound "so the planner reports it as a diagnostic". The planner sees no provider, so
  it takes the host's default or asks for one.
* A plan tool with fewer than three rounds gives up plans that could be answered: the
  answers of the last round are not looked at, and with one round every question is in
  vain. `McpCalls` has three rounds, which is what two missing values need.
* `preflight`, `call` and the future of Codex read the file system each for themselves, so
  a change in between may turn either verdict; `PreflightSound` says that nothing else
  does. `authorize` looks at the canonical root and the raw path is handed on, so what the
  child finds there is what the path names by then.
* A host that goes on after a failed append may lose a commit without any torn line: step
  claimed under epoch 1, a redelivered `admit` whose append of epoch 2 writes its line and
  fails, then `execute` under epoch 1. Its `Settled` is folded into memory and fenced out on
  replay. `CommitSurvives` is therefore stated for careful steps, where the error of that
  `admit` ends the work on the step, as in `main.rs`.
* `append` returns Ok for a record that the fence keeps out (store.rs:200, main.rs:147), so
  `execute` of a claim that a recovery, another `admit` or another process has taken over
  calls its provider, and the claim that replaced it calls it again. The fence keeps the
  older answer out of the record, not the call. store.rs:265 calls a claim lost before
  launch safe to retry, as nothing ran. Nothing in `main.rs` does this; the test
  `a_stale_completion_is_rejected` commits such a claim without executing it. `CallsOnce`
  is therefore stated for careful steps.
* With two live processes a late `Settled` of the launched epoch resolves a step that the
  other one's recovery has marked uncertain (store.rs:209), whereas
  docs/durable-host-report.md:57 says that only a decision does. Hence `Exclusive`.
* The number of a progress report is taken from the counter and reported afterwards
  (progress.rs:105), and MCP requires it to increase (progress.rs:102 and 225). Both
  adapters emit their events one after the other from one future (claude lib.rs:799 and
  827, codex lib.rs:502 and 536), so with them it does. A service that emits from two
  tasks could report the higher number first.
* `recover_lost` claims lost steps again although their run was cancelled; `admit` refuses
  them, but the claims that it returned may be executed.
* docs/architecture.md says that an ending of a call keeps the session that the host
  assigned. A call of Claude that is cancelled before it begins (lib.rs:490) and one whose
  structured output is missing (lib.rs:824) do not name it.
* Options of the provider that a turn does not run on are ignored by the fold.
* After a resume, the one session id that the child reports is offered, whether or not it is
  the resumed one.

## Proofs

Every safety property that a passing run checks is also a theorem, for every value of the
constants that the assumptions allow. `IInv` of a component stands at the end of its
module, with a comment on each part, so that TLC can evaluate it; it was checked on the
instances above before it was proved. Its proof, and the theorems, are in the module
named `...Proofs`: that the initial states satisfy it, one lemma for each action or
group of actions, and for each theorem how it follows.

### Workflow

For every finite acyclic graph and every positive concurrency:

| Theorem | Statement |
|---|---|
| `Invariance` | `Spec => []IInv` |
| `TypeCorrect`, `OrderRespected`, `SchedulerBounds`, `RepliesTruthful`, `DrainedBeforeReturn` | types, the invariants of `WorkflowRun`, that a run is never incomplete, and the bound on the in-flight set |
| `CallBoundary`, `StopIsFinal` | no call once stopped; the first stop wins |
| `Refinement` | `Spec => RunsTheGraph`: the scheduler implements `DagRun` |

`DependenciesFirst` is not inductive: that a step becomes ready only with its last
dependency needs the counts to be exact (`CountsExact`), and that no step is admitted
or settled twice, which would count an edge twice, needs it to be in one place at a
time (`OnePlace`). `TruthfulReply` and `NeverIncomplete` need `StopsCaused`, which
ties stop reasons to their causes and to the run token, and `NothingLost`: a running
workflow whose caller has not cancelled has not lost a step. From it a return without
a stop has every output, since otherwise the steps without output would contain, the
graph being acyclic, one whose dependencies are all done, and it would still be ready
or in flight. The cancelled case is excluded because the admission loop looks at the
token before it finds the ready set empty. `SettlementsReported` rests on
`CallsAccounted`. `IInv` is the conjunction.

### Definition

For every set of inputs, of any length, over any finite set of ids: `NothingIsLost`
(`KeepsEveryStep`), `AcyclicityDecided` and `CanonicalOrder`. In-degrees count the
dependencies that are not ordered, and `ready` is the set of steps that have none
(`SortExact`); the canonical order is inductive with it. A definition that is accepted
has every step in its order. If some set of steps each had a dependency in the set, its
member with the least index in the order would have one that is ordered before it: so it
is acyclic. One that is refused has a nonempty set of unordered steps, none of which is
ready, and that set is the witness of the cycle. That a pipeline is never refused for its
dependencies needs it to be a chain that is ordered as it was written (`Chained`): the
only step ready is the next one.

### AgentStack

For every finite number of calls, any of them agent steps, and every capacity:
`CapacityIsShared`, `EffectsConservative`, `SettlementsSurvive`,
`AnsweredAfterSettlement`, and `NoPermitLeaks`: a permit that is out is parked in a clone
that a caller still holds or belongs to a task that has not ended. Capacity needs
`PermitsCover`: each prepared or running provider owns a permit, and no more are out than
there are; this is a count of a set of calls, changed by one with each acquisition or
release. The others need the `Lifecycle` of a call, since what a reply may say depends on
whether there was a task, whether it was polled and whether the provider has ended; and
they need each other, as the receipt of Observe and the reply of Supervise are made from
one result below. The algebra of severity (`Combine`, `WithCause`) is proved once.

### LocalRunStore

For every number of steps, calls and tasks: `CallsAreRetained`, `RepliesAgree`,
`ProviderOnce` (`NoCallAfterLoss`), `ClaimsDistinct`, and `WatchValueIsFinal`: what was
published for a step is never replaced. A call under way is bound to a record frozen
to its own invocation (`CallBound`). The value of the watch channel agrees with the
record at all times, although it is written after the mutex was released
(`RecordAgrees`, and `TaskOwns` for the task that is about to write it). No two tasks have
the same claim (`ClaimsApart`), from epochs that are only ever handed out upwards; without
it the result of one task could be published for another.

### DurableStore

`TypeCorrect` has no hypothesis; the others have one, a process at a time (`Exclusive`).
Appends may fail with nothing or everything written or stop inside a line, and the process
may crash at every point. `CommitsSurvive` and `OneCallPerStep` speak of the careful steps,
of which there may be none or all; `FencesRise`, `AnswersAreFinal` and `UncertaintyStays` of
every step. The remarks under Findings show why: a step that is not careful may be called
twice or lose a commit, and two processes may resolve an uncertainty without a decision. So
is the premise of the properties needed that nobody has yet written behind a torn line
(`~spoiled`), by `DurableTorn`; a torn line that nothing was written behind is covered.

What makes this inductive is how far the log may be ahead of the memory of the process, by
records whose appends reported failure. Of a step that is not careful little can be said:
the log has it if memory has and at least the fence that memory has (`Lags`), a claim or
launch stands under its fence, no epoch was granted above it (`Fenced`), and a claim that is
held or executed is current or fenced out (`ClaimHolds`, `RunHolds`); so an old result cannot
become the answer. Of a careful step the log has what memory has or one record more
(`Behind`), and in both, a step that is pending or claimed has no call that no decision has
cleared (`Sound`): hence one call.
`RefenceHolds` carries what a recovery has claimed again until it returns.

### EventChannel

For every finite number of emitters and all ceilings: `BudgetIsExact` and
`CounterInRange`. The bytes in the channel and those of emitters under way are counted as
the cardinalities of sets of byte tokens. `CounterCovers` says that they never exceed the
counter, and that they are equal to it until the receiver goes away; then they are only
bounded by it, as what was in the channel stays counted. The stale first load does not
matter, because the compare-and-swap commits only if it was right.

### PlannedTurn

For every set of scenarios and streams: `EffectsAreTruthful`, `SessionsAreProven`,
`NothingIsDropped` (`HonorOrRefuse`), `PolicyHolds` (`WithinHostPolicy`),
`PreflightIsSound` and `ExitCodeDoesNotMatter`. Assumed are types: `None` is not another
value, a scenario's lists are lists, and a layer selects a provider that exists. The
invariant follows the stages of a turn (`Stages`). `Honored` says that a turn on its way
has every field that was asked for; it rests on `PlannedFacts`, the lemma about the whole
planner: a complete plan has the provider that the layers or the first usable answer
select, and each field is the one of the highest layer that binds it. `ClaudeHonors` and
`CodexHonors` then compare the command with the turn, field by field. `PreflightKept` says
that the verdict of preflight is the one that the checks give on the file system that
preflight read; since they are the same checks, a turn that was refused can go on only if
`call` or the future read another one. `CodexPermitted` says the same of the roots that
`call` authorized, which the command then names.
`HandlesKnown` ties handles to the provider, from which `SessionProven` follows case by
case for every end of a child.

### McpTools

For every number of calls, scopes and names: `NamesResolve`, `SettlementsAnswered`,
`CallsResumeWhatTheyName`, and, for three rounds or more (the default
is four), `AnswersAreHeard`. The store lists its names in the order of minting
(`StoreInv`); a name that is not forgotten is evicted only when as many younger ones
were minted as there is room for, as their ids count them. A second invariant, `PlanInv`,
is proved on top of `IInv`: while a plan is made, asks or runs, its explicit layer carries
the session that its name stood for when the call arrived, and no layer or answer can
bind it otherwise (`ResumeKept`). Rounds are bounded because each answer is to something
that was asked, or makes the plan invalid (`RoundsInv`): two of them leave nothing to ask
for. With fewer rounds the property is false; see Findings.

### What stays with the model checker

Liveness (`StopEnds`, `Terminates`, `DropReturnsCapacity`, `DeadlineSettles`,
`LaunchedSettles`, `CancelledCallSettles`, `CancelledIsAnswered`), as temporal reasoning
with fairness is outside the prover's reach; and the findings, which are counterexamples.

Some definitions have a form that the provers can reason about. The loop over the answers
of a plan is described by its outcome, the first usable answer to each path
(`Answered`, `AnswerCodes`), the first failing check by the least index (`FirstError`),
and the bytes of the channel by sets instead of a sum.

## Not modelled

Contents: texts of prompts and messages, usage and cost, formatting, the spelling of
command lines. The wrappers and CLIs below the adapters, beyond what they may answer. The
fake provider and the fault layer, which are test instruments, and the limit layer, which
maps the errors of a policy that the host supplies. A receipt sink that is full. The
Apalis and MCP libraries, which appear only as deliveries, requests and forms. The
command-line examples and the repository worker, which wire the crates together.

## Plan

1. Done: `Workflow` with `DagRun`, `Definition`, `AgentStack`, `DurableStore`,
   `LocalRunStore`, `EventChannel`, `Planner`, `ProviderAdapters`, `PlannedTurn`,
   `McpTools`, and the proofs of all their safety properties.
2. An abstract lifetime of a step (`DurableStore` and `LocalRunStore` promise the
   same one), shown to be implemented by both, with the proofs.
3. The liveness arguments, as safety lemmas from which fairness gives the conclusion:
   which step is enabled in a state that waits, and what it decreases.
