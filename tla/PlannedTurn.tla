---------------------------- MODULE PlannedTurn ----------------------------
(***************************************************************************)
(* One turn from its layers to its reply: planned (crates/tower-agent-     *)
(* plan), preflighted by the host, routed to a provider's service, and run *)
(* by that service as a child process. The caller's token and the file     *)
(* system change at any moment; the child acts and ends when it likes.     *)
(*                                                                         *)
(* The provider wrappers and the CLIs below them are not in the            *)
(* repository. What they may answer is taken from the adapters' matches:   *)
(* some errors exist only before a child does, and some only while the CLI *)
(* has not started the turn.                                               *)
(***************************************************************************)
EXTENDS ProviderAdapters

CONSTANTS
  Scenarios,    \* [layers, turn, host, assigned, files]: what a host starts with
  FileSystems,  \* what each path may come to name: functions on paths
  Streams       \* event streams that a Codex child may produce

\* A stream is a sequence.
ASSUME StreamsAssumption ==
  \A s \in Streams : s \in Seq({s[i] : i \in DOMAIN s})

\* Layers: answers are listed, and a layer selects a provider that exists.
LayersTyped(l) ==
  /\ DOMAIN l.answers \subseteq Nat
  /\ \A layer \in {l.defaults, l.profile, l.explicit} :
       Bound(layer, "provider") => layer["provider"] \in ProviderIds

\* The types of a scenario: Layers or a ReadyTurn with the fields of its
\* provider, whose directories are a list, and SessionHandle.
ASSUME ScenariosAssumption ==
  \A s \in Scenarios :
    /\ s.assigned \in {None} \cup Handles
    /\ s.layers = None => /\ DOMAIN s.turn = TurnPaths(s.turn["provider"])
                          /\ s.turn["dirs"] \in Seq(STRING)
    /\ s.layers # None => LayersTyped(s.layers)
    /\ s.layers # None /\ Prepare(s.layers).tag = "ready" =>
         TurnOf(Prepare(s.layers).turn)["dirs"] \in Seq(STRING)

VARIABLES
  pc,           \* how far the turn is
  layers,       \* Layers; None for a turn that the host built by hand
  turn,         \* ReadyTurn
  host,         \* the configured services and the router
  assigned,     \* CallContext::preassigned_session
  cancelled,    \* CallContext::cancellation
  files,        \* the file system: what each path names
  preflighted,  \* what preflight said
  looks,        \* history: the file systems that the checks of Codex read
  command,      \* what the child is launched with
  prepared,     \* PreparedTurn, as far as settlement reads it
  observed,     \* SpawnObserver was handed a receipt
  acted,        \* the child has changed something
  events,       \* AgentEvents
  outcome,      \* what the wrapper returned
  reply

vars == <<pc, layers, turn, host, assigned, cancelled, files, preflighted,
          looks, command, prepared, observed, acted, events, outcome, reply>>

request == <<layers, turn, host, assigned>>
world == <<cancelled, files>>
verdict == <<preflighted, looks>>
process == <<observed, acted, outcome>>

\* preflight, CodexService::call and its future.
NoLooks == [at \in {"preflight", "call", "build"} |-> None]

Init ==
  /\ \E s \in Scenarios :
       /\ layers = s.layers
       /\ turn = s.turn
       /\ host = s.host
       /\ assigned = s.assigned
       /\ files = s.files
       /\ pc = IF s.layers = None THEN "ready" ELSE "planning"
  /\ cancelled = FALSE
  /\ preflighted = None /\ looks = NoLooks /\ command = None /\ prepared = None
  /\ observed = FALSE /\ acted = FALSE
  /\ events = <<>> /\ outcome = None /\ reply = None

Answer(r) == reply' = r /\ pc' = "done"

\* A check reads the file system as it is now.
Look(at) == looks' = [looks EXCEPT ![at] = files]

(***************************************************************************)
(* The host                                                                *)
(***************************************************************************)

\* prepare. A turn that lacks a value or is invalid goes back to the caller.
Plan ==
  LET plan == Prepare(layers)
  IN /\ pc = "planning"
     /\ IF plan.tag = "ready"
          THEN pc' = "ready" /\ turn' = TurnOf(plan.turn)
          ELSE pc' = "refused" /\ UNCHANGED turn
     /\ UNCHANGED <<layers, host, assigned, world, verdict, command,
                    prepared, process, events, reply>>

\* claude::preflight and codex::preflight, which a host may call.
CheckAhead ==
  /\ pc = "ready" /\ preflighted = None
  /\ preflighted' =
       LET refusal == IF turn["provider"] = "codex"
                        THEN CodexPreflight(turn, host, files)
                        ELSE ClaudePreflight(turn, host)
       IN IF refusal = None THEN "ok" ELSE "refused"
  /\ Look("preflight")
  /\ UNCHANGED <<pc, request, world, command, prepared, process, events,
                 reply>>

\* A check of the turn or of the host's skills reads the file system.
ReadsFiles ==
  /\ turn["provider"] = "codex"
  /\ \/ turn["filesystem"] = WorkspaceWrite /\ Roots(turn) # <<>>
     \/ host.skills \notin {"inherit", "excessive"}

\* Somebody removes, creates or relinks what the turn or the host names, at
\* any time and as often as they like. After the last check nothing here
\* reads it again, and where no check does a change makes no difference.
ChangeFiles ==
  /\ pc \in {"ready", "prepared"} /\ ReadsFiles
  /\ files' \in FileSystems \ {files}
  /\ UNCHANGED <<pc, request, cancelled, verdict, command, prepared,
                 process, events, reply>>

\* The caller cancels. A token is part of a call, and a host may hand over
\* one that is cancelled already.
Cancel ==
  /\ pc \in {"ready", "prepared", "built", "launching", "running"}
  /\ ~cancelled /\ cancelled' = TRUE
  /\ UNCHANGED <<pc, request, files, verdict, command, prepared, process,
                 events, reply>>

(***************************************************************************)
(* The router and the adapters                                             *)
(***************************************************************************)

\* RoutedTurnService::call: the session must belong to the provider, and the
\* provider must be registered.
RouteRefusal ==
  LET resume == turn["resume"]
  IN FirstError(
       << Check(resume # None /\ resume.provider # turn["provider"],
                Unsupported),
          Check(turn["provider"] \notin host.registered, Unsupported) >>)

\* What settlement reads of a turn: PreparedTurn, and the parameters of run.
PreparedTurn ==
  [provider |-> turn["provider"],
   prior |-> turn["resume"],
   assigned |-> assigned,
   ephemeral |-> turn["provider"] = "codex" /\ turn["codex.ephemeral"],
   structured |-> turn[IF turn["provider"] = "codex" THEN "codex.schema"
                       ELSE "claude.schema"] # None]

\* RoutedTurnService::call and ClaudeService::call, which builds the client
\* and the query before it returns its future.
CallClaude ==
  /\ pc = "ready" /\ turn["provider"] = "claude"
  /\ \E refusal \in {IF RouteRefusal # None THEN RouteRefusal
                     ELSE ClaudeCallRefusal(turn, host, assigned, cancelled)} :
       IF refusal # None
         THEN Answer(refusal) /\ UNCHANGED <<command, prepared>>
         ELSE /\ pc' = "built"
              /\ prepared' = PreparedTurn
              /\ command' = ClaudeCommand(turn, host, assigned)
              /\ UNCHANGED reply
  /\ UNCHANGED <<request, world, verdict, process, events>>

\* RoutedTurnService::call and CodexService::call up to its future.
CallCodex ==
  /\ pc = "ready" /\ turn["provider"] = "codex"
  /\ \E refusal \in {IF RouteRefusal # None THEN RouteRefusal
                     ELSE CodexCallRefusal(turn, host, files, assigned,
                                           cancelled)} :
       IF refusal # None
         THEN Answer(refusal) /\ UNCHANGED prepared
         ELSE pc' = "prepared" /\ prepared' = PreparedTurn /\ UNCHANGED reply
  /\ Look("call")
  /\ UNCHANGED <<request, world, preflighted, command, process, events>>

\* Codex's future up to build_codex.
BuildCodex ==
  /\ pc = "prepared"
  /\ \E refusal \in {CodexBuildRefusal(host, files, cancelled)} :
       IF refusal # None
         THEN Answer(refusal) /\ UNCHANGED command
         ELSE /\ pc' = "built"
              /\ command' = CodexCommand(turn, host)
              /\ UNCHANGED reply
  /\ Look("build")
  /\ UNCHANGED <<request, world, preflighted, prepared, process, events>>

\* The last look at the token, the schema file of Codex, which may fail, and
\* AgentEvent::Started.
Launch ==
  /\ pc = "built"
  /\ \/ /\ cancelled
        /\ Answer(Attach(CancelledBeforeLaunch, prepared.assigned))
        /\ UNCHANGED events
     \/ /\ ~cancelled /\ prepared.provider = "codex" /\ prepared.structured
        /\ Answer(SchemaFileError)
        /\ UNCHANGED events
     \/ /\ ~cancelled
        /\ pc' = "launching" /\ events' = Append(events, "Started")
        /\ UNCHANGED reply
  /\ UNCHANGED <<request, world, verdict, command, prepared, process>>

(***************************************************************************)
(* The wrapper and the child                                               *)
(***************************************************************************)

\* Errors of a wrapper that has not spawned a child.
Unspawned ==
  {"NotFound", "SpawnFailed", "VersionMismatch", "UntestedCliVersion",
   "InvalidRolloutBudget", "DangerousNotAllowed", "BudgetExceeded"}

\* A CLI that refuses to begin.
StartRefusals == {"Config", "NotTrustedDirectory", "SessionNotFound"}

\* The wrapper spawns the child and reports its process group. From here on
\* only `prepared` is read, so the rest of the request is forgotten.
Spawn ==
  /\ pc = "launching"
  /\ pc' = "running" /\ observed' = TRUE
  /\ layers' = None /\ turn' = None /\ host' = None
  /\ files' = None /\ preflighted' = None /\ looks' = NoLooks
  /\ command' = None
  /\ UNCHANGED <<assigned, cancelled, prepared, acted, events, outcome,
                 reply>>

\* The child changes something.
Act ==
  /\ pc = "running" /\ ~acted /\ acted' = TRUE
  /\ UNCHANGED <<pc, request, world, verdict, command, prepared,
                 observed, events, outcome, reply>>

\* The errors that the wrapper of a provider may return at this point.
ErrorTags ==
  LET known == IF prepared.provider = "codex"
                 THEN DOMAIN CodexErrors
                 ELSE DOMAIN ClaudeErrors \ {"CommandFailed"}
      early == IF pc = "launching" THEN Unspawned
               ELSE known \ (Unspawned \cup RailStops)
      refused == IF acted \/ pc = "launching" THEN StartRefusals
                 ELSE IF prepared.prior = None THEN {"SessionNotFound"}
                 ELSE {}
  IN (known \cap early) \ (refused \cup {"Cancelled"})

\* A stream that rejects the request is one of a child that did not act.
PossibleStream(stream) ==
  acted => \A i \in DOMAIN stream : stream[i].value # "ApiRequestRejected"

\* What the wrapper returns of a child that ended.
CodexEnds(streams) ==
  [tag : {"result"}, events : streams, thread : {None, "t1"},
   session : {None}]
    \cup [tag : {"CommandFailed"}, events : streams]

ClaudeEnds ==
  [tag : {"result"}, session : {None, "uuid", "r1"},
   is_error : BOOLEAN, structured : BOOLEAN,
   subtype : {"error_max_turns", "error_max_budget_usd", "other"}]
    \cup [tag : RailStops, session : {None, "uuid", "r1"}]
    \cup [tag : {"CommandFailed"}]

\* None is not something that a wrapper returns.
ASSUME OutcomesAssumption ==
  /\ None \notin [tag : DOMAIN CodexErrors \cup DOMAIN ClaudeErrors]
  /\ None \notin CodexEnds(Streams) \cup ClaudeEnds

\* What the wrapper may return now.
Outcomes ==
  [tag : ErrorTags] \cup
  (CASE pc = "launching" -> {}
     [] pc = "running" /\ prepared.provider = "codex" ->
          CodexEnds({s \in Streams : PossibleStream(s)})
     [] OTHER -> ClaudeEnds)

ReplyTo(o) ==
  IF prepared.provider = "codex" THEN CodexReply(o, prepared)
                                 ELSE ClaudeReply(o, prepared)

Return(o) ==
  /\ outcome' = o
  /\ Answer(ReplyTo(o))
  /\ events' = IF ReplyTo(o).kind = "ok" THEN Append(events, "OutputDelta")
               ELSE events
  /\ UNCHANGED <<request, world, verdict, command, prepared, observed,
                 acted>>

\* The wrapper returns without having been cancelled.
Settle == pc \in {"launching", "running"} /\ \E o \in Outcomes : Return(o)

\* Mutant: cancellation is not bridged into the running child.
SettleCancelledEarly ==
  pc = "launching" /\ cancelled /\ Return([tag |-> "Cancelled"])

\* execute_json_cancellable sees the token, ends the process group, waits
\* for it and returns.
SettleCancelled ==
  /\ pc \in {"launching", "running"} /\ cancelled
  /\ Return([tag |-> "Cancelled"])

Next ==
  \/ Plan \/ CheckAhead \/ ChangeFiles \/ Cancel
  \/ CallClaude \/ CallCodex \/ BuildCodex \/ Launch
  \/ Spawn \/ Act \/ Settle \/ SettleCancelled

Spec == Init /\ [][Next]_vars

\* The futures are polled to their end, and the wrapper's cancellation path
\* ends the child after its grace period. Nothing makes a child end by
\* itself, so Settle is not fair.
FairSpec ==
  Spec /\ WF_vars(CallClaude) /\ WF_vars(CallCodex) /\ WF_vars(BuildCodex)
       /\ WF_vars(Launch) /\ WF_vars(SettleCancelled)

(***************************************************************************)
(* Properties                                                              *)
(***************************************************************************)

\* What the highest layer that binds a path says: an answer, the explicit
\* request, the profile, the defaults, the baseline of the provider. Of a
\* turn that was built by hand, what it says itself.
WantedOf(l, t, path) ==
  LET given == {i \in DOMAIN l.answers : l.answers[i].id = path}
      chain == <<l.explicit, l.profile, l.defaults, l.baseline[t["provider"]]>>
      binding == {k \in DOMAIN chain :
                    Bound(chain[k], path) /\ (path = "provider" => k # 4)}
  IN CASE l = None /\ Bound(t, path) -> t[path]
       [] l # None /\ given # {} -> l.answers[Least(given)].value
       [] l # None /\ given = {} /\ binding # {} ->
            chain[Least(binding)][path]
       [] OTHER -> DefaultOf(path)

Wanted(path) == WantedOf(layers, turn, path)

\* Claude's ambient mode, of which an unbound one is "inherit".
AmbientHonored(wanted) ==
  \/ command.ambient = wanted
  \/ wanted = "inherit" /\ command.ambient = host.ambient
  \/ {host.ambient, wanted} = Hermetic /\ command.ambient = "hermetic-full"

\* Honor or refuse: a command that is about to be launched carries, for each
\* shared control and each control of its provider, what the highest layer
\* asked for, and is one of the provider that was asked for. The sandbox of
\* Codex is the requested authority, fresh or resumed. Claude's ambient mode
\* is the requested one; the host's takes its place only where nothing was
\* requested, and two hermetic scopes make the full one. Nothing is dropped
\* between the layers, the fold and the two kinds of command (resolve.rs,
\* codex.rs, claude.rs, build_query, fresh_command, resume_command).
HonorOrRefuse ==
  command # None =>
    \A path \in SharedPaths \cup TurnPaths(turn["provider"]) :
      CASE path = "provider" -> command.provider = Wanted(path)
        [] path = "filesystem" /\ command.provider = "codex" ->
             command.sandbox = Wanted(path)
        [] path = "resume" -> command.resume = Wanted(path)
        [] path = "claude.ambient" -> AmbientHonored(Wanted(path))
        [] OTHER -> IF path \in DOMAIN command.options
                      THEN command.options[path] = Wanted(path)
                      ELSE Wanted(path) = DefaultOf(path)

\* Whatever the layers say, a child stays inside the host's policy: Codex is
\* not sandboxed more widely than the ceiling, and the roots that it may
\* write below were under a root that the host allows when CodexService::call
\* authorized them; Claude's ambient context is at least as sealed as the
\* host's, a resumed session is one of the provider itself, and a cleared
\* environment holds what the policy names and nothing else. Claude's
\* directories are the subject of DirectoriesBounded.
WithinHostPolicy ==
  command # None =>
    /\ turn["provider"] = "codex" =>
         /\ command.sandbox <= host.ceiling
         /\ command.sandbox = WorkspaceWrite =>
              \A i \in DOMAIN Roots(turn) :
                looks["call"][Roots(turn)[i]] = "inside"
    /\ turn["provider"] = "claude" =>
         \/ command.ambient = host.ambient
         \/ host.ambient = "inherit"
         \/ host.ambient \in Hermetic /\ command.ambient = "hermetic-full"
    /\ command.resume # None => command.resume.provider = turn["provider"]
    /\ host.environment.clear =>
         DOMAIN command.environment \subseteq
           host.environment.allow \cup DOMAIN host.environment.explicit
             \cup {"CONFIG"}

\* ClaudeOptions::additional_directories: "The host filesystem authority
\* still bounds these; a directory named here that the policy refuses fails
\* validation rather than widening it." No child of Claude is admitted to a
\* directory outside of the roots that the host allows.
DirectoriesBounded ==
  command # None /\ turn["provider"] = "claude" =>
    \A i \in DOMAIN turn["dirs"] : files[turn["dirs"][i]] = "inside"

\* The file system that a step of Codex read is not the one of preflight.
ChangedBy(step) ==
  turn["provider"] = "codex" /\ looks[step] # looks["preflight"]

\* A turn that passed preflight is not refused by the call in its validation
\* phase, except for a host session, a provider that is not registered, or a
\* file system that has changed; a turn that preflight refused reaches no
\* child, unless the file system has changed when the call or its future
\* looks at it again (CodexService::preflight, ClaudeService::preflight).
PreflightSound ==
  /\ preflighted = "ok" /\ reply # None /\ events = <<>>
       /\ reply.phase = "Validation"
     => \/ assigned # None
        \/ turn["provider"] \notin host.registered
        \/ ChangedBy("call")
  /\ preflighted = "refused" /\ events # <<>> =>
       ChangedBy("call") \/ ChangedBy("build")

\* A reply that claims no effects is true: the child has not acted. A call
\* that never announced its start had none, and a failure to admit or launch
\* means that no watchdog was ever handed a process (map_run_error,
\* map_other_wrapper_error, classify_terminal_failure).
EffectsTruthful ==
  reply # None =>
    /\ reply.effects = "none" => ~acted
    /\ events = <<>> => reply.effects = "none"
    /\ reply.phase \in {"Admission", "Launch"} => ~observed

\* Codex reports a failed turn and may exit with zero or not. When the
\* stream is in order, the host learns the same kind, phase and effects from
\* either exit (classify_terminal_failure "decided in exactly one place").
ExitCodeIrrelevant ==
  reply # None /\ outcome # None /\ outcome.tag = "CommandFailed"
    /\ prepared.provider = "codex" =>
    LET zero == SettleOutcome([events |-> outcome.events, thread |-> None,
                               session |-> None], prepared)
    IN zero.kind \notin {"ok"} /\ zero.phase # "Settlement" =>
         /\ reply.kind = zero.kind
         /\ reply.phase = zero.phase
         /\ reply.effects = zero.effects

\* What the end of the child reported, handles among it.
ReportedValues ==
  IF outcome = None THEN {}
  ELSE {outcome[field] : field \in DOMAIN outcome \cap {"thread", "session"}}
         \cup (IF "events" \notin DOMAIN outcome THEN {}
               ELSE {outcome.events[i].value : i \in DOMAIN outcome.events})

\* A session that a reply offers for resumption is proven: it has the tag of
\* the provider, and it is the host's own, the one that the turn resumed, or
\* one that the provider reported without contradicting itself. A turn that
\* was to leave no history offers none, and a success never replaces the
\* session that the host assigned (validated_result_session, run).
SessionProven ==
  reply # None /\ prepared # None =>
    LET handle == reply.session
    IN /\ handle # None =>
            /\ handle.provider = prepared.provider
            /\ \/ handle \in {prepared.assigned, prepared.prior}
               \/ handle.value \in ReportedValues
            /\ outcome # None /\ outcome.tag = "result"
                 /\ prepared.provider = "codex"
                 => Cardinality({outcome.events[i].value :
                      i \in {j \in DOMAIN outcome.events :
                               outcome.events[j].type = "thread"}}) <= 1
       /\ prepared.ephemeral => handle = None
       /\ reply.kind = "ok" /\ prepared.assigned # None =>
            handle = prepared.assigned

\* A cancelled call ends, whether or not its child would have.
CancelledCallSettles == cancelled ~> pc = "done"

(***************************************************************************)
(* The inductive invariant (module PlannedTurnProofs)                      *)
(***************************************************************************)

Unlaunched == {"planning", "ready", "refused", "prepared", "built"}

\* What has happened at each stage of a turn.
Stages ==
  /\ DOMAIN looks = {"preflight", "call", "build"}
  /\ pc # "done" => reply = None /\ outcome = None
  /\ pc \in Unlaunched => events = <<>>
  /\ pc \in {"launching", "running"} => events = <<"Started">>
  /\ pc \in Unlaunched \cup {"launching"} => ~observed /\ ~acted
  /\ pc \in {"planning", "ready", "refused"} => prepared = None
  /\ pc \in {"planning", "ready", "refused", "prepared"} => command = None
  /\ outcome # None => reply = ReplyTo(outcome)
  /\ outcome # None /\ outcome.tag = "CommandFailed"
       /\ prepared.provider = "codex" => outcome.events \in Streams

\* The request as it was given, and the list of its directories.
Requested ==
  /\ assigned \in {None} \cup Handles
  /\ pc = "planning" =>
       preflighted = None /\ layers # None /\ LayersTyped(layers)
  /\ pc = "planning" /\ Prepare(layers).tag = "ready" =>
       TurnOf(Prepare(layers).turn)["dirs"] \in Seq(STRING)
  /\ pc = "ready" => turn["dirs"] \in Seq(STRING)

\* A turn says what was asked for, and has the fields of its provider.
Honored ==
  pc \in {"ready", "prepared"} =>
    /\ DOMAIN turn = TurnPaths(turn["provider"])
    /\ \A path \in SharedPaths \cup TurnPaths(turn["provider"]) :
         Wanted(path) = IF Bound(turn, path) THEN turn[path]
                        ELSE DefaultOf(path)

\* The handles of a turn on its way are of the provider that it runs on, and
\* Codex was given none by the host.
HandlesKnown ==
  pc \in {"prepared", "built", "launching", "running"} =>
    /\ prepared.provider \in ProviderIds
    /\ prepared.assigned \in {None} \cup Handles
    /\ prepared.assigned # None =>
         prepared.assigned.provider = prepared.provider
    /\ prepared.prior # None => prepared.prior.provider = prepared.provider
    /\ prepared.provider = "codex" => prepared.assigned = None
    /\ prepared.ephemeral => prepared.provider = "codex"

\* Codex's checks were passed before its future, on the file system that they
\* read.
CodexPermitted ==
  pc = "prepared" =>
    /\ turn["provider"] = "codex"
    /\ turn["filesystem"] <= host.ceiling
    /\ turn["filesystem"] = WorkspaceWrite =>
         \A i \in DOMAIN Roots(turn) :
           looks["call"][Roots(turn)[i]] = "inside"
    /\ turn["resume"] # None =>
         turn["resume"].provider = "codex" /\ turn["dirs"] = <<>>

\* What preflight said is what the checks say of the file system that it
\* read, and a turn that it refused goes on only where that has changed.
PreflightKept ==
  /\ preflighted = "ok" /\ pc = "ready" =>
       IF turn["provider"] = "codex"
         THEN CodexPreflight(turn, host, looks["preflight"]) = None
         ELSE ClaudePreflight(turn, host) = None
  /\ preflighted = "refused" =>
       /\ pc \notin {"planning", "running"}
       /\ pc = "ready" =>
            IF turn["provider"] = "codex"
              THEN CodexPreflight(turn, host, looks["preflight"]) # None
              ELSE ClaudePreflight(turn, host) # None
       /\ pc = "prepared" =>
            \/ ChangedBy("call")
            \/ FirstError(SkillChecks(host, looks["preflight"])) # None
       /\ pc \in {"built", "launching"} =>
            ChangedBy("call") \/ ChangedBy("build")

IInv ==
  /\ Stages
  /\ Requested
  /\ Honored
  /\ HandlesKnown
  /\ CodexPermitted
  /\ PreflightKept
  /\ HonorOrRefuse
  /\ WithinHostPolicy
  /\ PreflightSound
  /\ EffectsTruthful
  /\ SessionProven

=============================================================================
