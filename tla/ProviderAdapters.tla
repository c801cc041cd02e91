-------------------------- MODULE ProviderAdapters --------------------------
(***************************************************************************)
(* The decisions of crates/tower-agent-codex and crates/tower-agent-claude *)
(* on one turn: which check refuses it, which command the child is given,  *)
(* and which reply the end of the child becomes. PlannedTurn runs them     *)
(* interleaved with cancellation and with the child.                       *)
(*                                                                         *)
(* A reply carries what a host decides on: the kind, the phase, what is    *)
(* known about effects, and the session. Usage, cost, duration and message *)
(* texts are left out.                                                     *)
(***************************************************************************)
EXTENDS Planner, FiniteSets

\* ErrorKind and success, FailurePhase, EffectState and the "known" one of a
\* success, SessionHandle.
Kinds ==
  {"ok", "InvalidRequest", "Unsupported", "Unauthorized", "Authentication",
   "Busy", "Unavailable", "Cancelled", "DeadlineExceeded", "Limit",
   "Budget", "Provider", "Internal"}
Phases == {"Validation", "Admission", "Launch", "Running", "Settlement"}
EffectStates == {"none", "possible", "reported", "known"}
Handles == [provider : STRING, value : STRING]

\* What a host may be told.
Replies == [kind : Kinds, phase : Phases, effects : EffectStates,
            session : {None} \cup Handles]

\* None is neither a provider, nor what preflight says, nor a reply.
ASSUME NoneAssumption ==
  None \notin ProviderIds \cup {"ok", "refused"} /\ None \notin Replies

Reply(kind, phase, effects) ==
  [kind |-> kind, phase |-> phase, effects |-> effects, session |-> None]

WithSession(reply, session) == [reply EXCEPT !.session = session]

\* TurnOutcome::new
Success(session) == WithSession(Reply("ok", "Settlement", "known"), session)

\* AgentError::invalid_request, unsupported, unauthorized,
\* cancelled_before_launch, cancelled_in_flight and command_failed
InvalidRequest == Reply("InvalidRequest", "Validation", "none")
Unsupported == Reply("Unsupported", "Validation", "none")
Unauthorized == Reply("Unauthorized", "Validation", "none")
CancelledBeforeLaunch == Reply("Cancelled", "Admission", "none")
CancelledInFlight == Reply("Cancelled", "Running", "possible")
CommandFailed == Reply("Provider", "Running", "possible")
SettlementError == Reply("Provider", "Settlement", "possible")
HostMisconfigured == Reply("Internal", "Launch", "none")
SchemaFileError == Reply("Internal", "Launch", "none")

(***************************************************************************)
(* The host: a router and two configured services, in one record           *)
(***************************************************************************)

\* CodexService::new and ClaudeService::new, which share the policy for the
\* environment, the configuration directory and the executable here.
NewCodex == [ceiling |-> ReadOnly, automation |-> FALSE, skills |-> "inherit"]
NewClaude == [ambient |-> "inherit"]

\* RoutedTurnService::new, with_claude and with_codex
Routed(providers) == [registered |-> providers]

\* with_authority_policy, with_ambient_context_policy, with_skill_policy,
\* with_child_environment_policy, with_codex_home, with_binary
Configured(host, setting, value) == [host EXCEPT ![setting] = value]

(***************************************************************************)
(* Checks, in the order of the code: the first one that fails is the reply *)
(***************************************************************************)

Check(fails, error) == [fails |-> fails, error |-> error]

FirstError(checks) ==
  LET First(i) == /\ checks[i].fails
                  /\ \A j \in DOMAIN checks : j < i => ~checks[j].fails
  IN IF \E i \in DOMAIN checks : checks[i].fails
       THEN checks[CHOOSE i \in DOMAIN checks : First(i)].error
       ELSE None

\* attach_preassigned_session: the host's handle replaces what the error had.
Attach(reply, assigned) ==
  IF assigned = None THEN reply ELSE WithSession(reply, assigned)

Attached(checks, assigned) ==
  [i \in DOMAIN checks |->
     Check(checks[i].fails, Attach(checks[i].error, assigned))]

(***************************************************************************)
(* Codex: authority, request and host checks                               *)
(***************************************************************************)

\* The explicit roots of a turn, in the order in which they are authorized.
Roots(turn) ==
  (IF turn["cwd"] = None THEN <<>> ELSE <<turn["cwd"]>>) \o turn["dirs"]

\* AuthorityPolicy::authorize. The file system says what a path names: a
\* directory below a root that the host allows ("inside"), a directory
\* elsewhere ("outside"), or nothing ("dangling").
Authorize(turn, host, files) ==
  LET requested == turn["filesystem"]
      root(path) == Check(files[path] # "inside",
                          IF files[path] = "dangling" THEN InvalidRequest
                                                      ELSE Unauthorized)
      roots == Roots(turn)
  IN <<Check(~(requested <= host.ceiling), Unauthorized)>>
       \o (IF requested # WorkspaceWrite THEN <<>>
           ELSE [i \in DOMAIN roots |-> root(roots[i])])

\* preflight_turn and validate_output_schema
CodexChecks(turn, host, files) ==
  LET resume == turn["resume"]
      resumed == resume # None
  IN Authorize(turn, host, files) \o
     << Check(turn["prompt"] = "blank", InvalidRequest),
        Check(turn["model"] = "blank", InvalidRequest),
        Check(resumed /\ resume.provider # "codex", Unsupported),
        Check(resumed /\ resume.value \in {"blank", "hyphen"},
              InvalidRequest),
        Check(resumed /\ turn["dirs"] # <<>>, Unsupported),
        Check(Contains(turn["dirs"], "nonutf8"), Unsupported),
        Check(turn["codex.schema"] \in {"oversized", "invalid"},
              InvalidRequest) >>

\* render_skill_config: more than the limits allow, or a path that does not
\* name a skill folder. The policy "inherit" lists no path.
SkillChecks(host, files) ==
  << Check(host.skills = "excessive", HostMisconfigured),
     Check(/\ host.skills \notin {"inherit", "excessive"}
           /\ files[host.skills] # "skill", HostMisconfigured) >>

(***************************************************************************)
(* Claude: session, host session and option checks                         *)
(***************************************************************************)

\* preflight_session
ClaudeSessionChecks(turn) ==
  LET resume == turn["resume"]
  IN << Check(turn["prompt"] = "blank", InvalidRequest),
        Check(resume # None /\ resume.provider # "claude", Unsupported),
        Check(resume # None /\ resume.value \in {"blank", "hyphen"},
              InvalidRequest) >>

\* validate_preassigned_session: "uuid" is a canonical one.
PreassignedChecks(turn, assigned) ==
  IF assigned = None THEN <<>>
  ELSE << Check(turn["resume"] # None, InvalidRequest),
          Check(assigned.provider # "claude", Unsupported),
          Check(assigned.value # "uuid", InvalidRequest) >>

Hermetic == {"hermetic-project", "hermetic-full"}

\* Mutant: the turn's mode replaces the host's.
EffectiveAmbientOfTurn(host, requested) == requested

\* effective_ambient_context; None is a conflict.
EffectiveAmbient(host, requested) ==
  CASE host = "inherit" -> requested
    [] host # "inherit" /\ requested \in {"inherit", host} -> host
    [] {host, requested} = Hermetic -> "hermetic-full"
    [] OTHER -> None

\* effective_ambient_context, then the checks of build_query and
\* validate_json_schema
ClaudeOptionChecks(turn, host) ==
  << Check(EffectiveAmbient(host.ambient, turn["claude.ambient"]) = None,
           InvalidRequest),
     Check(turn["model"] = "blank", InvalidRequest),
     Check(turn["claude.max_turns"] = 0, InvalidRequest),
     Check(turn["claude.tools"] = "blank", InvalidRequest),
     Check(turn["claude.budget"] = "nonpositive", InvalidRequest),
     Check(turn["claude.fallback"] = "blank", InvalidRequest),
     Check(turn["claude.schema"] \in {"oversized", "invalid"},
           InvalidRequest),
     Check(Contains(turn["dirs"], "nonutf8"), InvalidRequest) >>

(***************************************************************************)
(* The child's environment and command                                     *)
(***************************************************************************)

\* The environment of the worker process.
WorkerEnvironment ==
  ("PATH" :> "host") @@ ("SECRET" :> "host") @@ ("RAW" :> "nonunicode")

\* ChildEnvironmentPolicy::resolve, its errors.
EnvironmentInvalid(policy) ==
  \/ "" \in policy.allow \cup DOMAIN policy.explicit
  \/ \E key \in DOMAIN policy.explicit : policy.explicit[key] = "nul"
  \/ /\ policy.clear
     /\ \E key \in policy.allow \cap DOMAIN WorkerEnvironment :
          WorkerEnvironment[key] = "nonunicode"

\* ChildEnvironmentPolicy::resolve, as the child sees it: over the worker's
\* environment, or over an empty one with what is allowed by name.
ResolvedEnvironment(policy) ==
  LET kept == IF policy.clear THEN policy.allow \cap DOMAIN WorkerEnvironment
              ELSE DOMAIN WorkerEnvironment
  IN [key \in DOMAIN policy.explicit \cup kept |->
        IF key \in DOMAIN policy.explicit THEN policy.explicit[key]
                                          ELSE WorkerEnvironment[key]]

\* The service's configuration directory comes last (CODEX_HOME and
\* CLAUDE_CONFIG_DIR).
ChildEnvironment(host) ==
  LET resolved == ResolvedEnvironment(host.environment)
  IN IF host.config = None THEN resolved
     ELSE [key \in DOMAIN resolved \cup {"CONFIG"} |->
             IF key = "CONFIG" THEN host.config ELSE resolved[key]]

\* build_codex and build_claude: the environment, the configuration
\* directory, and the executable.
LaunchChecks(host) ==
  << Check(EnvironmentInvalid(host.environment), HostMisconfigured),
     Check(host.config = "nonutf8", HostMisconfigured),
     Check(host.binary = "missing", Reply("Provider", "Launch", "none")) >>

\* What fresh_command and resume_command, under build_codex, say of a turn: a
\* resumed command has no way to add a directory.
CodexFlags(turn) ==
  {"cwd", "prompt", "model", "codex.system_prompt", "codex.schema",
   "codex.ephemeral"} \cup IF turn["resume"] = None THEN {"dirs"} ELSE {}

\* fresh_command and resume_command: what the Codex child is told. Both
\* enforce the sandbox.
CodexCommand(turn, host) ==
  [provider |-> "codex",
   options |-> [path \in CodexFlags(turn) |-> turn[path]],
   resume |-> turn["resume"], assigned |-> None,
   sandbox |-> turn["filesystem"], ambient |-> host.automation,
   skills |-> host.skills, environment |-> ChildEnvironment(host)]

\* What build_query, under build_claude, says of a turn.
ClaudeFlags ==
  {"cwd", "prompt", "model", "dirs", "claude.effort", "claude.max_turns",
   "claude.tools", "claude.budget", "claude.fallback", "claude.schema"}

\* build_query: what the Claude child is told. A fresh one is given the
\* session id that the host assigned.
ClaudeCommand(turn, host, assigned) ==
  [provider |-> "claude",
   options |-> [path \in ClaudeFlags |-> turn[path]],
   resume |-> turn["resume"],
   assigned |-> IF turn["resume"] # None THEN None ELSE assigned,
   sandbox |-> None,
   ambient |-> EffectiveAmbient(host.ambient, turn["claude.ambient"]),
   skills |-> None, environment |-> ChildEnvironment(host)]

(***************************************************************************)
(* Refusals before the child exists                                        *)
(***************************************************************************)

\* CodexService::preflight
CodexPreflight(turn, host, files) ==
  FirstError(CodexChecks(turn, host, files) \o SkillChecks(host, files))

\* Mutant: preflight leaves the options to the call.
ClaudePreflightWithoutOptions(turn, host) ==
  FirstError(ClaudeSessionChecks(turn))

\* ClaudeService::preflight
ClaudePreflight(turn, host) ==
  FirstError(ClaudeSessionChecks(turn) \o ClaudeOptionChecks(turn, host))

\* The synchronous part of CodexService::call
CodexCallRefusal(turn, host, files, assigned, cancelled) ==
  FirstError(<<Check(assigned # None, Unsupported),
               Check(cancelled, CancelledBeforeLaunch)>>
               \o CodexChecks(turn, host, files))

\* The first part of Codex's future, up to build_codex.
CodexBuildRefusal(host, files, cancelled) ==
  FirstError(<<Check(cancelled, CancelledBeforeLaunch)>>
               \o SkillChecks(host, files) \o LaunchChecks(host))

\* The synchronous part of ClaudeService::call, which builds the client.
ClaudeCallRefusal(turn, host, assigned, cancelled) ==
  FirstError(<<Check(cancelled, CancelledBeforeLaunch)>>
               \o ClaudeSessionChecks(turn)
               \o PreassignedChecks(turn, assigned)
               \o Attached(ClaudeOptionChecks(turn, host)
                             \o LaunchChecks(host), assigned))

(***************************************************************************)
(* Codex: from the end of the child to the reply                           *)
(***************************************************************************)

\* map_run_error, except for a command that failed.
CodexErrors ==
  [NotFound |-> Reply("Provider", "Launch", "none"),
   SpawnFailed |-> Reply("Provider", "Launch", "none"),
   VersionMismatch |-> Reply("Unsupported", "Launch", "none"),
   UntestedCliVersion |-> Reply("Unsupported", "Launch", "none"),
   InvalidRolloutBudget |-> InvalidRequest,
   DangerousNotAllowed |-> Unauthorized,
   Config |-> Reply("Provider", "Validation", "none"),
   NotTrustedDirectory |-> Unauthorized,
   SessionNotFound |-> InvalidRequest,
   Io |-> Reply("Provider", "Running", "possible"),
   Timeout |-> Reply("DeadlineExceeded", "Running", "possible"),
   OutputLimitExceeded |-> Reply("Limit", "Running", "possible"),
   Cancelled |-> CancelledInFlight,
   Auth |-> Reply("Authentication", "Running", "possible"),
   Json |-> SettlementError,
   TokenBudgetExceeded |-> Reply("Budget", "Running", "possible"),
   Other |-> Reply("Provider", "Running", "possible")]

Terminal(event) == event.type \in {"completed", "failed"}

\* validate_terminal_events: exactly one terminal event, and it is the last.
HasOneTerminal(events) ==
  /\ events # <<>>
  /\ \A i \in DOMAIN events : Terminal(events[i]) <=> i = Len(events)

\* Mutant: every failed turn is one that did nothing.
ClassifyTerminalFailureHarmless(failure, session) ==
  WithSession(Reply("Provider", "Validation", "none"), session)

\* classify_terminal_failure
ClassifyTerminalFailure(failure, session) ==
  CASE failure = "ApiRequestRejected" -> InvalidRequest
    [] failure = "RolloutBudgetExhausted" ->
         WithSession(Reply("Budget", "Running", "possible"), session)
    [] OTHER -> WithSession(Reply("Provider", "Running", "possible"), session)

\* The identifiers that the stream and the result report for one kind of
\* handle ("thread" or "session").
Reported(events, result, type) ==
  {events[i].value : i \in {j \in DOMAIN events : events[j].type = type}}
    \cup ({result[type]} \ {None})

\* consistent_provider_handle: one identifier at most, which is usable. Of
\* several it does not matter which one is met first.
Consistent(values) ==
  \A v, w \in values : v = w /\ v \notin {"blank", "hyphen"}

\* validated_result_session: a thread before a session before the handle
\* that the turn resumed; nothing for an ephemeral turn.
ResultSession(thread, session, prior, ephemeral) ==
  LET only(values) == CHOOSE v \in values : TRUE
  IN CASE ephemeral -> None
       [] ~ephemeral /\ thread # {} -> Session("codex", only(thread))
       [] ~ephemeral /\ thread = {} /\ session # {} ->
            Session("codex", only(session))
       [] OTHER -> prior

\* settle_outcome
SettleOutcome(result, prepared) ==
  LET events == result.events
      thread == Reported(events, result, "thread")
      session == Reported(events, result, "session")
      handle == ResultSession(thread, session,
                              prepared.prior, prepared.ephemeral)
      last == Last(events)
  IN CASE \/ ~HasOneTerminal(events)
          \/ ~Consistent(thread)
          \/ ~Consistent(session) -> SettlementError
       [] OTHER -> IF last.type = "completed" THEN Success(handle)
                   ELSE ClassifyTerminalFailure(last.value, handle)

\* Mutant: the stream of a command that failed is not read.
CommandFailureUnread(events) == CommandFailed

\* terminal_failure_from_stream: a failed turn ends its command with a
\* nonzero exit code, so its class is read from the stream. No session is
\* advertised from here.
CommandFailure(events) ==
  IF HasOneTerminal(events) /\ Last(events).type = "failed"
    THEN ClassifyTerminalFailure(Last(events).value, None)
    ELSE CommandFailed

CodexReply(outcome, prepared) ==
  CASE outcome.tag = "result" -> SettleOutcome(outcome, prepared)
    [] outcome.tag = "CommandFailed" -> CommandFailure(outcome.events)
    [] OTHER -> CodexErrors[outcome.tag]

(***************************************************************************)
(* Claude: from the end of the child to the reply                          *)
(***************************************************************************)

\* map_wrapper_error and map_other_wrapper_error
ClaudeErrors ==
  [NotFound |-> Reply("Provider", "Launch", "none"),
   SpawnFailed |-> Reply("Provider", "Launch", "none"),
   VersionMismatch |-> Reply("Unsupported", "Launch", "none"),
   BudgetExceeded |-> Reply("Budget", "Admission", "none"),
   MaxTurnsExceeded |-> Reply("Limit", "Running", "possible"),
   MaxBudgetExceeded |-> Reply("Budget", "Running", "possible"),
   Io |-> Reply("Provider", "Running", "possible"),
   Timeout |-> Reply("DeadlineExceeded", "Running", "possible"),
   OutputLimitExceeded |-> Reply("Limit", "Running", "possible"),
   Cancelled |-> CancelledInFlight,
   Auth |-> Reply("Authentication", "Running", "possible"),
   RateLimit |-> Reply("Limit", "Running", "possible"),
   CommandFailed |-> CommandFailed,
   Json |-> SettlementError,
   Other |-> Reply("Provider", "Running", "possible")]

\* rail_stop_error: the CLI stopped at a limit and named its session.
RailStops == {"MaxTurnsExceeded", "MaxBudgetExceeded"}

ClaudeHandle(value) == IF value = None THEN None ELSE Session("claude", value)

\* map_query_error: the limit that the result names.
QueryErrorKind(subtype) ==
  CASE subtype = "error_max_turns" -> "Limit"
    [] subtype = "error_max_budget_usd" -> "Budget"
    [] OTHER -> "Provider"

\* Mutant: the session of the result wins over the host's.
ClaudeResultReplyAdopts(result, prepared) ==
  IF result.is_error
    THEN WithSession(Reply(QueryErrorKind(result.subtype), "Running",
                           "possible"), ClaudeHandle(result.session))
    ELSE Success(ClaudeHandle(result.session))

\* run, once the query has a result, with structured_output
ClaudeResultReply(result, prepared) ==
  LET assigned == prepared.assigned
      reported == ClaudeHandle(result.session)
      handle == CASE assigned # None -> assigned
                  [] assigned = None /\ reported # None -> reported
                  [] OTHER -> prepared.prior
  IN CASE /\ assigned # None
          /\ reported \notin {None, assigned} -> SettlementError
       [] /\ assigned = None \/ reported \in {None, assigned}
          /\ result.is_error ->
            WithSession(Reply(QueryErrorKind(result.subtype), "Running",
                              "possible"),
                        IF assigned # None THEN assigned ELSE reported)
       [] OTHER ->
            IF prepared.structured /\ ~result.structured
              THEN SettlementError
              ELSE Success(handle)

ClaudeReply(outcome, prepared) ==
  IF outcome.tag = "result" THEN ClaudeResultReply(outcome, prepared)
  ELSE Attach(IF outcome.tag \in RailStops
                THEN WithSession(ClaudeErrors[outcome.tag],
                                 ClaudeHandle(outcome.session))
                ELSE ClaudeErrors[outcome.tag],
              prepared.assigned)

=============================================================================
