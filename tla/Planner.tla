------------------------------- MODULE Planner -------------------------------
(***************************************************************************)
(* The pure planner of crates/tower-agent-plan: layers of partial turns    *)
(* are resolved into one turn, a set of missing values or a set of         *)
(* diagnostics, and a complete turn is folded into the options of the      *)
(* provider that it is committed to.                                       *)
(*                                                                         *)
(* A PartialTurn is a function on the paths that it binds: what it is not  *)
(* defined on is unbound, and an empty list or FALSE is a value like any   *)
(* other. Nested groups merge by field, so a path is a field of a group.   *)
(* Values are classes of strings, lists and numbers, as far as a check     *)
(* tells them apart; "claude.effort" and "codex.system_prompt" stand for   *)
(* all options that are handed on without a check.                         *)
(***************************************************************************)
EXTENDS Integers, Sequences, TLC, SequencesExt

CONSTANT None

ProviderIds == {"claude", "codex"}

SharedPaths ==
  {"provider", "prompt", "model", "cwd", "dirs", "resume", "filesystem"}

\* PartialClaudeOptions and PartialCodexOptions.
ClaudePaths ==
  {"claude.effort", "claude.max_turns", "claude.tools", "claude.budget",
   "claude.fallback", "claude.schema", "claude.ambient"}
CodexPaths == {"codex.system_prompt", "codex.schema", "codex.ephemeral"}

Paths == SharedPaths \cup ClaudePaths \cup CodexPaths

\* PartialTurn::default
Unbound == [path \in {} |-> None]

Bound(turn, path) == path \in DOMAIN turn

BoundTo(turn, path, value) == Bound(turn, path) /\ turn[path] = value

\* FilesystemAuthority, in its order.
ReadOnly == 0
WorkspaceWrite == 1
FullAccess == 2

Session(provider, value) == [provider |-> provider, value |-> value]

(***************************************************************************)
(* Merging                                                                 *)
(***************************************************************************)

\* PartialTurn::merge_from: what the higher layer binds replaces the rest.
Merge(turn, layer) ==
  [path \in DOMAIN turn \cup DOMAIN layer |->
     IF Bound(layer, path) THEN layer[path] ELSE turn[path]]

\* The layers above the provider's baseline.
Upper(layers) ==
  Merge(Merge(layers.defaults, layers.profile), layers.explicit)

\* What an answer may be about, and one that can be bound.
Askable == {"provider", "prompt"}

Usable(answer) ==
  answer.id \in Askable /\ (answer.id = "provider" => answer.value \in ProviderIds)

\* The answers to a path that can be bound, and the first of them.
UsableFor(answers, path) ==
  {i \in DOMAIN answers : answers[i].id = path /\ Usable(answers[i])}

Least(S) == CHOOSE i \in S : \A j \in S : i <= j

AnswerTo(answers, path) == answers[Least(UsableFor(answers, path))].value

\* The provider that decides about the baseline: one that a layer selects,
\* or else the first answer that names a provider.
Selected(layers) ==
  IF Bound(Upper(layers), "provider") THEN Upper(layers)["provider"]
  ELSE IF UsableFor(layers.answers, "provider") # {}
    THEN AnswerTo(layers.answers, "provider")
  ELSE None

\* The baseline of the selected provider, without its provider field.
Baseline(layers) ==
  IF Selected(layers) = None THEN Unbound
  ELSE LET own == layers.baseline[Selected(layers)]
       IN [path \in DOMAIN own \ {"provider"} |-> own[path]]

(***************************************************************************)
(* Resolving                                                               *)
(***************************************************************************)

When(condition, code) == IF condition THEN {code} ELSE {}

\* The loop over the answers binds a path that is still unbound to the first
\* answer that can be bound.
Answered(turn, answers) ==
  [path \in DOMAIN turn \cup {q \in Askable : UsableFor(answers, q) # {}} |->
     IF Bound(turn, path) THEN turn[path] ELSE AnswerTo(answers, path)]

\* It reports the others: those to a path that is bound, by the layers or by
\* an earlier answer, and those that cannot be bound.
AnswerCodes(turn, answers) ==
  UNION {LET id == answers[i].id
             bound == \/ Bound(turn, id)
                      \/ \E j \in UsableFor(answers, id) : j < i
         IN When(id \notin Askable, "unknown-requirement")
              \cup When(id \in Askable /\ bound, "answer-overrides-bound-path")
              \cup When(/\ id = "provider" /\ ~bound
                        /\ answers[i].value \notin ProviderIds,
                        "invalid-provider-answer")
         : i \in DOMAIN answers}

\* A profile and the explicit request that select different providers.
LayerCodes(layers) ==
  When(/\ Bound(layers.profile, "provider")
       /\ Bound(layers.explicit, "provider")
       /\ layers.profile["provider"] # layers.explicit["provider"],
       "provider-mismatch")

\* The checks on what is bound.
ValueCodes(turn) ==
  When(BoundTo(turn, "prompt", "blank"), "blank-prompt")
    \cup When(BoundTo(turn, "model", "blank"), "blank-model")
    \cup (IF ~Bound(turn, "resume") THEN {}
          ELSE When(turn["resume"].value = "blank", "empty-resume-value")
                 \cup When(turn["resume"].value = "hyphen",
                           "hyphen-resume-value")
                 \cup When(/\ Bound(turn, "provider")
                           /\ turn["resume"].provider # turn["provider"],
                           "resume-provider-mismatch"))

\* What a caller is asked for.
Requirements(turn) == {"provider", "prompt"} \ DOMAIN turn

\* resolve: invalid values come before missing ones, and missing ones before
\* a complete turn.
Resolve(layers) ==
  LET merged == Merge(Baseline(layers), Upper(layers))
      answered == Answered(merged, layers.answers)
      codes == LayerCodes(layers) \cup AnswerCodes(merged, layers.answers)
                 \cup ValueCodes(answered)
      asks == Requirements(answered)
  IN [tag |-> IF codes # {} THEN "invalid"
              ELSE IF asks # {} THEN "missing"
              ELSE "complete",
      turn |-> answered, codes |-> codes, asks |-> asks]

(***************************************************************************)
(* Folding into a provider's turn                                          *)
(***************************************************************************)

\* The paths that a provider's options represent.
TurnPaths(provider) ==
  IF provider = "claude" THEN (SharedPaths \ {"filesystem"}) \cup ClaudePaths
                         ELSE SharedPaths \cup CodexPaths

\* ClaudeOptions::default and CodexOptions::default
ClaudeDefaults ==
  [path \in {"dirs", "claude.ambient"} |->
     IF path = "dirs" THEN <<>> ELSE "inherit"]
CodexDefaults ==
  [path \in {"dirs", "filesystem", "codex.ephemeral"} |->
     CASE path = "dirs" -> <<>>
       [] path = "filesystem" -> ReadOnly
       [] path = "codex.ephemeral" -> FALSE]

\* What an option is when nothing binds it.
DefaultOf(path) ==
  IF path \in DOMAIN ClaudeDefaults THEN ClaudeDefaults[path]
  ELSE IF path \in DOMAIN CodexDefaults THEN CodexDefaults[path]
  ELSE None

Filled(partial, paths) ==
  [path \in paths |->
     IF Bound(partial, path) THEN partial[path] ELSE DefaultOf(path)]

\* Mutant: the fold leaves out what Claude cannot represent.
ClaudeFoldCodesNone(partial) == {}

\* claude::plan: what it refuses because its turn cannot represent it, and
\* Turn<ClaudeOptions>.
ClaudeFoldCodes(partial) ==
  When(Bound(partial, "filesystem"), "unsupported-filesystem-permission")
ClaudeTurn(partial) == Filled(partial, TurnPaths("claude"))

\* codex::plan and Turn<CodexOptions>
CodexFoldCodes(partial) ==
  When(/\ Bound(partial, "resume")
       /\ Bound(partial, "dirs") /\ partial["dirs"] # <<>>,
       "resumed-additional-directories")
CodexTurn(partial) == Filled(partial, TurnPaths("codex"))

\* compile: the planner of the provider that the turn is committed to.
FoldCodes(partial) ==
  IF partial["provider"] = "claude" THEN ClaudeFoldCodes(partial)
                                    ELSE CodexFoldCodes(partial)
TurnOf(partial) ==
  IF partial["provider"] = "claude" THEN ClaudeTurn(partial)
                                    ELSE CodexTurn(partial)

\* prepare: resolve, then compile when the turn is complete. Both provider
\* features are enabled.
Prepare(layers) ==
  LET r == Resolve(layers)
  IN IF r.tag # "complete" THEN r
     ELSE IF FoldCodes(r.turn) # {}
       THEN [r EXCEPT !.tag = "invalid", !.codes = FoldCodes(r.turn)]
     ELSE [r EXCEPT !.tag = "ready"]

=============================================================================
