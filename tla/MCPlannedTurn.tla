--------------------------- MODULE MCPlannedTurn ---------------------------
(* Turns that differ from a plain one in at most two places: a binding of   *)
(* some layer, a setting of the host, or a session that the host assigned.  *)
EXTENDS PlannedTurn

Bind(at, path, value) == [at |-> at, path |-> path, value |-> value]

Binds(ats, path, values) == {Bind(at, path, value) : at \in ats,
                                                     value \in values}

LayerNames == {"defaults", "profile", "explicit"}

\* What a layer may say differently.
LayerBinds ==
  Binds(LayerNames, "provider", ProviderIds)
    \cup Binds({"claude", "codex"}, "provider", ProviderIds)
    \cup Binds({"explicit"}, "prompt", {"text", "blank"})
    \cup Binds({"codex"}, "prompt", {"baseline"})
    \cup Binds({"answers"}, "prompt", {"answer"})
    \cup Binds({"answers"}, "provider", ProviderIds \cup {"unknown"})
    \cup Binds({"answers"}, "model", {"answer"})
    \cup Binds({"profile"}, "model", {"m1"})
    \cup Binds({"explicit"}, "model", {"m2", "blank"})
    \cup Binds({"claude", "codex"}, "model", {"m3"})
    \cup Binds({"explicit"}, "cwd", {"inside", "outside", "dangling"})
    \cup Binds({"defaults"}, "dirs", {<<"inside">>})
    \cup Binds({"explicit"}, "dirs", {<<>>, <<"outside">>, <<"nonutf8">>})
    \cup Binds({"explicit"}, "resume",
               {Session("claude", "p1"), Session("codex", "p1"),
                Session("codex", "blank"), Session("claude", "hyphen")})
    \cup Binds({"defaults"}, "filesystem", {ReadOnly})
    \cup Binds({"explicit"}, "filesystem", {WorkspaceWrite, FullAccess})
    \cup Binds({"defaults", "profile"}, "codex.ephemeral", {TRUE})
    \cup Binds({"explicit"}, "codex.ephemeral", {FALSE})
    \cup Binds({"explicit"}, "codex.schema", {"valid", "invalid"})
    \cup Binds({"explicit"}, "codex.system_prompt", {"text"})
    \cup Binds({"explicit"}, "claude.schema", {"valid", "oversized"})
    \cup Binds({"explicit"}, "claude.ambient",
               {"hermetic-project", "hermetic-full", "safe"})
    \cup Binds({"explicit"}, "claude.max_turns", {0, 1})
    \cup Binds({"profile"}, "claude.tools", {"blank"})
    \cup Binds({"explicit"}, "claude.budget", {"nonpositive"})
    \cup Binds({"explicit"}, "claude.fallback", {"blank"})
    \cup Binds({"explicit"}, "claude.effort", {"high"})

Policy(clear, allow, explicit) ==
  [clear |-> clear, allow |-> allow, explicit |-> explicit]

\* What the host may configure differently.
HostBinds ==
  Binds({"host"}, "registered", {{"claude"}})
    \cup Binds({"host"}, "ceiling", {ReadOnly, FullAccess})
    \cup Binds({"host"}, "ambient", {"hermetic-project", "safe"})
    \cup Binds({"host"}, "automation", {TRUE})
    \cup Binds({"host"}, "skills", {"exact", "unusable", "excessive"})
    \cup Binds({"host"}, "environment",
               {Policy(TRUE, {"PATH"}, "TOKEN" :> "given"),
                Policy(TRUE, {"RAW"}, Unbound),
                Policy(FALSE, {}, "" :> "given")})
    \cup Binds({"host"}, "config", {"here", "nonutf8"})
    \cup Binds({"host"}, "binary", {"missing"})
    \cup Binds({"assigned"}, "session",
               {Session("claude", "uuid"), Session("claude", "UUID"),
                Session("codex", "uuid")})

PlainHost ==
  Configured(Routed(ProviderIds) @@ NewCodex @@ NewClaude
               @@ [environment |-> Policy(FALSE, {}, Unbound),
                   config |-> None, binary |-> "found"],
             "ceiling", WorkspaceWrite)

\* What directories and skill folders name, by their names and after a change.
Directories == {"inside", "outside", "dangling", "nonutf8"}
Skills == {"exact", "unusable"}

FilesWith(directory, skill) ==
  [d \in Directories |-> directory] @@ [s \in Skills |-> skill]

AsNamed ==
  [d \in {"inside", "outside", "dangling"} |-> d]
    @@ ("nonutf8" :> "inside") @@ ("exact" :> "skill")
    @@ FilesWith("dangling", "dangling")

SomeFileSystems ==
  {AsNamed, FilesWith("dangling", "dangling"), FilesWith("inside", "skill"),
   FilesWith("outside", "outside")}

Plain(explicit) ==
  [layers |-> [baseline |-> [p \in ProviderIds |-> Unbound],
               defaults |-> Unbound, profile |-> Unbound,
               explicit |-> explicit, answers |-> <<>>],
   turn |-> None, host |-> PlainHost, assigned |-> None,
   files |-> AsNamed]

Apply(scenario, bind) ==
  CASE bind.at \in LayerNames ->
         [scenario EXCEPT !.layers[bind.at] =
            Merge(@, bind.path :> bind.value)]
    [] bind.at \in ProviderIds ->
         [scenario EXCEPT !.layers.baseline[bind.at] =
            Merge(@, bind.path :> bind.value)]
    [] bind.at = "answers" ->
         [scenario EXCEPT !.layers.answers =
            Append(@, [id |-> bind.path, value |-> bind.value])]
    [] bind.at = "host" -> [scenario EXCEPT !.host =
                                Configured(@, bind.path, bind.value)]
    [] bind.at = "assigned" -> [scenario EXCEPT !.assigned = bind.value]

Varied(plain, binds) ==
  {Apply(Apply(plain, one), two) : one \in binds, two \in binds}
    \cup {Apply(plain, one) : one \in binds} \cup {plain}

Ask(provider) == ("provider" :> provider) @@ ("prompt" :> "text")

Planned ==
  Varied(Plain(Ask("claude")), LayerBinds \cup HostBinds)
    \cup Varied(Plain(Ask("codex")), LayerBinds \cup HostBinds)
    \cup Varied(Plain(Unbound), LayerBinds)

\* Turns that a host builds itself: the layers' bindings without a planner.
ByHand ==
  {[s EXCEPT !.layers = None, !.turn = TurnOf(s.layers.explicit)] :
     s \in {t \in Planned :
              /\ Bound(t.layers.explicit, "provider")
              /\ Bound(t.layers.explicit, "prompt")
              /\ t.layers = [Plain(t.layers.explicit).layers EXCEPT
                               !.explicit = t.layers.explicit]}}

AllScenarios == Planned \cup ByHand

\* Turns of Claude that name a directory.
ClaudeDirectories ==
  {s \in ByHand : s.turn["provider"] = "claude" /\ s.turn["dirs"] # <<>>}

Event(type, value) == [type |-> type, value |-> value]

StreamEvents ==
  {Event("thread", "t1"), Event("thread", "t2"), Event("thread", "hyphen"),
   Event("session", "s1"), Event("completed", None),
   Event("failed", "ApiRequestRejected"),
   Event("failed", "RolloutBudgetExhausted"), Event("failed", "Other")}

ShortStreams == UNION {[1 .. n -> StreamEvents] : n \in 0 .. 3}

=============================================================================
