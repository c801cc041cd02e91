----------------------------- MODULE MCMcpTools -----------------------------
(* Two turns and a plan over a store that holds one name at a time.         *)
EXTENDS McpTools

CONSTANTS c1, c2, c3, s1, s2

ThreeCalls == {c1, c2, c3}
Tools == (c1 :> "codex") @@ (c2 :> "other") @@ (c3 :> "plan")
CallScopes == (c1 :> {s1, None}) @@ (c2 :> {s2}) @@ (c3 :> {s1, s2})
Said == {None, "text", "blank"}
Names == {None, "claude", "unknown"}
NoDefaults == Unbound
Observed == {c1}
Cancelling == {c3}

=============================================================================
