------------------------------- MODULE DagRun -------------------------------
(***************************************************************************)
(* What one workflow run promises its caller, with no scheduler, tokens,   *)
(* or concurrency bound: steps of a dependency graph are called at most    *)
(* once, only after everything they need has succeeded and only while the  *)
(* run is open; a run that returns has heard from every step it called.    *)
(* Module Workflow, translated from                                        *)
(* crates/tower-agent-workflow/src/execution.rs, implements it.            *)
(***************************************************************************)

CONSTANTS
  Steps,  \* the step identifiers of the definition
  Needs   \* Needs[s]: the direct dependencies of s

VARIABLES
  status, \* status[s]: what the caller may know of step s
  open,   \* no failure, deadline or cancellation has been recorded
  reply   \* "running" until the run returns or its future is dropped

vars == <<status, open, reply>>

StatusValue == {"pending", "called", "ok", "err"}
ReplyValue == {"running", "ok", "stopped", "dropped"}

Init ==
  /\ status = [s \in Steps |-> "pending"]
  /\ open = TRUE
  /\ reply = "running"

\* A step crosses the call boundary.
Call(s) ==
  /\ reply = "running"
  /\ open
  /\ status[s] = "pending"
  /\ \A d \in Needs[s] : status[d] = "ok"
  /\ status' = [status EXCEPT ![s] = "called"]
  /\ UNCHANGED <<open, reply>>

\* A called step succeeds; whether the run is still open does not matter.
Succeed(s) ==
  /\ reply = "running"
  /\ status[s] = "called"
  /\ status' = [status EXCEPT ![s] = "ok"]
  /\ UNCHANGED <<open, reply>>

\* A called step fails, or a step whose dependencies are met is refused
\* before its call. The first failure closes the run.
Fail(s) ==
  /\ reply = "running"
  /\ \/ status[s] = "called"
     \/ /\ status[s] = "pending"
        /\ \A d \in Needs[s] : status[d] = "ok"
  /\ status' = [status EXCEPT ![s] = "err"]
  /\ open' = FALSE
  /\ UNCHANGED reply

\* A deadline or a cancellation closes the run.
Close ==
  /\ reply = "running"
  /\ open
  /\ open' = FALSE
  /\ UNCHANGED <<status, reply>>

\* The run returns: every called step has settled, and it reports success
\* exactly when it was never closed, every step having succeeded.
Return ==
  /\ reply = "running"
  /\ \A s \in Steps : status[s] # "called"
  /\ open => \A s \in Steps : status[s] = "ok"
  /\ reply' = IF open THEN "ok" ELSE "stopped"
  /\ UNCHANGED <<status, open>>

\* The caller drops the future.
Drop ==
  /\ reply = "running"
  /\ reply' = "dropped"
  /\ UNCHANGED <<status, open>>

Next ==
  \/ \E s \in Steps : Call(s) \/ Succeed(s) \/ Fail(s)
  \/ Close
  \/ Return
  \/ Drop

Spec == Init /\ [][Next]_vars

=============================================================================
