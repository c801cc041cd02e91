----------------------------- MODULE MCWorkflow -----------------------------
(* The graph on which TLC checks module Workflow.                          *)
EXTENDS Workflow

\* A diamond whose root is not the first step in id order, and one
\* independent step that competes with it for capacity.
DiamondSteps == 1..5
DiamondNeeds == [s \in DiamondSteps |->
  CASE s = 1 -> {3}
    [] s = 4 -> {3}
    [] s = 2 -> {1, 4}
    [] OTHER -> {}]

=============================================================================
