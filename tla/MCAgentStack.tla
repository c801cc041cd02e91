---------------------------- MODULE MCAgentStack ----------------------------
(* Two calls that compete for one permit.                                  *)
EXTENDS AgentStack, TLC

CONSTANTS c1, c2

TwoCalls == {c1, c2}

\* The calls are interchangeable in safety properties.
Symmetry == Permutations(TwoCalls)

=============================================================================
