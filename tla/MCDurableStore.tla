--------------------------- MODULE MCDurableStore ---------------------------
(* Processes and steps on which TLC checks module DurableStore.            *)
EXTENDS DurableStore, TLC

CONSTANTS p1, p2

OneStep == {1}
TwoSteps == {1, 2}

\* Old claims of step 2 are executed too.
FirstCareful == {1}

OneProcess == {p1}
TwoProcesses == {p1, p2}

\* Nothing is claimed of a log behind a line that was spoiled, and it stays
\* spoiled, so TLC need not go on from there.
Unspoiled == ~spoiled

\* Bounds on what both steps come to together: their calls and fences. Only
\* the first one has a deadline.
Few ==
  /\ calls[1] + calls[2] <= 2
  /\ disk.step[1].highest + disk.step[2].highest <= 3
  /\ 2 \notin expired

\* Processes are interchangeable in safety properties.
Symmetry == Permutations(TwoProcesses)

=============================================================================
