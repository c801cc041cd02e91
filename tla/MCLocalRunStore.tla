--------------------------- MODULE MCLocalRunStore ---------------------------
(* Steps, calls and invocations on which TLC checks module LocalRunStore.  *)
EXTENDS LocalRunStore, TLC

CONSTANTS c1, c2

TwoSteps == {1, 2}
TwoCalls == {c1, c2}

\* Invocations are interchangeable, so the first call need not vary its own.
ReplayedInvocations ==
  (c1 :> {"original"}) @@ (c2 :> {"original", "changed"})

=============================================================================
