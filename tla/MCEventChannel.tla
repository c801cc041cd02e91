--------------------------- MODULE MCEventChannel ---------------------------
(* Emitters and payloads on which TLC checks module EventChannel.          *)
EXTENDS EventChannel

CONSTANTS e1, e2, e3

ThreeEmitters == {e1, e2, e3}

\* A fraction of the budget, most of it, and an oversized event that the
\* budget alone would admit.
PayloadSizes == {1, 2, 3}

=============================================================================
