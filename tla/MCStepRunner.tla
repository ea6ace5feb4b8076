---------------------------- MODULE MCStepRunner ----------------------------
(* Instances of StepRunner for TLC: a plain step, a step that is retried and *)
(* has a fallback selector, and a hard-risk step that must not be retried.   *)
EXTENDS StepRunner

MCMaxRetries == [s \in 1..3 |-> IF s = 2 THEN 2 ELSE 1]
MCRetryAllowed == {1, 2}
MCHardSteps == {2, 3}
MCCandidates == [s \in 1..3 |-> IF s = 2 THEN 2 ELSE 1]
=============================================================================
