---------------------------- MODULE MCRunSession ----------------------------
(* Instances of RunSession for TLC: three steps, the second retried once.    *)
EXTENDS RunSession

MCRetries == [s \in 1..3 |-> IF s = 2 THEN 1 ELSE 0]
MCSelectors == [s \in 1..3 |-> 1]
=============================================================================
