----------------------------- MODULE AtLeastOnce -----------------------------
(***************************************************************************)
(* What `agent run`, `agent pause` and `agent resume` promise together,    *)
(* whatever is killed in between: the steps of one execution are finished  *)
(* in order, a resumed process may repeat finished steps but never jumps   *)
(* over an unfinished one, and the execution is reported complete only     *)
(* when all of them are finished.                                          *)
(***************************************************************************)
EXTENDS Naturals

CONSTANT N          \* number of steps of the graph

VARIABLES prefix,   \* steps 1..prefix are finished in this execution
          over      \* the execution is reported as complete

Init == prefix = 0 /\ over = FALSE

\* A fresh `agent run` of the same run id.
Restart == prefix' = 0 /\ over' = FALSE

Finish ==
    /\ prefix < N
    /\ prefix' = prefix + 1
    /\ over' = over

Report ==
    /\ prefix = N
    /\ over' = TRUE
    /\ UNCHANGED prefix

\* `agent resume` of a complete execution.
Reopen == over' = FALSE /\ UNCHANGED prefix

Next == Restart \/ Finish \/ Report \/ Reopen

Spec == Init /\ [][Next]_<<prefix, over>>
=============================================================================
