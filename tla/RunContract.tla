----------------------------- MODULE RunContract -----------------------------
(***************************************************************************)
(* What execution/runner.py promises to whoever reads the event log of one *)
(* run: the steps from the start step on are finished one after the other, *)
(* and the run ends once, as completed only when no step is left, as       *)
(* paused or aborted only in front of a step that is not finished.         *)
(***************************************************************************)
EXTENDS Naturals

CONSTANT N          \* number of steps of the graph

VARIABLES first,    \* the step the run started at
          done,     \* the last step reported as finished
          outcome   \* how the run stands

contractVars == <<first, done, outcome>>

TypeOK ==
    /\ first \in 1..N+1
    /\ done \in 0..N
    /\ outcome \in {"none", "going", "paused", "aborted", "completed"}

Init ==
    /\ first = 1
    /\ done = 0
    /\ outcome = "none"

Start ==
    /\ outcome = "none"
    /\ \E s \in 1..N+1 : first' = s /\ done' = s - 1
    /\ outcome' = "going"

Finish ==
    /\ outcome = "going" /\ done < N
    /\ done' = done + 1
    /\ UNCHANGED <<first, outcome>>

Stop ==
    /\ outcome = "going" /\ done < N
    /\ outcome' \in {"paused", "aborted"}
    /\ UNCHANGED <<first, done>>

Complete ==
    /\ outcome = "going" /\ done = N
    /\ outcome' = "completed"
    /\ UNCHANGED <<first, done>>

Next == Start \/ Finish \/ Stop \/ Complete

Spec == Init /\ [][Next]_contractVars
=============================================================================
