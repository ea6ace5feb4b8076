----------------------------- MODULE StepRunner -----------------------------
(***************************************************************************)
(* The step loop of execution/runner.py: StepGraphRunner.run walks the     *)
(* steps of a graph, _run_step makes the attempts of one step, and every   *)
(* transition is reported through the event sink of checkpoint_writer.py.  *)
(*                                                                         *)
(* A step is its position in the graph (step ids are ULIDs, distinct by    *)
(* construction).  A tool call, a pre- or postcondition and an operator's  *)
(* answer are nondeterministic: each may succeed or raise.  A tool call    *)
(* may also raise after it has acted on the page (typing that times out    *)
(* half way, an audit record that cannot be written).                      *)
(***************************************************************************)
EXTENDS Naturals, Sequences, FiniteSets

CONSTANTS
    N,              \* number of steps of the graph
    MaxRetries,     \* recovery_policy.max_retries of each step
    RetryAllowed,   \* steps whose allowed_actions contain RETRY
    HardSteps,      \* steps the classifier puts at HARD_APPROVAL
    Candidates      \* number of selectors _execute_step_action can try

Steps == 1..N

ASSUME GraphAssumption ==
    /\ N \in Nat
    /\ MaxRetries \in [Steps -> Nat]
    /\ RetryAllowed \subseteq Steps
    /\ HardSteps \subseteq Steps
    /\ Candidates \in [Steps -> Nat]

VARIABLES
    log,              \* rows of the events table of this run, in order
    offset,           \* ExecutionPersistence.event_offset of this process
    pc,               \* where the runner's coroutine is suspended
    start,            \* start_step_id of this run
    cur,              \* index of the step the loop is at; N+1: past the end
    attempt,          \* attempt_index
    cand,             \* index of the next selector to try
    pauseRequested,   \* the .pause marker file exists
    \* Observation only: no code reads these two.
    effects,          \* tool calls that acted on the page, for each step
    granted           \* <<step, attempt>> pairs a person approved

runnerVars == <<log, offset, pc, start, cur, attempt, cand, effects, granted>>
vars == <<log, offset, pc, start, cur, attempt, cand, effects, granted,
          pauseRequested>>

Outcomes == {"paused", "aborted", "completed"}
Stages == {"idle", "loop", "prepare", "approve", "act", "post", "failed",
           "retry", "aborting"} \cup Outcomes

StepEvents == {"step_started", "step_succeeded", "step_failed",
               "step_retried"}
RunEvents == {"run_paused", "run_resumed", "run_completed", "run_aborted"}
Ending == {"run_paused", "run_aborted", "run_completed"}
OtherEvents == {"mode_switched", "intervention_recorded"}

\* step: step_id, or payload.next_step_id of run_paused and
\* payload.start_step_id of run_resumed.  0: the event names no step.
EventRecord == [type: StepEvents \cup RunEvents \cup OtherEvents,
                step: 0..N+1, attempt: Nat]

Event(t, s, a) == [type |-> t, step |-> s, attempt |-> a]

-----------------------------------------------------------------------------
\* CheckpointWriter.emit_event: append the row and count it.
Emit(t, s, a) ==
    /\ log' = Append(log, Event(t, s, a))
    /\ offset' = offset + 1

Silent == UNCHANGED <<log, offset>>

Init ==
    /\ log = <<>>
    /\ offset = 0
    /\ pc = "idle"
    /\ start = 1
    /\ cur = 1
    /\ attempt = 0
    /\ cand = 1
    /\ pauseRequested = FALSE
    /\ effects = [s \in Steps |-> 0]
    /\ granted = {}

\* run(start_step_id): the loop skips every step before the start.  None is 1;
\* an id that names no step skips the whole graph and is N+1.
Enter(s) ==
    /\ pc = "idle"
    /\ pc' = "loop"
    /\ start' = s
    /\ cur' = s
    /\ attempt' = 0
    /\ cand' = 1
    /\ granted' = {}
    /\ UNCHANGED <<effects, pauseRequested>>

Begin(s) == Enter(s) /\ Silent

PauseWaits ==
    /\ pc = "loop" /\ cur \in Steps /\ pauseRequested
    /\ UNCHANGED vars

\* The marker is looked at before each step, never inside one.
PauseAtStep ==
    /\ pc = "loop" /\ cur \in Steps /\ pauseRequested
    /\ Emit("run_paused", cur, 0)
    /\ pc' = "paused"
    /\ UNCHANGED <<start, cur, attempt, cand, effects, granted, pauseRequested>>

StartAttempt ==
    /\ \/ pc = "loop" /\ cur \in Steps /\ ~pauseRequested /\ attempt' = 0
       \/ pc = "retry" /\ attempt' = attempt
    /\ Emit("step_started", cur, attempt')
    /\ cand' = 1
    /\ pc' = "prepare"
    /\ UNCHANGED <<start, cur, effects, granted, pauseRequested>>

\* _prepare_step_context and _evaluate_preconditions.
Prepare ==
    /\ pc = "prepare"
    /\ pc' \in {"approve", "failed"}
    /\ Silent
    /\ UNCHANGED <<start, cur, attempt, cand, effects, granted, pauseRequested>>

\* Bug variant of Approve: one approval serves all attempts of the step.
ApproveOnce ==
    /\ pc = "approve"
    /\ \/ /\ cur \notin HardSteps \/ \E a \in 0..attempt : <<cur, a>> \in granted
          /\ pc' = "act"
          /\ UNCHANGED granted
       \/ /\ cur \in HardSteps
          /\ pc' = "act"
          /\ granted' = granted \cup {<<cur, attempt>>}
    /\ Silent
    /\ UNCHANGED <<start, cur, attempt, cand, effects, pauseRequested>>

\* _enforce_action_policy: the operator is asked again on each attempt.
Approve ==
    /\ pc = "approve"
    /\ \/ cur \notin HardSteps /\ pc' = "act" /\ UNCHANGED granted
       \/ /\ cur \in HardSteps
          /\ pc' = "act"
          /\ granted' = granted \cup {<<cur, attempt>>}
       \/ cur \in HardSteps /\ pc' = "failed" /\ UNCHANGED granted
    /\ Silent
    /\ UNCHANGED <<start, cur, attempt, cand, effects, pauseRequested>>

\* Bug variant of TryCandidate: a failed selector is tried again.
TryCandidateAgain ==
    /\ pc = "act" /\ cand <= Candidates[cur]
    /\ effects' \in {effects, [effects EXCEPT ![cur] = @ + 1]}
    /\ pc' \in {"act", "post"}
    /\ Silent
    /\ UNCHANGED <<start, cur, attempt, cand, granted, pauseRequested>>

\* One pass of the candidate loop: act and return, or swallow the exception
\* (raised before or after acting) and go on to the next selector.  What is
\* counted is the call: one that uploads may act on the page several times.
TryCandidate ==
    /\ pc = "act" /\ cand <= Candidates[cur]
    /\ \/ /\ effects' = [effects EXCEPT ![cur] = @ + 1]
          /\ pc' = "post"
          /\ cand' = cand
       \/ /\ effects' \in {effects, [effects EXCEPT ![cur] = @ + 1]}
          /\ pc' = "act"
          /\ cand' = cand + 1
    /\ Silent
    /\ UNCHANGED <<start, cur, attempt, granted, pauseRequested>>

\* Bug variant of NoCandidateLeft: the loop ends without raising.
FallThrough ==
    /\ pc = "act" /\ cand > Candidates[cur]
    /\ pc' = "post"
    /\ Silent
    /\ UNCHANGED <<start, cur, attempt, cand, effects, granted, pauseRequested>>

NoCandidateLeft ==
    /\ pc = "act" /\ cand > Candidates[cur]
    /\ pc' = "failed"
    /\ Silent
    /\ UNCHANGED <<start, cur, attempt, cand, effects, granted, pauseRequested>>

\* _evaluate_postconditions raises.
PostconditionFails ==
    /\ pc = "post"
    /\ pc' = "failed"
    /\ Silent
    /\ UNCHANGED <<start, cur, attempt, cand, effects, granted, pauseRequested>>

Succeed ==
    /\ pc = "post"
    /\ Emit("step_succeeded", cur, attempt)
    /\ cur' = cur + 1
    /\ pc' = "loop"
    /\ UNCHANGED <<start, attempt, cand, effects, granted, pauseRequested>>

ShouldRetry == attempt < MaxRetries[cur] /\ cur \in RetryAllowed

Retry ==
    /\ pc = "failed" /\ ShouldRetry
    /\ Emit("step_retried", cur, attempt)
    /\ attempt' = attempt + 1
    /\ pc' = "retry"
    /\ UNCHANGED <<start, cur, cand, effects, granted, pauseRequested>>

FailStep ==
    /\ pc = "failed" /\ ~ShouldRetry
    /\ Emit("step_failed", cur, attempt)
    /\ pc' = "aborting"
    /\ UNCHANGED <<start, cur, attempt, cand, effects, granted, pauseRequested>>

Abort ==
    /\ pc = "aborting"
    /\ Emit("run_aborted", 0, 0)
    /\ pc' = "aborted"
    /\ UNCHANGED <<start, cur, attempt, cand, effects, granted, pauseRequested>>

\* Bug variant of Complete: the loop stops one step early.
CompleteEarly ==
    /\ pc = "loop" /\ cur >= N
    /\ Emit("run_completed", 0, 0)
    /\ pc' = "completed"
    /\ UNCHANGED <<start, cur, attempt, cand, effects, granted, pauseRequested>>

Complete ==
    /\ pc = "loop" /\ cur \notin Steps
    /\ Emit("run_completed", 0, 0)
    /\ pc' = "completed"
    /\ UNCHANGED <<start, cur, attempt, cand, effects, granted, pauseRequested>>

\* `agent pause` in another process creates the marker.
RequestPause ==
    /\ ~pauseRequested
    /\ pauseRequested' = TRUE
    /\ UNCHANGED runnerVars

RunnerStep ==
    \/ PauseAtStep \/ StartAttempt \/ Prepare \/ Approve \/ TryCandidate
    \/ NoCandidateLeft \/ PostconditionFails \/ Succeed \/ Retry \/ FailStep
    \/ Abort \/ Complete

Next ==
    \/ \E s \in 1..N+1 : Begin(s)
    \/ RequestPause
    \/ RunnerStep

Spec == Init /\ [][Next]_vars

\* The coroutine waits for the page or the operator, and nothing limits that:
\* typer.confirm has no timeout, nor have page.evaluate, title and count, and
\* timeout_ms may be 0, which to Playwright means none.
Waiting ==
    \/ pc \in {"prepare", "post"}
    \/ pc = "approve" /\ cur \in HardSteps
    \/ pc = "act" /\ cand <= Candidates[cur]

\* Only what the runner does between its waits is bound to happen.
FairSpec == Spec /\ WF_vars(~Waiting /\ RunnerStep)
-----------------------------------------------------------------------------
(***************************************************************************)
(* Properties of one run: the log starts empty with the run.               *)
(***************************************************************************)
Logged(t, s) == \E i \in DOMAIN log : log[i].type = t /\ log[i].step = s
RowsOf(t, s) == {i \in DOMAIN log : log[i].type = t /\ log[i].step = s}
Times(t, s) == Cardinality(RowsOf(t, s))

TypeOK ==
    /\ log \in Seq(EventRecord)
    /\ offset \in Nat
    /\ pc \in Stages
    /\ start \in 1..N+1
    /\ cur \in 1..N+1
    /\ attempt \in Nat
    /\ cand \in Nat
    /\ pauseRequested \in BOOLEAN
    /\ effects \in [Steps -> Nat]
    /\ granted \subseteq Steps \X Nat

\* A step is reported as succeeded only if some tool call acted on the page
\* for it: exhausting the selectors must never fall through to success
\* (runner.py:633-649).
SuccessMeansActed ==
    \A i \in DOMAIN log : log[i].type = "step_succeeded" =>
        log[i].step \in Steps /\ effects[log[i].step] > 0

\* A step is touched only after every step between the start step and itself
\* was reported as succeeded, so no failure, retry or skipped prefix can make
\* the run jump ahead (runner.py:133-145).
NoStepAhead ==
    \A s \in Steps :
        Logged("step_started", s) =>
            /\ s >= start
            /\ \A earlier \in start..s-1 : Logged("step_succeeded", earlier)

\* run_completed is recorded only when every step from the start step to the
\* last one was reported as succeeded (runner.py:172-181).
CompletedMeansAllSucceeded ==
    (\E i \in DOMAIN log : log[i].type = "run_completed") =>
        \A s \in start..N : Logged("step_succeeded", s)

\* However attempts fail, a step is started at most max_retries + 1 times,
\* once if RETRY is not allowed for it (runner.py:192-250).
MaxStarts(s) == IF s \in RetryAllowed THEN MaxRetries[s] + 1 ELSE 1

RetryBudget == \A s \in Steps : Times("step_started", s) <= MaxStarts(s)

\* At most one tool call per selector and attempt acts for a step.  The bound
\* is not 1: a call that raises after acting is followed by the next selector,
\* and a failed postcondition by a whole new attempt (runner.py:577-640).
EffectsBounded ==
    \A s \in Steps : effects[s] <= Candidates[s] * Times("step_started", s)

\* The event that ends a run is its last one (runner.py:146-180).
NothingAfterTheEnd ==
    \A i \in DOMAIN log :
        log[i].type \in Ending => i = Len(log)

\* A hard-risk step acts on the page only in an attempt a person approved; the
\* approval of an earlier attempt is not enough (runner.py:651-713).
ActsOnlyWhenApproved ==
    [][\A s \in HardSteps : effects'[s] # effects[s] =>
          cur = s /\ <<s, attempt>> \in granted]_vars

\* The parts of the inductive invariant behind the properties above.  Inside a
\* step, the index names one.
InStep == pc \notin {"idle", "loop", "completed"} => cur \in Steps

FreshWhenIdle == pc = "idle" => log = <<>>

\* The steps reported as succeeded are those between the start step and cur,
\* and each of them acted.
SucceededBeforeIndex ==
    /\ start <= cur
    /\ \A s \in 0..N+1 : Logged("step_succeeded", s) <=> s \in start..cur-1
    /\ \A s \in start..cur-1 : effects[s] > 0

StartedUpToIndex ==
    \A s \in 0..N+1 : Logged("step_started", s) => s \in start..cur \cap Steps

\* Only a runner that is over has recorded an outcome, as its last event, and
\* run_completed only past the last step.
EndIsLast ==
    \A i \in DOMAIN log : log[i].type \in Ending =>
        /\ i = Len(log)
        /\ pc \in Outcomes
        /\ log[i].type = "run_completed" => cur = N + 1

\* What a stage stands for: the step at hand has acted, or may act.
StageEarned ==
    /\ pc = "post" => effects[cur] > 0
    /\ pc = "act" /\ cur \in HardSteps => <<cur, attempt>> \in granted

\* The log, the loop's index and the stage of the step at hand agree at every
\* point of every run (runner.py:127-268).
RunInvariant ==
    /\ TypeOK
    /\ InStep
    /\ FreshWhenIdle
    /\ SucceededBeforeIndex
    /\ StartedUpToIndex
    /\ EndIsLast
    /\ StageEarned

\* Whatever fails, a run that was begun ends, paused, aborted or completed,
\* unless the page or the operator leaves it waiting for ever: the attempts and
\* selectors run out, and nothing but an answer it waits for can hold it up
\* (runner.py:136-268).
RunEnds == pc = "loop" ~> (pc \in Outcomes \/ []Waiting)

\* The log of the run, read as the contract RunContract states.
LastSucceeded ==
    CHOOSE d \in start-1..N :
        \A s \in Steps : Logged("step_succeeded", s) <=> s \in start..d

OutcomeInLog ==
    IF pc = "idle" THEN "none"
    ELSE IF log = <<>> THEN "going"
    ELSE CASE log[Len(log)].type = "run_paused" -> "paused"
           [] log[Len(log)].type = "run_aborted" -> "aborted"
           [] log[Len(log)].type = "run_completed" -> "completed"
           [] OTHER -> "going"

Contract == INSTANCE RunContract
                WITH first <- start, done <- LastSucceeded,
                     outcome <- OutcomeInLog

\* The event log of every run is a behaviour of RunContract.
LogFollowsContract == Contract!Spec
=============================================================================
