--------------------------- MODULE RunSessionProofs ---------------------------
(***************************************************************************)
(* Part 1, of StepRunner: for every graph, retry policy, risk              *)
(* classification and number of selectors, type correctness, the inductive *)
(* invariant RunInvariant, and from it the safety properties of a run.     *)
(* Part 2, of RunSession: one `agent run` and any number of resumes and    *)
(* kills after it never jump over an unfinished step, and together         *)
(* implement AtLeastOnce: for every graph, as long as no other process     *)
(* adds rows to the log and the log is loaded as a whole.                  *)
(* Part 3, of RunSession: for any number of `agent run`s and of rows from  *)
(* other processes, where a run goes on after it failed or was paused, and *)
(* that nothing finished is started again, as long as nothing is killed.   *)
(***************************************************************************)
EXTENDS RunSession, ListFacts, FiniteSetTheorems, TLAPS


EventTypes == StepEvents \cup RunEvents \cup OtherEvents

-----------------------------------------------------------------------------
(***************************************************************************)
(* The log.                                                                *)
(***************************************************************************)
\* Recording an event adds one row behind the rows that are there
\* (checkpoint_writer.py:63-71).
LEMMA EmitAppends ==
    ASSUME TypeOK, NEW t \in EventTypes, NEW s \in 0..N+1, NEW a \in Nat,
           Emit(t, s, a)
    PROVE  /\ log' \in Seq(EventRecord)
           /\ offset' \in Nat
           /\ Len(log') = Len(log) + 1
           /\ Len(log) \in Nat
           /\ DOMAIN log = 1..Len(log)
           /\ DOMAIN log' = 1..Len(log) + 1
           /\ \A i \in 1..Len(log) : log'[i] = log[i]
           /\ log'[Len(log) + 1] = Event(t, s, a)
<1>1. log \in Seq(EventRecord) /\ offset \in Nat
  BY DEF TypeOK
<1>2. Event(t, s, a) \in EventRecord
  BY DEF Event, EventRecord, EventTypes
<1>3. log' = Append(log, Event(t, s, a)) /\ offset' = offset + 1
  BY DEF Emit
<1> QED
  BY <1>1, <1>2, <1>3

\* What the log says after an event was recorded: what it said, and the event.
LEMMA LoggedAfterEmit ==
    ASSUME TypeOK, NEW t \in EventTypes, NEW s \in 0..N+1, NEW a \in Nat,
           Emit(t, s, a), NEW u, NEW r
    PROVE  Logged(u, r)' <=> Logged(u, r) \/ (u = t /\ r = s)
<1>1. /\ Event(t, s, a).type = t
      /\ Event(t, s, a).step = s
  BY DEF Event
<1>2. ASSUME Logged(u, r)' PROVE Logged(u, r) \/ (u = t /\ r = s)
  <2>1. PICK i \in DOMAIN log' : log'[i].type = u /\ log'[i].step = r
    BY <1>2 DEF Logged
  <2>2. CASE i = Len(log) + 1
    BY <2>1, <2>2, <1>1, EmitAppends
  <2>3. CASE i # Len(log) + 1
    <3>1. i \in DOMAIN log /\ log'[i] = log[i]
      BY <2>1, <2>3, EmitAppends
    <3> QED
      BY <3>1, <2>1 DEF Logged
  <2> QED
    BY <2>2, <2>3
<1>3. ASSUME Logged(u, r) PROVE Logged(u, r)'
  <2>1. PICK i \in DOMAIN log : log[i].type = u /\ log[i].step = r
    BY <1>3 DEF Logged
  <2>2. i \in DOMAIN log' /\ log'[i] = log[i]
    BY <2>1, EmitAppends
  <2> QED
    BY <2>1, <2>2 DEF Logged
<1>4. ASSUME u = t, r = s PROVE Logged(u, r)'
  <2>1. Len(log) + 1 \in DOMAIN log' /\ log'[Len(log) + 1] = Event(t, s, a)
    BY EmitAppends
  <2> QED
    BY <1>1, <1>4, <2>1 DEF Logged
<1> QED
  BY <1>2, <1>3, <1>4

-----------------------------------------------------------------------------
(***************************************************************************)
(* Type correctness.  TypeOK is not inductive: Succeed leaves 1..N+1 when  *)
(* the runner is inside a step but cur names none.                         *)
(***************************************************************************)
LEMMA InitType == Init => TypeOK /\ InStep
<1> SUFFICES ASSUME Init PROVE TypeOK /\ InStep
  OBVIOUS
<1>1. <<>> \in Seq(EventRecord)
  OBVIOUS
<1>2. effects \in [Steps -> Nat] /\ granted \subseteq Steps \X Nat
  BY DEF Init
<1>3. 1 \in 1..N+1 /\ N \in Nat
  BY GraphAssumption DEF GraphAssumption
<1> QED
  BY <1>1, <1>2, <1>3 DEF Init, TypeOK, InStep, Stages, Outcomes

\* What an action that records an event does to the log, for TypeOK.
LEMMA EmitType ==
    ASSUME TypeOK, NEW t \in EventTypes, NEW a \in Nat,
           NEW s \in 0..N+1, Emit(t, s, a)
    PROVE  log' \in Seq(EventRecord) /\ offset' \in Nat
BY EmitAppends

\* Every step keeps the types and the stage of the step at hand.
LEMMA NextType == TypeOK /\ InStep /\ [Next]_vars => TypeOK' /\ InStep'
<1> SUFFICES ASSUME TypeOK, InStep, [Next]_vars PROVE TypeOK' /\ InStep'
  OBVIOUS
<1> USE GraphAssumption DEF GraphAssumption
<1>0. /\ cur \in 0..N+1 /\ 0 \in 0..N+1 /\ attempt \in Nat /\ 0 \in Nat
      /\ StepEvents \cup RunEvents \subseteq EventTypes
  BY DEF TypeOK, EventTypes
<1>1. CASE UNCHANGED vars
  BY <1>1 DEF vars, TypeOK, InStep
<1>2. ASSUME NEW s \in 1..N+1, Begin(s) PROVE TypeOK' /\ InStep'
  BY <1>2 DEF Begin, Enter, Silent, TypeOK, InStep, Stages, Outcomes
<1>3. CASE RequestPause
  BY <1>3 DEF RequestPause, runnerVars, TypeOK, InStep
<1>4. CASE PauseAtStep
  <2>1. log' \in Seq(EventRecord) /\ offset' \in Nat
    BY <1>0, <1>4, EmitType DEF PauseAtStep, RunEvents
  <2> QED
    BY <1>4, <2>1 DEF PauseAtStep, TypeOK, InStep, Stages, Outcomes
<1>5. CASE StartAttempt
  <2>1. attempt' \in Nat /\ cur \in Steps
    BY <1>5 DEF TypeOK, InStep, StartAttempt
  <2>2. log' \in Seq(EventRecord) /\ offset' \in Nat
    BY <1>0, <1>5, <2>1, EmitType DEF StartAttempt, StepEvents
  <2> QED
    BY <1>5, <2>1, <2>2 DEF StartAttempt, TypeOK, InStep, Stages, Outcomes
<1>6. CASE Prepare
  BY <1>6 DEF Prepare, Silent, TypeOK, InStep, Stages, Outcomes
<1>7. CASE Approve
  BY <1>7 DEF Approve, Silent, TypeOK, InStep, Stages, Outcomes
<1>8. CASE TryCandidate
  <2>1. [effects EXCEPT ![cur] = @ + 1] \in [Steps -> Nat]
    <3>1. cur \in Steps /\ effects \in [Steps -> Nat]
      BY <1>8 DEF TryCandidate, TypeOK, InStep
    <3>2. effects[cur] + 1 \in Nat
      BY <3>1
    <3> QED
      BY <3>1, <3>2
  <2>2. effects' \in [Steps -> Nat]
    BY <1>8, <2>1 DEF TryCandidate, TypeOK
  <2>3. pc' \in {"act", "post"} /\ cand' \in Nat /\ cur \in Steps
    BY <1>8 DEF TryCandidate, TypeOK, InStep
  <2> QED
    BY <1>8, <2>2, <2>3
    DEF TryCandidate, Silent, TypeOK, InStep, Stages, Outcomes
<1>9. CASE NoCandidateLeft
  BY <1>9 DEF NoCandidateLeft, Silent, TypeOK, InStep, Stages, Outcomes
<1>10. CASE PostconditionFails
  BY <1>10 DEF PostconditionFails, Silent, TypeOK, InStep, Stages, Outcomes
<1>11. CASE Succeed
  <2>1. log' \in Seq(EventRecord) /\ offset' \in Nat
    BY <1>0, <1>11, EmitType DEF Succeed, StepEvents
  <2>2. cur + 1 \in 1..N+1
    BY <1>11 DEF Succeed, InStep, Steps
  <2> QED
    BY <1>11, <2>1, <2>2 DEF Succeed, TypeOK, InStep, Stages, Outcomes
<1>12. CASE Retry
  <2>1. log' \in Seq(EventRecord) /\ offset' \in Nat
    BY <1>0, <1>12, EmitType DEF Retry, StepEvents
  <2> QED
    BY <1>12, <2>1 DEF Retry, TypeOK, InStep, Stages, Outcomes
<1>13. CASE FailStep
  <2>1. log' \in Seq(EventRecord) /\ offset' \in Nat
    BY <1>0, <1>13, EmitType DEF FailStep, StepEvents
  <2> QED
    BY <1>13, <2>1 DEF FailStep, TypeOK, InStep, Stages, Outcomes
<1>14. CASE Abort
  <2>1. log' \in Seq(EventRecord) /\ offset' \in Nat
    BY <1>0, <1>14, EmitType DEF Abort, RunEvents
  <2> QED
    BY <1>14, <2>1 DEF Abort, TypeOK, InStep, Stages, Outcomes
<1>15. CASE Complete
  <2>1. log' \in Seq(EventRecord) /\ offset' \in Nat
    BY <1>0, <1>15, EmitType DEF Complete, RunEvents
  <2> QED
    BY <1>15, <2>1 DEF Complete, TypeOK, InStep, Stages, Outcomes
<1> QED
  BY <1>1, <1>2, <1>3, <1>4, <1>5, <1>6, <1>7, <1>8, <1>9, <1>10, <1>11,
     <1>12, <1>13, <1>14, <1>15
  DEF Next, RunnerStep

\* Every variable of a run keeps its type, for every graph: in particular the
\* index never leaves the graph by more than one (runner.py:133-181).
THEOREM TypeCorrect == Spec => []TypeOK
BY InitType, NextType, PTL DEF Spec

-----------------------------------------------------------------------------
(***************************************************************************)
(* The inductive invariant.                                                *)
(***************************************************************************)
\* A runner that is not over has recorded no outcome, so after the next event
\* only that event can be one.
LEMMA EndingAfterEmit ==
    ASSUME TypeOK, EndIsLast, pc \notin Outcomes,
           NEW t \in EventTypes, NEW s \in 0..N+1, NEW a \in Nat, Emit(t, s, a),
           NEW i \in DOMAIN log', log'[i].type \in Ending
    PROVE  i = Len(log') /\ log'[i].type = t
<1>0. /\ Len(log') = Len(log) + 1
      /\ log'[Len(log) + 1] = Event(t, s, a)
      /\ Event(t, s, a).type = t
  BY EmitAppends DEF Event
<1>1. CASE i = Len(log) + 1
  BY <1>0, <1>1
<1>2. CASE i # Len(log) + 1
  <2>1. i \in DOMAIN log /\ log'[i] = log[i]
    BY <1>2, EmitAppends
  <2> QED
    BY <2>1 DEF EndIsLast
<1> QED
  BY <1>1, <1>2

\* An event that is not an outcome leaves EndIsLast true.
LEMMA EndIsLastKept ==
    ASSUME TypeOK, EndIsLast, pc \notin Outcomes,
           NEW t \in EventTypes \ Ending, NEW s \in 0..N+1, NEW a \in Nat,
           Emit(t, s, a)
    PROVE  EndIsLast'
BY EndingAfterEmit DEF EndIsLast

\* The invariant holds before the run starts.
LEMMA InitInvariant == Init => RunInvariant
<1> SUFFICES ASSUME Init PROVE RunInvariant
  OBVIOUS
<1> USE GraphAssumption DEF GraphAssumption
<1>1. TypeOK /\ InStep
  BY InitType
<1>2. DOMAIN log = {} /\ start = 1 /\ cur = 1 /\ pc = "idle"
  BY DEF Init
<1>3. \A t, s : ~Logged(t, s)
  BY <1>2 DEF Logged
<1>4. SucceededBeforeIndex /\ StartedUpToIndex /\ FreshWhenIdle
  BY <1>2, <1>3 DEF Init, FreshWhenIdle, SucceededBeforeIndex, StartedUpToIndex
<1>5. EndIsLast /\ StageEarned
  BY <1>2 DEF EndIsLast, StageEarned
<1> QED
  BY <1>1, <1>4, <1>5 DEF RunInvariant

\* A step that records nothing and leaves the index and the stage's meaning
\* alone keeps the parts that speak of the log.
LEMMA SilentKeeps ==
    ASSUME SucceededBeforeIndex, StartedUpToIndex, EndIsLast,
           pc \notin Outcomes, Silent, UNCHANGED <<start, cur>>,
           \A s \in start..cur-1 : effects'[s] >= effects[s],
           \A s \in start..cur-1 : effects'[s] \in Nat /\ effects[s] \in Nat
    PROVE  SucceededBeforeIndex' /\ StartedUpToIndex' /\ EndIsLast'
<1>1. \A t, s : Logged(t, s)' <=> Logged(t, s)
  BY DEF Logged, Silent
<1>2. SucceededBeforeIndex'
  BY <1>1 DEF SucceededBeforeIndex
<1>3. StartedUpToIndex'
  BY <1>1 DEF StartedUpToIndex
<1>4. EndIsLast'
  BY DEF EndIsLast, Silent
<1> QED
  BY <1>2, <1>3, <1>4

\* An event other than step_succeeded and step_started, without a move of the
\* index, keeps the parts that speak of those two.
LEMMA OtherEventKeeps ==
    ASSUME TypeOK, SucceededBeforeIndex, StartedUpToIndex,
           NEW t \in EventTypes \ {"step_succeeded", "step_started"},
           NEW s \in 0..N+1, NEW a \in Nat, Emit(t, s, a),
           UNCHANGED <<start, cur, effects>>
    PROVE  SucceededBeforeIndex' /\ StartedUpToIndex'
<1>1. \A r : Logged("step_succeeded", r)' <=> Logged("step_succeeded", r)
  BY LoggedAfterEmit
<1>2. \A r : Logged("step_started", r)' <=> Logged("step_started", r)
  BY LoggedAfterEmit
<1> QED
  BY <1>1, <1>2 DEF SucceededBeforeIndex, StartedUpToIndex

\* Every step keeps the invariant.
LEMMA NextInvariant == RunInvariant /\ [Next]_vars => RunInvariant'
<1> SUFFICES ASSUME RunInvariant, [Next]_vars PROVE RunInvariant'
  OBVIOUS
<1> USE GraphAssumption DEF GraphAssumption, RunInvariant
<1>0. TypeOK' /\ InStep'
  BY NextType
<1>a. /\ cur \in 1..N+1 /\ cur \in 0..N+1 /\ 0 \in 0..N+1
      /\ start \in 1..N+1 /\ attempt \in Nat /\ 0 \in Nat
      /\ effects \in [Steps -> Nat]
      /\ StepEvents \cup RunEvents \subseteq EventTypes
  BY DEF TypeOK, EventTypes
<1>b. \A s \in start..cur-1 : s \in Steps /\ effects[s] \in Nat
  BY <1>a DEF Steps
<1>c. ASSUME pc \notin Outcomes \cup {"idle"}, pc' # "idle", Silent,
             UNCHANGED <<start, cur, effects>>, StageEarned'
      PROVE  RunInvariant'
  BY <1>0, <1>b, <1>c, SilentKeeps DEF FreshWhenIdle
<1>d. ASSUME NEW t \in EventTypes \ {"step_succeeded", "step_started"},
             NEW s \in 0..N+1, NEW a \in Nat, Emit(t, s, a),
             UNCHANGED <<start, cur, effects>>,
             pc' \notin {"idle", "act", "post"}, EndIsLast'
      PROVE  RunInvariant'
  <2>1. SucceededBeforeIndex' /\ StartedUpToIndex'
    BY <1>d, OtherEventKeeps
  <2> QED
    BY <1>0, <1>d, <2>1 DEF FreshWhenIdle, StageEarned
<1>1. CASE UNCHANGED vars
  <2>1. \A t, s : Logged(t, s)' <=> Logged(t, s)
    BY <1>1 DEF Logged, vars
  <2> QED
    BY <1>0, <1>1, <2>1
    DEF vars, FreshWhenIdle, SucceededBeforeIndex, StartedUpToIndex, EndIsLast,
        StageEarned
<1>2. ASSUME NEW s \in 1..N+1, Begin(s) PROVE RunInvariant'
  <2>1. log' = <<>> /\ start' = s /\ cur' = s /\ pc' = "loop"
    BY <1>2 DEF Begin, Enter, Silent, FreshWhenIdle
  <2>2. DOMAIN log' = {}
    BY <2>1
  <2>3. \A t, r : ~Logged(t, r)'
    BY <2>2 DEF Logged
  <2>4. SucceededBeforeIndex' /\ StartedUpToIndex'
    BY <2>1, <2>3 DEF SucceededBeforeIndex, StartedUpToIndex
  <2>5. EndIsLast' /\ StageEarned' /\ FreshWhenIdle'
    BY <2>1, <2>2 DEF EndIsLast, StageEarned, FreshWhenIdle
  <2> QED
    BY <1>0, <2>4, <2>5
<1>3. CASE RequestPause
  <2>1. UNCHANGED runnerVars
    BY <1>3 DEF RequestPause
  <2>2. \A t, s : Logged(t, s)' <=> Logged(t, s)
    BY <2>1 DEF Logged, runnerVars
  <2> QED
    BY <1>0, <2>1, <2>2
    DEF runnerVars, FreshWhenIdle, SucceededBeforeIndex, StartedUpToIndex,
        EndIsLast, StageEarned
<1>4. CASE PauseAtStep
  <2>1. /\ Emit("run_paused", cur, 0)
        /\ pc = "loop" /\ pc' = "paused"
        /\ UNCHANGED <<start, cur, effects>>
    BY <1>4 DEF PauseAtStep
  <2>2. EndIsLast'
    BY <1>a, <2>1, EndingAfterEmit DEF EndIsLast, Outcomes, RunEvents
  <2> QED
    BY <1>a, <1>d, <2>1, <2>2 DEF RunEvents
<1>5. CASE StartAttempt
  <2>1. /\ Emit("step_started", cur, attempt') /\ attempt' \in Nat
        /\ pc \in {"loop", "retry"} /\ pc' = "prepare" /\ cur \in Steps
        /\ UNCHANGED <<start, cur, effects>>
    BY <1>5, <1>a DEF StartAttempt, InStep
  <2>2. "step_started" \in EventTypes \ Ending
    BY <1>a DEF StepEvents, Ending
  <2>3. \A t, r : Logged(t, r)' <=> Logged(t, r) \/ (t = "step_started" /\ r = cur)
    BY <1>a, <2>1, <2>2, LoggedAfterEmit
  <2>4. SucceededBeforeIndex'
    <3>1. \A r : Logged("step_succeeded", r)' <=> Logged("step_succeeded", r)
      BY <2>3
    <3> QED
      BY <2>1, <3>1 DEF SucceededBeforeIndex
  <2>5. StartedUpToIndex'
    BY <1>a, <2>1, <2>3 DEF StartedUpToIndex, SucceededBeforeIndex
  <2>6. EndIsLast'
    BY <1>a, <2>1, <2>2, EndIsLastKept DEF Outcomes
  <2> QED
    BY <1>0, <2>1, <2>4, <2>5, <2>6 DEF FreshWhenIdle, StageEarned
<1>6. CASE Prepare
  BY <1>6, <1>c DEF Prepare, Outcomes, StageEarned
<1>7. CASE Approve
  <2>1. StageEarned'
    BY <1>7 DEF Approve, StageEarned
  <2> QED
    BY <1>7, <1>c, <2>1 DEF Approve, Outcomes
<1>8. CASE TryCandidate
  <2>1. /\ pc = "act" /\ pc' \in {"act", "post"} /\ cur \in Steps
        /\ Silent /\ UNCHANGED <<start, cur, attempt, granted>>
        /\ effects' \in {effects, [effects EXCEPT ![cur] = @ + 1]}
        /\ pc' = "post" => effects' = [effects EXCEPT ![cur] = @ + 1]
    BY <1>8 DEF TryCandidate, InStep
  <2>2. \A s \in Steps : effects'[s] \in Nat /\ effects'[s] >= effects[s]
    BY <1>a, <2>1
  <2>3. SucceededBeforeIndex' /\ StartedUpToIndex' /\ EndIsLast'
    BY <1>b, <2>1, <2>2, SilentKeeps DEF Outcomes
  <2>4. StageEarned'
    BY <1>a, <2>1 DEF StageEarned
  <2> QED
    BY <1>0, <2>1, <2>3, <2>4 DEF FreshWhenIdle
<1>9. CASE NoCandidateLeft
  BY <1>9, <1>c DEF NoCandidateLeft, Outcomes, StageEarned
<1>10. CASE PostconditionFails
  BY <1>10, <1>c DEF PostconditionFails, Outcomes, StageEarned
<1>11. CASE Succeed
  <2>1. /\ Emit("step_succeeded", cur, attempt)
        /\ pc = "post" /\ pc' = "loop" /\ cur \in Steps
        /\ cur' = cur + 1 /\ UNCHANGED <<start, effects>>
    BY <1>11 DEF Succeed, InStep
  <2>2. "step_succeeded" \in EventTypes \ Ending
    BY <1>a DEF StepEvents, Ending
  <2>3. \A t, r : Logged(t, r)' <=> Logged(t, r) \/ (t = "step_succeeded" /\ r = cur)
    BY <1>a, <2>1, <2>2, LoggedAfterEmit
  <2>4. SucceededBeforeIndex'
    <3>1. start'..cur'-1 = (start..cur-1) \cup {cur}
      BY <1>a, <2>1 DEF SucceededBeforeIndex
    <3>2. effects[cur] > 0
      BY <2>1 DEF StageEarned
    <3> QED
      BY <1>a, <2>1, <2>3, <3>1, <3>2 DEF SucceededBeforeIndex
  <2>5. StartedUpToIndex'
    <3>1. \A r : Logged("step_started", r)' <=> Logged("step_started", r)
      BY <2>3
    <3>2. start..cur \subseteq start'..cur'
      BY <1>a, <2>1
    <3> QED
      BY <3>1, <3>2 DEF StartedUpToIndex
  <2>6. EndIsLast'
    BY <1>a, <2>1, <2>2, EndIsLastKept DEF Outcomes
  <2> QED
    BY <1>0, <2>1, <2>4, <2>5, <2>6 DEF FreshWhenIdle, StageEarned
<1>12. CASE Retry
  <2>1. /\ Emit("step_retried", cur, attempt) /\ pc \notin Outcomes
        /\ pc' = "retry" /\ UNCHANGED <<start, cur, effects>>
        /\ "step_retried" \in EventTypes \ Ending
    BY <1>12, <1>a DEF Retry, StepEvents, Ending, Outcomes
  <2> QED
    BY <1>a, <1>d, <2>1, EndIsLastKept
<1>13. CASE FailStep
  <2>1. /\ Emit("step_failed", cur, attempt) /\ pc \notin Outcomes
        /\ pc' = "aborting" /\ UNCHANGED <<start, cur, effects>>
        /\ "step_failed" \in EventTypes \ Ending
    BY <1>13, <1>a DEF FailStep, StepEvents, Ending, Outcomes
  <2> QED
    BY <1>a, <1>d, <2>1, EndIsLastKept
<1>14. CASE Abort
  <2>1. /\ Emit("run_aborted", 0, 0)
        /\ pc = "aborting" /\ pc' = "aborted"
        /\ UNCHANGED <<start, cur, effects>>
    BY <1>14 DEF Abort
  <2>2. EndIsLast'
    BY <1>a, <2>1, EndingAfterEmit DEF EndIsLast, Outcomes, RunEvents
  <2> QED
    BY <1>a, <1>d, <2>1, <2>2 DEF RunEvents
<1>15. CASE Complete
  <2>1. /\ Emit("run_completed", 0, 0)
        /\ pc = "loop" /\ pc' = "completed" /\ cur = N + 1
        /\ UNCHANGED <<start, cur, effects>>
    BY <1>15, <1>a DEF Complete, Steps
  <2>2. EndIsLast'
    BY <1>a, <2>1, EndingAfterEmit DEF EndIsLast, Outcomes, RunEvents
  <2> QED
    BY <1>a, <1>d, <2>1, <2>2 DEF RunEvents
<1> QED
  BY <1>1, <1>2, <1>3, <1>4, <1>5, <1>6, <1>7, <1>8, <1>9, <1>10, <1>11,
     <1>12, <1>13, <1>14, <1>15
  DEF Next, RunnerStep

\* At every point of every run of every graph the log, the loop's index and the
\* stage of the step at hand agree (runner.py:127-268).
THEOREM InvariantHolds == Spec => []RunInvariant
BY InitInvariant, NextInvariant, PTL DEF Spec

-----------------------------------------------------------------------------
(***************************************************************************)
(* The safety properties of a run.                                         *)
(***************************************************************************)
\* A row of the log names a step of the graph, or none.
LEMMA LoggedStep ==
    ASSUME TypeOK, NEW i \in DOMAIN log
    PROVE  log[i].step \in 0..N+1
<1>1. log \in Seq(EventRecord)
  BY DEF TypeOK
<1>2. log[i] \in EventRecord
  BY <1>1
<1> QED
  BY <1>2 DEF EventRecord

\* Whatever selectors, retries and failures a run goes through, a step is
\* reported as succeeded only if a tool call acted for it (runner.py:633-649).
THEOREM SuccessIsEarned == Spec => []SuccessMeansActed
<1>1. RunInvariant => SuccessMeansActed
  <2> SUFFICES ASSUME RunInvariant, NEW i \in DOMAIN log,
                      log[i].type = "step_succeeded"
               PROVE  log[i].step \in Steps /\ effects[log[i].step] > 0
    BY DEF SuccessMeansActed
  <2>1. TypeOK /\ SucceededBeforeIndex
    BY DEF RunInvariant
  <2>2. Logged("step_succeeded", log[i].step)
    BY DEF Logged
  <2>3. log[i].step \in start..cur-1
    BY <2>1, <2>2, LoggedStep DEF SucceededBeforeIndex
  <2>4. start..cur-1 \subseteq Steps
    BY <2>1, GraphAssumption DEF GraphAssumption, TypeOK, Steps
  <2> QED
    BY <2>1, <2>3, <2>4 DEF SucceededBeforeIndex
<1> QED
  BY <1>1, InvariantHolds, PTL

\* No run touches a step while an earlier one from the start step on is not
\* reported as succeeded (runner.py:133-145).
THEOREM StepsInOrder == Spec => []NoStepAhead
<1>1. RunInvariant => NoStepAhead
  <2> SUFFICES ASSUME RunInvariant, NEW s \in Steps, Logged("step_started", s)
               PROVE  /\ s >= start
                      /\ \A e \in start..s-1 : Logged("step_succeeded", e)
    BY DEF NoStepAhead
  <2> USE GraphAssumption DEF GraphAssumption
  <2>1. TypeOK /\ SucceededBeforeIndex /\ StartedUpToIndex
    BY DEF RunInvariant
  <2>2. s \in 0..N+1 /\ start \in 1..N+1 /\ cur \in 1..N+1
    BY <2>1 DEF TypeOK, Steps
  <2>3. s \in start..cur
    BY <2>1, <2>2 DEF StartedUpToIndex
  <2>4. \A e \in start..s-1 : e \in 0..N+1 /\ e \in start..cur-1
    BY <2>2, <2>3
  <2> QED
    BY <2>1, <2>2, <2>3, <2>4 DEF SucceededBeforeIndex
<1> QED
  BY <1>1, InvariantHolds, PTL

\* run_completed is recorded only for a run all of whose steps from the start
\* step on are reported as succeeded (runner.py:172-181).
THEOREM CompletionIsEarned == Spec => []CompletedMeansAllSucceeded
<1>1. RunInvariant => CompletedMeansAllSucceeded
  <2> SUFFICES ASSUME RunInvariant, NEW i \in DOMAIN log,
                      log[i].type = "run_completed", NEW s \in start..N
               PROVE  Logged("step_succeeded", s)
    BY DEF CompletedMeansAllSucceeded
  <2> USE GraphAssumption DEF GraphAssumption
  <2>1. TypeOK /\ SucceededBeforeIndex /\ EndIsLast
    BY DEF RunInvariant
  <2>2. cur = N + 1
    BY <2>1 DEF EndIsLast, Ending
  <2>3. s \in 0..N+1 /\ s \in start..cur-1
    BY <2>1, <2>2 DEF TypeOK
  <2> QED
    BY <2>1, <2>3 DEF SucceededBeforeIndex
<1> QED
  BY <1>1, InvariantHolds, PTL

\* The event that ends a run is its last one (runner.py:146-180).
THEOREM EndIsFinal == Spec => []NothingAfterTheEnd
<1>1. RunInvariant => NothingAfterTheEnd
  BY DEF RunInvariant, EndIsLast, NothingAfterTheEnd
<1> QED
  BY <1>1, InvariantHolds, PTL

\* A hard-risk step acts on the page only in an attempt a person approved
\* (runner.py:651-713).
THEOREM ApprovalIsRequired == Spec => ActsOnlyWhenApproved
<1>1. RunInvariant /\ [Next]_vars =>
        [\A s \in HardSteps : effects'[s] # effects[s] =>
            cur = s /\ <<s, attempt>> \in granted]_vars
  <2> SUFFICES ASSUME RunInvariant, Next, NEW s \in HardSteps,
                      effects'[s] # effects[s]
               PROVE  cur = s /\ <<s, attempt>> \in granted
    OBVIOUS
  <2>1. TryCandidate
    BY DEF Next, RunnerStep, Begin, Enter, RequestPause, runnerVars,
           PauseAtStep, StartAttempt, Prepare, Approve, NoCandidateLeft,
           PostconditionFails, Succeed, Retry, FailStep, Abort, Complete
  <2>2. /\ pc = "act"
        /\ effects' \in {effects, [effects EXCEPT ![cur] = @ + 1]}
    BY <2>1 DEF TryCandidate
  <2>3. effects \in [Steps -> Nat] /\ s \in Steps
    BY GraphAssumption DEF GraphAssumption, RunInvariant, TypeOK
  <2>4. cur = s
    BY <2>2, <2>3
  <2> QED
    BY <2>2, <2>4 DEF RunInvariant, StageEarned
<1> QED
  BY <1>1, InvariantHolds, PTL DEF Spec, ActsOnlyWhenApproved

-----------------------------------------------------------------------------
(***************************************************************************)
(* Attempts and effects are counted.                                       *)
(***************************************************************************)
\* The rows of one event and step are finitely many, so they can be counted.
LEMMA RowsAreFinite ==
    ASSUME TypeOK, NEW t, NEW s
    PROVE  IsFiniteSet(RowsOf(t, s)) /\ Times(t, s) \in Nat
<1>1. log \in Seq(EventRecord)
  BY DEF TypeOK
<1>2. DOMAIN log = 1..Len(log) /\ Len(log) \in Nat
  BY <1>1
<1>3. IsFiniteSet(1..Len(log))
  BY <1>2, FS_Interval
<1>4. RowsOf(t, s) \subseteq 1..Len(log)
  BY <1>2 DEF RowsOf
<1>5. IsFiniteSet(RowsOf(t, s))
  BY <1>3, <1>4, FS_Subset
<1> QED
  BY <1>5, FS_CardinalityType DEF Times, RowsOf

\* An event counts once, for its own type and step.
LEMMA TimesAfterEmit ==
    ASSUME TypeOK, NEW t \in EventTypes, NEW s \in 0..N+1, NEW a \in Nat,
           Emit(t, s, a), NEW u, NEW r
    PROVE  Times(u, r)' = IF u = t /\ r = s THEN Times(u, r) + 1 ELSE Times(u, r)
<1>1. /\ Event(t, s, a).type = t
      /\ Event(t, s, a).step = s
  BY DEF Event
<1>2. /\ DOMAIN log' = 1..Len(log) + 1 /\ DOMAIN log = 1..Len(log)
      /\ \A i \in 1..Len(log) : log'[i] = log[i]
      /\ log'[Len(log) + 1] = Event(t, s, a) /\ Len(log) \in Nat
  BY EmitAppends
<1>3. CASE u = t /\ r = s
  <2>1. RowsOf(u, r)' = RowsOf(u, r) \cup {Len(log) + 1}
    BY <1>1, <1>2, <1>3 DEF RowsOf
  <2>2. Len(log) + 1 \notin RowsOf(u, r)
    BY <1>2 DEF RowsOf
  <2>3. IsFiniteSet(RowsOf(u, r))
    BY RowsAreFinite
  <2>4. Cardinality(RowsOf(u, r)') = Cardinality(RowsOf(u, r)) + 1
    BY <2>1, <2>2, <2>3, FS_AddElement
  <2> QED
    BY <1>3, <2>4 DEF Times, RowsOf
<1>4. CASE ~(u = t /\ r = s)
  <2>1. RowsOf(u, r)' = RowsOf(u, r)
    BY <1>1, <1>2, <1>4 DEF RowsOf
  <2> QED
    BY <1>4, <2>1 DEF Times, RowsOf
<1> QED
  BY <1>3, <1>4

\* What is not in the log was logged zero times.
LEMMA NotLoggedIsZero ==
    ASSUME NEW t, NEW s, ~Logged(t, s)
    PROVE  Times(t, s) = 0
<1>1. RowsOf(t, s) = {}
  BY DEF Logged, RowsOf
<1> QED
  BY <1>1, FS_EmptySet DEF Times, RowsOf

\* How often a step was started, next to the attempt the runner is making: the
\* loop is at a step that was not started yet, a stage inside a step belongs to
\* start number attempt + 1, and a retry is granted only within the budget.
AttemptStages == {"prepare", "approve", "act", "post", "failed"}
Starts(s) == Times("step_started", s)

StartsCounted ==
    /\ RetryBudget
    /\ pc = "loop" => \A s \in Steps : s >= cur => Starts(s) = 0
    /\ pc \in AttemptStages => Starts(cur) = attempt + 1
    /\ pc = "retry" => Starts(cur) = attempt /\ attempt + 1 <= MaxStarts(cur)

\* No step is started before the run starts.
LEMMA InitStarts == Init => StartsCounted
<1> SUFFICES ASSUME Init PROVE StartsCounted
  OBVIOUS
<1>1. DOMAIN log = {} /\ pc = "idle"
  BY DEF Init
<1>2. \A s : Starts(s) = 0
  BY <1>1, NotLoggedIsZero DEF Starts, Logged
<1>3. \A s \in Steps : 0 <= MaxStarts(s)
  BY GraphAssumption DEF GraphAssumption, MaxStarts
<1> QED
  BY <1>1, <1>2, <1>3 DEF StartsCounted, RetryBudget, AttemptStages, Starts

\* Every step keeps the count of started attempts.
LEMMA NextStarts ==
    RunInvariant /\ StartsCounted /\ [Next]_vars => StartsCounted'
<1> SUFFICES ASSUME RunInvariant, StartsCounted, [Next]_vars
             PROVE  StartsCounted'
  OBVIOUS
<1> USE GraphAssumption DEF GraphAssumption
<1>a. /\ TypeOK /\ InStep /\ StartedUpToIndex
      /\ cur \in 1..N+1 /\ cur \in 0..N+1 /\ 0 \in 0..N+1
      /\ attempt \in Nat /\ 0 \in Nat
      /\ StepEvents \cup RunEvents \subseteq EventTypes
  BY DEF RunInvariant, TypeOK, EventTypes
<1>b. \A s \in Steps : Starts(s) \in Nat /\ MaxStarts(s) \in Nat \ {0}
  BY <1>a, RowsAreFinite DEF Starts, MaxStarts
<1>c. ASSUME NEW t \in EventTypes \ {"step_started"}, NEW s \in 0..N+1,
             NEW a \in Nat, Emit(t, s, a)
      PROVE  \A r : Starts(r)' = Starts(r)
  BY <1>a, <1>c, TimesAfterEmit DEF Starts
<1>d. ASSUME log' = log PROVE \A r : Starts(r)' = Starts(r)
  BY <1>d DEF Starts, Times, RowsOf
<1>e. ASSUME \A r : Starts(r)' = Starts(r), cur' = cur,
             \/ pc' = pc /\ attempt' = attempt
             \/ pc \in AttemptStages /\ pc' \in AttemptStages /\ attempt' = attempt
             \/ pc' \notin AttemptStages \cup {"loop", "retry"}
      PROVE  StartsCounted'
  BY <1>e DEF StartsCounted, RetryBudget, Starts, AttemptStages, MaxStarts
<1>1. CASE UNCHANGED vars
  BY <1>1, <1>d, <1>e DEF vars
<1>2. ASSUME NEW s \in 1..N+1, Begin(s) PROVE StartsCounted'
  <2>1. log = <<>> /\ log' = <<>> /\ pc' = "loop"
    BY <1>2 DEF Begin, Enter, Silent, RunInvariant, FreshWhenIdle
  <2>2. \A r : Starts(r)' = Starts(r)
    BY <1>d, <2>1
  <2>3. \A t, r : ~Logged(t, r)
    BY <2>1 DEF Logged
  <2>4. \A r : Starts(r) = 0
    BY <2>3, NotLoggedIsZero DEF Starts
  <2> QED
    BY <2>1, <2>2, <2>4
    DEF StartsCounted, RetryBudget, Starts, AttemptStages, MaxStarts
<1>3. CASE RequestPause
  BY <1>3, <1>d, <1>e DEF RequestPause, runnerVars
<1>4. CASE PauseAtStep
  BY <1>4, <1>a, <1>c, <1>e DEF PauseAtStep, RunEvents, AttemptStages
<1>5. CASE StartAttempt
  <2>1. /\ Emit("step_started", cur, attempt') /\ attempt' \in Nat
        /\ pc' = "prepare" /\ cur \in Steps /\ cur' = cur
        /\ \/ pc = "loop" /\ attempt' = 0
           \/ pc = "retry" /\ attempt' = attempt
    BY <1>5, <1>a DEF StartAttempt, InStep
  <2>2. "step_started" \in EventTypes
    BY <1>a DEF StepEvents
  <2>3. \A r : Starts(r)' = IF r = cur THEN Starts(r) + 1 ELSE Starts(r)
    BY <1>a, <2>1, <2>2, TimesAfterEmit DEF Starts
  <2>4. Starts(cur) = attempt' /\ attempt' + 1 <= MaxStarts(cur)
    BY <1>a, <1>b, <2>1 DEF StartsCounted
  <2> QED
    BY <1>b, <2>1, <2>3, <2>4
    DEF StartsCounted, RetryBudget, Starts, AttemptStages, MaxStarts
<1>6. CASE Prepare
  BY <1>6, <1>d, <1>e DEF Prepare, Silent, AttemptStages
<1>7. CASE Approve
  BY <1>7, <1>d, <1>e DEF Approve, Silent, AttemptStages
<1>8. CASE TryCandidate
  BY <1>8, <1>d, <1>e DEF TryCandidate, Silent, AttemptStages
<1>9. CASE NoCandidateLeft
  BY <1>9, <1>d, <1>e DEF NoCandidateLeft, Silent, AttemptStages
<1>10. CASE PostconditionFails
  BY <1>10, <1>d, <1>e DEF PostconditionFails, Silent, AttemptStages
<1>11. CASE Succeed
  <2>1. /\ Emit("step_succeeded", cur, attempt)
        /\ pc = "post" /\ pc' = "loop" /\ cur' = cur + 1
    BY <1>11 DEF Succeed
  <2>2. \A r : Starts(r)' = Starts(r)
    BY <1>a, <1>c, <2>1 DEF StepEvents
  <2>3. \A s \in Steps : s >= cur + 1 => Starts(s) = 0
    <3> SUFFICES ASSUME NEW s \in Steps, s >= cur + 1 PROVE Starts(s) = 0
      OBVIOUS
    <3>1. s \in 0..N+1 /\ s \notin start..cur
      BY <1>a DEF Steps
    <3>2. ~Logged("step_started", s)
      BY <1>a, <3>1 DEF StartedUpToIndex
    <3> QED
      BY <3>2, NotLoggedIsZero DEF Starts
  <2> QED
    BY <2>1, <2>2, <2>3
    DEF StartsCounted, RetryBudget, Starts, AttemptStages, MaxStarts
<1>12. CASE Retry
  <2>1. /\ Emit("step_retried", cur, attempt)
        /\ pc = "failed" /\ pc' = "retry" /\ cur' = cur /\ cur \in Steps
        /\ attempt' = attempt + 1 /\ attempt < MaxRetries[cur]
        /\ cur \in RetryAllowed
    BY <1>12, <1>a DEF Retry, ShouldRetry, InStep
  <2>2. \A r : Starts(r)' = Starts(r)
    BY <1>a, <1>c, <2>1 DEF StepEvents
  <2>3. attempt' + 1 <= MaxStarts(cur) /\ Starts(cur) = attempt'
    BY <1>a, <2>1 DEF MaxStarts, StartsCounted, AttemptStages
  <2> QED
    BY <2>1, <2>2, <2>3
    DEF StartsCounted, RetryBudget, Starts, AttemptStages, MaxStarts
<1>13. CASE FailStep
  BY <1>13, <1>a, <1>c, <1>e DEF FailStep, StepEvents, AttemptStages
<1>14. CASE Abort
  BY <1>14, <1>a, <1>c, <1>e DEF Abort, RunEvents, AttemptStages
<1>15. CASE Complete
  BY <1>15, <1>a, <1>c, <1>e DEF Complete, RunEvents, AttemptStages
<1> QED
  BY <1>1, <1>2, <1>3, <1>4, <1>5, <1>6, <1>7, <1>8, <1>9, <1>10, <1>11,
     <1>12, <1>13, <1>14, <1>15
  DEF Next, RunnerStep

\* However the attempts of a step fail, it is started at most max_retries + 1
\* times, and once if RETRY is not allowed for it (runner.py:192-250).
THEOREM BudgetIsKept == Spec => []RetryBudget
<1>1. Init => RunInvariant /\ StartsCounted
  BY InitInvariant, InitStarts
<1>2. RunInvariant /\ StartsCounted /\ [Next]_vars
        => RunInvariant' /\ StartsCounted'
  BY NextInvariant, NextStarts
<1>3. StartsCounted => RetryBudget
  BY DEF StartsCounted
<1> QED
  BY <1>1, <1>2, <1>3, PTL DEF Spec

\* How often a step acted, next to the selector the runner is trying: before an
\* attempt, at most once per selector of each earlier attempt; within it, once
\* more per selector already tried.
EffectsCounted ==
    /\ EffectsBounded
    /\ cand >= 1
    /\ pc \in {"prepare", "approve", "act"} =>
          effects[cur] <= Candidates[cur] * attempt + (cand - 1)

\* The arithmetic of one more attempt.
LEMMA OneMoreAttempt ==
    ASSUME NEW k \in Nat, NEW n \in Nat
    PROVE  k * n \in Nat /\ k * (n + 1) = k * n + k
OBVIOUS

\* No step acted before the run starts.
LEMMA InitEffects == Init => EffectsCounted
<1> SUFFICES ASSUME Init PROVE EffectsCounted
  OBVIOUS
<1>1. DOMAIN log = {} /\ pc = "idle" /\ cand = 1 /\ \A s \in Steps : effects[s] = 0
  BY DEF Init
<1>2. \A s \in Steps : Times("step_started", s) = 0
  BY <1>1, NotLoggedIsZero DEF Logged
<1>3. \A s \in Steps : Candidates[s] \in Nat
  BY GraphAssumption DEF GraphAssumption
<1>4. \A s \in Steps : effects[s] <= Candidates[s] * Times("step_started", s)
  BY <1>1, <1>2, <1>3
<1> QED
  BY <1>1, <1>4 DEF EffectsCounted, EffectsBounded

\* Every step keeps the bound on what the steps did to the page.
LEMMA NextEffects ==
    RunInvariant /\ StartsCounted /\ EffectsCounted /\ [Next]_vars
        => EffectsCounted'
<1> SUFFICES ASSUME RunInvariant, StartsCounted, EffectsCounted, [Next]_vars
             PROVE  EffectsCounted'
  OBVIOUS
<1> USE GraphAssumption DEF GraphAssumption
<1>a. /\ TypeOK /\ InStep
      /\ cur \in 1..N+1 /\ cur \in 0..N+1 /\ 0 \in 0..N+1
      /\ attempt \in Nat /\ 0 \in Nat /\ cand \in Nat
      /\ effects \in [Steps -> Nat] /\ Candidates \in [Steps -> Nat]
      /\ StepEvents \cup RunEvents \subseteq EventTypes
  BY DEF RunInvariant, TypeOK, EventTypes
<1>b. \A s \in Steps : Starts(s) \in Nat
  BY <1>a, RowsAreFinite DEF Starts
<1>c. ASSUME NEW t \in EventTypes \ {"step_started"}, NEW s \in 0..N+1,
             NEW a \in Nat, Emit(t, s, a)
      PROVE  \A r : Starts(r)' = Starts(r)
  BY <1>a, <1>c, TimesAfterEmit DEF Starts
<1>d. ASSUME log' = log PROVE \A r : Starts(r)' = Starts(r)
  BY <1>d DEF Starts, Times, RowsOf
<1>e. ASSUME \A r : Starts(r)' = Starts(r), UNCHANGED <<cur, cand, effects>>,
             \/ pc' = pc /\ attempt' = attempt
             \/ /\ pc \in {"prepare", "approve", "act"}
                /\ attempt' = attempt
             \/ pc' \notin {"prepare", "approve", "act"}
      PROVE  EffectsCounted'
  BY <1>e DEF EffectsCounted, EffectsBounded, Starts
<1>1. CASE UNCHANGED vars
  BY <1>1, <1>d, <1>e DEF vars
<1>2. ASSUME NEW s \in 1..N+1, Begin(s) PROVE EffectsCounted'
  <2>1. log' = log /\ pc' = "loop" /\ cand' = 1 /\ effects' = effects
    BY <1>2 DEF Begin, Enter, Silent
  <2>2. \A r : Starts(r)' = Starts(r)
    BY <1>d, <2>1
  <2> QED
    BY <2>1, <2>2 DEF EffectsCounted, EffectsBounded, Starts
<1>3. CASE RequestPause
  BY <1>3, <1>d, <1>e DEF RequestPause, runnerVars
<1>4. CASE PauseAtStep
  BY <1>4, <1>a, <1>c, <1>e DEF PauseAtStep, RunEvents
<1>5. CASE StartAttempt
  <2>1. /\ Emit("step_started", cur, attempt') /\ attempt' \in Nat
        /\ pc' = "prepare" /\ cur \in Steps /\ cand' = 1
        /\ UNCHANGED <<cur, effects>>
        /\ \/ pc = "loop" /\ attempt' = 0
           \/ pc = "retry" /\ attempt' = attempt
    BY <1>5, <1>a DEF StartAttempt, InStep
  <2>2. "step_started" \in EventTypes
    BY <1>a DEF StepEvents
  <2>3. \A r : Starts(r)' = IF r = cur THEN Starts(r) + 1 ELSE Starts(r)
    BY <1>a, <2>1, <2>2, TimesAfterEmit DEF Starts
  <2>4. Starts(cur) = attempt'
    BY <1>a, <2>1 DEF StartsCounted
  <2>5. effects[cur] <= Candidates[cur] * attempt'
    BY <2>1, <2>4 DEF EffectsCounted, EffectsBounded, Starts
  <2>6. effects[cur] <= Candidates[cur] * (attempt' + 1)
    <3>1. Candidates[cur] \in Nat /\ effects[cur] \in Nat
      BY <1>a, <2>1
    <3>2. /\ Candidates[cur] * attempt' \in Nat
          /\ Candidates[cur] * (attempt' + 1)
                = Candidates[cur] * attempt' + Candidates[cur]
      BY <2>1, <3>1, OneMoreAttempt
    <3> QED
      BY <2>5, <3>1, <3>2
  <2>7. \A r \in Steps : effects'[r] <= Candidates[r] * Starts(r)'
    BY <2>1, <2>3, <2>4, <2>6 DEF EffectsCounted, EffectsBounded, Starts
  <2>8. effects'[cur'] <= Candidates[cur'] * attempt' + (cand' - 1)
    <3>1. Candidates[cur] \in Nat
      BY <1>a, <2>1
    <3>2. Candidates[cur] * attempt' \in Nat
      BY <2>1, <3>1, OneMoreAttempt
    <3> QED
      BY <2>1, <2>5, <3>2
  <2> QED
    BY <2>1, <2>7, <2>8 DEF EffectsCounted, EffectsBounded, Starts
<1>6. CASE Prepare
  BY <1>6, <1>d, <1>e DEF Prepare, Silent
<1>7. CASE Approve
  BY <1>7, <1>d, <1>e DEF Approve, Silent
<1>8. CASE TryCandidate
  <2>1. /\ pc = "act" /\ cur \in Steps /\ cand <= Candidates[cur]
        /\ log' = log /\ UNCHANGED <<cur, attempt>>
        /\ effects' \in {effects, [effects EXCEPT ![cur] = @ + 1]}
        /\ \/ pc' = "post" /\ cand' = cand
           \/ pc' = "act" /\ cand' = cand + 1
    BY <1>8, <1>a DEF TryCandidate, InStep, Silent
  <2>2. \A r : Starts(r)' = Starts(r)
    BY <1>d, <2>1
  <2>3. /\ effects'[cur] <= effects[cur] + 1
        /\ \A r \in Steps \ {cur} : effects'[r] = effects[r]
        /\ effects[cur] \in Nat /\ effects'[cur] \in Nat
    BY <1>a, <2>1
  <2>4. /\ effects[cur] <= Candidates[cur] * attempt + (cand - 1)
        /\ Starts(cur) = attempt + 1
    BY <2>1 DEF EffectsCounted, StartsCounted, AttemptStages
  <2>5. /\ Candidates[cur] \in Nat
        /\ Candidates[cur] * attempt \in Nat
        /\ Candidates[cur] * (attempt + 1)
              = Candidates[cur] * attempt + Candidates[cur]
    BY <1>a, <2>1, OneMoreAttempt
  <2>6. effects'[cur] <= Candidates[cur] * attempt + cand
    BY <1>a, <2>3, <2>4, <2>5
  <2>7. effects'[cur] <= Candidates[cur] * (attempt + 1)
    BY <1>a, <2>1, <2>3, <2>5, <2>6
  <2>8. \A r \in Steps : effects'[r] <= Candidates[r] * Starts(r)'
    BY <2>2, <2>3, <2>4, <2>7 DEF EffectsCounted, EffectsBounded, Starts
  <2>9. pc' = "act" => effects'[cur] <= Candidates[cur] * attempt + (cand' - 1)
    BY <1>a, <2>1, <2>3, <2>5, <2>6
  <2> QED
    BY <1>a, <2>1, <2>8, <2>9 DEF EffectsCounted, EffectsBounded, Starts
<1>9. CASE NoCandidateLeft
  BY <1>9, <1>d, <1>e DEF NoCandidateLeft, Silent
<1>10. CASE PostconditionFails
  BY <1>10, <1>d, <1>e DEF PostconditionFails, Silent
<1>11. CASE Succeed
  <2>1. /\ Emit("step_succeeded", cur, attempt)
        /\ pc' = "loop" /\ UNCHANGED <<cand, effects>>
    BY <1>11 DEF Succeed
  <2>2. \A r : Starts(r)' = Starts(r)
    BY <1>a, <1>c, <2>1 DEF StepEvents
  <2> QED
    BY <2>1, <2>2 DEF EffectsCounted, EffectsBounded, Starts
<1>12. CASE Retry
  BY <1>12, <1>a, <1>c, <1>e DEF Retry, StepEvents
<1>13. CASE FailStep
  BY <1>13, <1>a, <1>c, <1>e DEF FailStep, StepEvents
<1>14. CASE Abort
  BY <1>14, <1>a, <1>c, <1>e DEF Abort, RunEvents
<1>15. CASE Complete
  BY <1>15, <1>a, <1>c, <1>e DEF Complete, RunEvents
<1> QED
  BY <1>1, <1>2, <1>3, <1>4, <1>5, <1>6, <1>7, <1>8, <1>9, <1>10, <1>11,
     <1>12, <1>13, <1>14, <1>15
  DEF Next, RunnerStep

\* A step acts on the page at most once per selector and attempt, for every
\* number of selectors and retries (runner.py:577-640).
THEOREM EffectsAreBounded == Spec => []EffectsBounded
<1>1. Init => RunInvariant /\ StartsCounted /\ EffectsCounted
  BY InitInvariant, InitStarts, InitEffects
<1>2. RunInvariant /\ StartsCounted /\ EffectsCounted /\ [Next]_vars
        => RunInvariant' /\ StartsCounted' /\ EffectsCounted'
  BY NextInvariant, NextStarts, NextEffects
<1>3. EffectsCounted => EffectsBounded
  BY DEF EffectsCounted
<1> QED
  BY <1>1, <1>2, <1>3, PTL DEF Spec

-----------------------------------------------------------------------------
(***************************************************************************)
(* The log of a run is a behaviour of RunContract.                         *)
(***************************************************************************)
\* A runner that is over has recorded its outcome.
OutcomeRecorded ==
    pc \in Outcomes =>
        /\ log # <<>>
        /\ log[Len(log)].type = CASE pc = "paused" -> "run_paused"
                                  [] pc = "aborted" -> "run_aborted"
                                  [] pc = "completed" -> "run_completed"

\* Every step keeps the last row of the log in line with how the run stands.
LEMMA NextOutcome ==
    RunInvariant /\ OutcomeRecorded /\ [Next]_vars => OutcomeRecorded'
<1> SUFFICES ASSUME RunInvariant, OutcomeRecorded, [Next]_vars, pc' \in Outcomes
             PROVE  OutcomeRecorded'
  BY DEF OutcomeRecorded
<1> USE GraphAssumption DEF GraphAssumption
<1>a. /\ TypeOK /\ cur \in 0..N+1 /\ 0 \in 0..N+1 /\ 0 \in Nat
      /\ RunEvents \subseteq EventTypes
  BY DEF RunInvariant, TypeOK, EventTypes
<1>b. ASSUME NEW t \in EventTypes, NEW s \in 0..N+1, Emit(t, s, 0)
      PROVE  log' # <<>> /\ log'[Len(log')].type = t
  <2>1. /\ Len(log') = Len(log) + 1 /\ Len(log) \in Nat
        /\ DOMAIN log' = 1..Len(log) + 1
        /\ log'[Len(log) + 1] = Event(t, s, 0)
    BY <1>a, <1>b, EmitAppends
  <2>2. DOMAIN log' # {}
    BY <2>1
  <2> QED
    BY <2>1, <2>2 DEF Event
<1>1. CASE UNCHANGED <<log, pc>>
  BY <1>1 DEF OutcomeRecorded
<1>2. CASE PauseAtStep
  <2>1. pc' = "paused" /\ Emit("run_paused", cur, 0)
    BY <1>2 DEF PauseAtStep
  <2>2. log' # <<>> /\ log'[Len(log')].type = "run_paused"
    BY <1>a, <1>b, <2>1 DEF RunEvents
  <2> QED
    BY <2>1, <2>2 DEF OutcomeRecorded
<1>3. CASE Abort
  <2>1. pc' = "aborted" /\ Emit("run_aborted", 0, 0)
    BY <1>3 DEF Abort
  <2>2. log' # <<>> /\ log'[Len(log')].type = "run_aborted"
    BY <1>a, <1>b, <2>1 DEF RunEvents
  <2> QED
    BY <2>1, <2>2 DEF OutcomeRecorded
<1>4. CASE Complete
  <2>1. pc' = "completed" /\ Emit("run_completed", 0, 0)
    BY <1>4 DEF Complete
  <2>2. log' # <<>> /\ log'[Len(log')].type = "run_completed"
    BY <1>a, <1>b, <2>1 DEF RunEvents
  <2> QED
    BY <2>1, <2>2 DEF OutcomeRecorded
<1> QED
  BY <1>1, <1>2, <1>3, <1>4
  DEF Next, RunnerStep, vars, Outcomes, Begin, Enter, RequestPause, runnerVars,
      StartAttempt, Prepare, Approve, TryCandidate, NoCandidateLeft,
      PostconditionFails, Succeed, Retry, FailStep

\* What the refinement mapping reads from the log, from the runner's state.
LEMMA MappedDone ==
    RunInvariant => LastSucceeded = cur - 1 /\ cur \in start..N+1
<1> SUFFICES ASSUME RunInvariant
             PROVE  LastSucceeded = cur - 1 /\ cur \in start..N+1
  OBVIOUS
<1> USE GraphAssumption DEF GraphAssumption
<1>1. /\ start \in 1..N+1 /\ cur \in 1..N+1 /\ start <= cur
      /\ \A s \in Steps : Logged("step_succeeded", s) <=> s \in start..cur-1
  BY DEF RunInvariant, TypeOK, SucceededBeforeIndex, Steps
<1>2. cur - 1 \in start-1..N
  BY <1>1
<1>3. ASSUME NEW d \in start-1..N,
             \A s \in Steps : Logged("step_succeeded", s) <=> s \in start..d
      PROVE  d = cur - 1
  <2>1. \A s \in Steps : s \in start..d <=> s \in start..cur-1
    BY <1>1, <1>3
  <2>2. CASE d < cur - 1
    <3>1. cur - 1 \in Steps /\ cur - 1 \in start..cur-1 /\ cur - 1 \notin start..d
      BY <1>1, <1>3, <2>2 DEF Steps
    <3> QED
      BY <2>1, <3>1
  <2>3. CASE d > cur - 1
    <3>1. d \in Steps /\ d \in start..d /\ d \notin start..cur-1
      BY <1>1, <1>3, <2>3 DEF Steps
    <3> QED
      BY <2>1, <3>1
  <2> QED
    BY <1>1, <1>3, <2>2, <2>3
<1> QED
  BY <1>1, <1>2, <1>3 DEF LastSucceeded

StageOutcome ==
    IF pc = "idle" THEN "none" ELSE IF pc \in Outcomes THEN pc ELSE "going"

\* The outcome a reader finds in the log is the one the loop is in.
LEMMA MappedOutcome ==
    RunInvariant /\ OutcomeRecorded => OutcomeInLog = StageOutcome
<1> SUFFICES ASSUME RunInvariant, OutcomeRecorded
             PROVE  OutcomeInLog = StageOutcome
  OBVIOUS
<1> USE DEF StageOutcome
<1>1. CASE pc = "idle" \/ pc \in Outcomes
  BY <1>1 DEF OutcomeInLog, OutcomeRecorded, Outcomes
<1>2. CASE pc # "idle" /\ pc \notin Outcomes /\ log = <<>>
  BY <1>2 DEF OutcomeInLog
<1>3. CASE pc # "idle" /\ pc \notin Outcomes /\ log # <<>>
  <2>1. log \in Seq(EventRecord)
    BY DEF RunInvariant, TypeOK
  <2>2. Len(log) \in DOMAIN log
    BY <1>3, <2>1
  <2>3. log[Len(log)].type \notin Ending
    BY <1>3, <2>2 DEF RunInvariant, EndIsLast
  <2> QED
    BY <1>3, <2>3 DEF OutcomeInLog, Ending
<1> QED
  BY <1>1, <1>2, <1>3

\* Every step of a run is a step of the contract, or changes nothing it sees.
LEMMA StepRefines ==
    ASSUME RunInvariant, RunInvariant', OutcomeRecorded, OutcomeRecorded',
           [Next]_vars
    PROVE  [Contract!Next]_(Contract!contractVars)
<1> USE GraphAssumption DEF GraphAssumption
<1> DEFINE Goal == [Contract!Next]_(Contract!contractVars)
<1> USE DEF Contract!Next, Contract!Start, Contract!Finish, Contract!Stop,
            Contract!Complete, Contract!contractVars
<1>a. /\ LastSucceeded = cur - 1 /\ cur \in start..N+1
      /\ OutcomeInLog = StageOutcome
  BY MappedDone, MappedOutcome
<1>b. /\ LastSucceeded' = cur' - 1 /\ cur' \in start'..N+1
      /\ OutcomeInLog' = StageOutcome'
  <2>1. (RunInvariant => LastSucceeded = cur - 1 /\ cur \in start..N+1)'
    BY MappedDone, PTL
  <2>2. (RunInvariant /\ OutcomeRecorded => OutcomeInLog = StageOutcome)'
    BY MappedOutcome, PTL
  <2> QED
    BY <2>1, <2>2
<1>c. start \in 1..N+1 /\ start' \in 1..N+1 /\ InStep
  BY DEF RunInvariant, TypeOK
<1> USE DEF StageOutcome
<1>1. CASE UNCHANGED vars
  BY <1>1, <1>a, <1>b DEF vars
<1>2. ASSUME NEW s \in 1..N+1, Begin(s) PROVE Goal
  <2>1. /\ pc = "idle" /\ pc' = "loop" /\ start' = s /\ cur' = s
    BY <1>2 DEF Begin, Enter
  <2>2. Contract!Start
    BY <1>a, <1>b, <2>1 DEF Outcomes
  <2> QED
    BY <2>2
<1>3. CASE PauseAtStep \/ Abort
  <2>1. /\ pc \in {"loop", "aborting"} /\ pc' \in {"paused", "aborted"}
        /\ cur \in Steps /\ UNCHANGED <<start, cur>>
    BY <1>3, <1>c DEF PauseAtStep, Abort, InStep
  <2>2. Contract!Stop
    BY <1>a, <1>b, <1>c, <2>1 DEF Outcomes, Steps
  <2> QED
    BY <2>2
<1>4. CASE Succeed
  <2>1. /\ pc = "post" /\ pc' = "loop" /\ cur \in Steps
        /\ cur' = cur + 1 /\ start' = start
    BY <1>4, <1>c DEF Succeed, InStep
  <2>2. Contract!Finish
    BY <1>a, <1>b, <1>c, <2>1 DEF Outcomes, Steps
  <2> QED
    BY <2>2
<1>5. CASE Complete
  <2>1. /\ pc = "loop" /\ pc' = "completed" /\ cur \notin Steps
        /\ UNCHANGED <<start, cur>>
    BY <1>5 DEF Complete
  <2>2. Contract!Complete
    BY <1>a, <1>b, <1>c, <2>1 DEF Outcomes, Steps
  <2> QED
    BY <2>2
<1>6. CASE \/ RequestPause \/ StartAttempt \/ Prepare \/ Approve \/ TryCandidate
           \/ NoCandidateLeft \/ PostconditionFails \/ Retry \/ FailStep
  <2>1. /\ pc' = pc \/ (pc \notin Outcomes \cup {"idle"}
                        /\ pc' \notin Outcomes \cup {"idle"})
        /\ UNCHANGED <<start, cur>>
    BY <1>6
    DEF Outcomes, RequestPause, runnerVars, StartAttempt, Prepare, Approve,
        TryCandidate, NoCandidateLeft, PostconditionFails, Retry, FailStep
  <2> QED
    BY <1>a, <1>b, <2>1
<1> QED
  BY <1>1, <1>2, <1>3, <1>4, <1>5, <1>6 DEF Next, RunnerStep

\* Read as a contract, the event log of every run of every graph is a behaviour
\* of RunContract (runner.py:127-268).
THEOREM RunnerImplementsContract == Spec => LogFollowsContract
<1>1. Init => RunInvariant /\ OutcomeRecorded
  BY InitInvariant DEF Init, OutcomeRecorded, Outcomes
<1>2. RunInvariant /\ OutcomeRecorded /\ [Next]_vars
        => RunInvariant' /\ OutcomeRecorded'
  BY NextInvariant, NextOutcome
<1>3. Init => Contract!Init
  <2> SUFFICES ASSUME Init PROVE Contract!Init
    OBVIOUS
  <2>1. LastSucceeded = cur - 1
    BY InitInvariant, MappedDone
  <2> QED
    BY <2>1 DEF Init, Contract!Init, OutcomeInLog
<1>4. /\ RunInvariant /\ RunInvariant' /\ OutcomeRecorded /\ OutcomeRecorded'
      /\ [Next]_vars
      => [Contract!Next]_(Contract!contractVars)
  BY StepRefines
<1> QED
  BY <1>1, <1>2, <1>3, <1>4, PTL DEF Spec, LogFollowsContract, Contract!Spec

-----------------------------------------------------------------------------
(***************************************************************************)
(* Part 2: sessions of a run.                                              *)
(***************************************************************************)

Finished(s) == Logged("step_succeeded", s)

\* Every step in front of n is finished.
FinishedUpTo(n) == \A s \in 1..n-1 : Finished(s)

Bounded == MaxFresh = 1 /\ MaxOther = 0

\* The log is a sequence, however long.
LogIsSequence == \E S : log \in Seq(S)

SessionTypes ==
    /\ TypeOK /\ InStep
    /\ used \in [{"fresh", "resume", "crash", "other"} -> Nat]
    /\ proc \in {"none", "opening", "running"}
    /\ resumeFrom \in 0..N /\ checkpoint.step \in 0..N

\* Nothing is there before the one `agent run`.
NothingBefore ==
    /\ freshAt = 0
    /\ used.fresh = 0 => log = <<>> /\ proc = "none" /\ checkpoint = NoCheckpoint

LastIs(t) == log # <<>> /\ log[Len(log)].type = t

\* What the process writes down when the runner is over describes how it ended.
EndIsWritten ==
    /\ pc = "paused" => LastIs("run_paused") /\ log[Len(log)].step = cur
    /\ pc = "completed" => LastIs("run_completed") /\ cur = N + 1
    /\ pc = "aborting" => LastIs("step_failed") /\ log[Len(log)].step = cur
    /\ pc = "aborted" => /\ Len(log) > 1 /\ LastIs("run_aborted")
                         /\ log[Len(log) - 1].type = "step_failed"
                         /\ log[Len(log) - 1].step = cur

\* Wherever a process is, or the next one starts, what is in front is finished.
NothingSkipped ==
    /\ FinishedUpTo(checkpoint.step)
    /\ proc = "opening" => FinishedUpTo(resumeFrom)
    /\ proc = "running" => FinishedUpTo(cur) /\ EndIsWritten
    /\ ResumeNeverSkips

SessionInvariant == SessionTypes /\ NothingBefore /\ NothingSkipped

\* What is said of logs that are loaded as a whole.
LoadedInvariant == LogIsSequence /\ (Len(log) <= EventLimit => SessionInvariant)

-----------------------------------------------------------------------------
(***************************************************************************)
(* The log grows, and what is finished stays finished.                     *)
(***************************************************************************)
LEMMA AppendedSequence ==
    ASSUME LogIsSequence, NEW e, log' = Append(log, e)
    PROVE  LogIsSequence' /\ Len(log) \in Nat /\ Len(log') = Len(log) + 1
<1>1. PICK S : log \in Seq(S) BY DEF LogIsSequence
<1>2. log \in Seq(S \cup {e}) /\ e \in S \cup {e} BY <1>1
<1>3. log' \in Seq(S \cup {e}) /\ Len(log') = Len(log) + 1 /\ Len(log) \in Nat BY <1>2
<1> QED BY <1>3 DEF LogIsSequence

LEMMA LogOnlyGrows ==
    ASSUME LogIsSequence, [SessionNext]_sessionVars
    PROVE  LogIsSequence' /\ Len(log) \in Nat /\ Len(log) <= Len(log')
<1>1. Len(log) \in Nat BY DEF LogIsSequence
<1>2. ASSUME UNCHANGED log PROVE LogIsSequence' /\ Len(log) <= Len(log')
    BY <1>1, <1>2 DEF LogIsSequence
<1>3. ASSUME NEW e, log' = Append(log, e) PROVE LogIsSequence' /\ Len(log) <= Len(log')
    BY <1>1, <1>3, AppendedSequence
<1>4. CASE UNCHANGED sessionVars BY <1>1, <1>2, <1>4 DEF sessionVars, vars
<1>5. CASE OpenFresh \/ OpenResume \/ OpeningFails
    BY <1>1, <1>2, <1>5 DEF OpenFresh, OpenResume, OpeningFails, Open, vars
<1>6. CASE Launch
    BY <1>1, <1>2, <1>3, <1>6 DEF Launch, Enter, Silent, Emit
<1>7. CASE Run
  <2>1. RunnerStep BY <1>7 DEF Run
  <2> QED BY <1>1, <1>2, <1>3, <2>1
      DEF RunnerStep, PauseAtStep, StartAttempt, Prepare, Approve, TryCandidate,
          NoCandidateLeft, PostconditionFails, Succeed, Retry, FailStep, Abort, Complete,
          Silent, Emit
<1>8. CASE CloseReturned \/ CloseRaised \/ Crash \/ Pause
    BY <1>1, <1>2, <1>8 DEF CloseReturned, CloseRaised, Exit, Crash, Pause, RequestPause,
                            runnerVars
<1>9. CASE SwitchMode \/ FixLatestFailed
    BY <1>1, <1>3, <1>9 DEF SwitchMode, FixLatestFailed, RecordElsewhere
<1> QED BY <1>1, <1>4, <1>5, <1>6, <1>7, <1>8, <1>9 DEF SessionNext, ProcessStep

(* A new row that is no run_resumed, or one whose step has all its          *)
(* predecessors finished, keeps what is said of resumed processes.          *)
LEMMA ResumedRows ==
    ASSUME TypeOK, freshAt = 0, UNCHANGED freshAt, ResumeNeverSkips,
           NEW t \in EventTypes, NEW s \in 0..N+1, NEW a \in Nat, Emit(t, s, a),
           t = "run_resumed" => FinishedUpTo(s)
    PROVE  ResumeNeverSkips'
<1>0. /\ Len(log') = Len(log) + 1 /\ Len(log) \in Nat
      /\ DOMAIN log = 1..Len(log)
      /\ \A i \in 1..Len(log) : log'[i] = log[i]
      /\ log'[Len(log) + 1] = Event(t, s, a)
    BY EmitAppends
<1>1. SUFFICES ASSUME NEW i \in 1..Len(log'), log'[i].type = "run_resumed",
                      NEW r \in 1..log'[i].step-1
               PROVE  \E j \in 1..i-1 : log'[j].type = "step_succeeded" /\ log'[j].step = r
    BY DEF ResumeNeverSkips, ThisExecution, FinishedBefore
<1>2. CASE i \in 1..Len(log)
  <2>1. log[i].type = "run_resumed" /\ r \in 1..log[i].step-1 BY <1>0, <1>1, <1>2
  <2>2. i \in ThisExecution BY <1>2, <1>0 DEF ThisExecution
  <2>3. FinishedBefore(i, r) BY <2>1, <2>2 DEF ResumeNeverSkips
  <2>4. PICK j \in 1..i-1 : log[j].type = "step_succeeded" /\ log[j].step = r
      BY <2>3 DEF FinishedBefore
  <2> QED BY <1>0, <1>2, <2>4
<1>3. CASE i = Len(log) + 1
  <2>1. t = "run_resumed" /\ log'[i].step = s BY <1>0, <1>1, <1>3 DEF Event
  <2>2. Logged("step_succeeded", r) BY <1>1, <2>1 DEF FinishedUpTo, Finished
  <2>3. PICK j \in 1..Len(log) : log[j].type = "step_succeeded" /\ log[j].step = r
      BY <1>0, <2>2 DEF Logged
  <2> QED BY <1>0, <1>3, <2>3
<1> QED BY <1>0, <1>1, <1>2, <1>3

LEMMA SilentKeepsFinished ==
    ASSUME UNCHANGED <<log, freshAt>>
    PROVE  /\ \A n : FinishedUpTo(n)' <=> FinishedUpTo(n)
           /\ ResumeNeverSkips => ResumeNeverSkips'
    BY DEF FinishedUpTo, Finished, Logged, ResumeNeverSkips, ThisExecution, FinishedBefore

-----------------------------------------------------------------------------
(***************************************************************************)
(* A step of the runner.                                                   *)
(***************************************************************************)
LEMMA LastRow ==
    ASSUME TypeOK, NEW t \in EventTypes, NEW s \in 0..N+1, NEW a \in Nat, Emit(t, s, a)
    PROVE  /\ LastIs(t)' /\ log'[Len(log')].step = s
           /\ Len(log) \in Nat /\ Len(log') = Len(log) + 1
           /\ \A i \in 1..Len(log) : log'[i] = log[i]
<1>1. /\ Len(log') = Len(log) + 1 /\ Len(log) \in Nat /\ log' \in Seq(EventRecord)
      /\ \A i \in 1..Len(log) : log'[i] = log[i]
      /\ log'[Len(log) + 1] = Event(t, s, a)
    BY EmitAppends
<1>2. log' # <<>> BY <1>1
<1>3. Event(t, s, a).type = t /\ Event(t, s, a).step = s BY DEF Event
<1> QED BY <1>1, <1>2, <1>3 DEF LastIs

\* The stages in which a row describes how the run stands.
Described == {"paused", "completed", "aborting", "aborted"}

(* A step of the runner keeps the finished prefix at its index, and writes  *)
(* the end of the run as the last row.                                      *)
LEMMA RunnerKeepsOrder ==
    ASSUME TypeOK, InStep, freshAt = 0, UNCHANGED freshAt, RunnerStep,
           FinishedUpTo(cur), EndIsWritten, ResumeNeverSkips
    PROVE  /\ FinishedUpTo(cur)' /\ EndIsWritten' /\ ResumeNeverSkips'
           /\ \A n : FinishedUpTo(n) => FinishedUpTo(n)'
<1> USE GraphAssumption DEF GraphAssumption
<1>0. /\ cur \in 1..N+1 /\ cur \in 0..N+1 /\ 0 \in 0..N+1 /\ attempt \in Nat /\ 0 \in Nat
      /\ StepEvents \cup RunEvents \subseteq EventTypes /\ N \in Nat
    BY DEF TypeOK, EventTypes
<1>1. ASSUME Silent, cur' = cur, pc' \notin Described
      PROVE  /\ FinishedUpTo(cur)' /\ EndIsWritten' /\ ResumeNeverSkips'
             /\ \A n : FinishedUpTo(n) => FinishedUpTo(n)'
  <2>1. UNCHANGED <<log, freshAt>> BY <1>1 DEF Silent
  <2>2. /\ \A n : FinishedUpTo(n)' <=> FinishedUpTo(n)
        /\ ResumeNeverSkips'
      BY <2>1, SilentKeepsFinished
  <2>3. FinishedUpTo(cur)' BY <1>1, <2>1 DEF FinishedUpTo, Finished, Logged
  <2>4. EndIsWritten' BY <1>1 DEF EndIsWritten, Described
  <2>5. \A n : FinishedUpTo(n) => FinishedUpTo(n)'
      BY <2>1 DEF FinishedUpTo, Finished, Logged
  <2> QED BY <2>2, <2>3, <2>4, <2>5
<1>2. ASSUME NEW t \in EventTypes \ {"run_resumed"}, NEW s \in 0..N+1, NEW a \in Nat,
             Emit(t, s, a)
      PROVE  /\ ResumeNeverSkips'
             /\ \A n : FinishedUpTo(n) => FinishedUpTo(n)'
             /\ LastIs(t)' /\ log'[Len(log')].step = s
             /\ Len(log) \in Nat /\ Len(log') = Len(log) + 1
             /\ \A i \in 1..Len(log) : log'[i] = log[i]
  <2>1. ResumeNeverSkips' BY <1>2, ResumedRows
  <2>2. \A r : Logged("step_succeeded", r) => Logged("step_succeeded", r)'
      BY <1>2, LoggedAfterEmit
  <2>3. \A n : FinishedUpTo(n) => FinishedUpTo(n)' BY <2>2 DEF FinishedUpTo, Finished
  <2> QED BY <1>2, <2>1, <2>3, LastRow
<1>3. ASSUME cur' = cur, \A n : FinishedUpTo(n) => FinishedUpTo(n)'
      PROVE  FinishedUpTo(cur)'
    BY <1>3 DEF FinishedUpTo, Finished
<1>4. CASE PauseAtStep
  <2>1. Emit("run_paused", cur, 0) /\ cur' = cur /\ pc' = "paused"
      BY <1>4 DEF PauseAtStep
  <2>2. "run_paused" \in EventTypes \ {"run_resumed"} BY DEF EventTypes, RunEvents
  <2> QED BY <1>0, <1>2, <1>3, <2>1, <2>2 DEF EndIsWritten
<1>5. CASE StartAttempt
  <2>1. Emit("step_started", cur, attempt') /\ cur' = cur /\ pc' = "prepare"
        /\ attempt' \in Nat
      BY <1>0, <1>5 DEF StartAttempt
  <2>2. "step_started" \in EventTypes \ {"run_resumed"} BY DEF EventTypes, StepEvents
  <2> QED BY <1>0, <1>2, <1>3, <2>1, <2>2 DEF EndIsWritten
<1>6. CASE Prepare \/ Approve \/ TryCandidate \/ NoCandidateLeft \/ PostconditionFails
    BY <1>1, <1>6 DEF Prepare, Approve, TryCandidate, NoCandidateLeft, PostconditionFails,
                      Described
<1>7. CASE Succeed
  <2>1. Emit("step_succeeded", cur, attempt) /\ cur' = cur + 1 /\ pc' = "loop"
      BY <1>7 DEF Succeed
  <2>2. "step_succeeded" \in EventTypes \ {"run_resumed"} BY DEF EventTypes, StepEvents
  <2>3. \A s \in 1..cur : Finished(s)'
    <3> SUFFICES ASSUME NEW s \in 1..cur PROVE Finished(s)' OBVIOUS
    <3>1. Finished(s) \/ s = cur BY <1>0 DEF FinishedUpTo
    <3>2. Finished(s)' <=> Finished(s) \/ s = cur
        BY <1>0, <2>1, <2>2, LoggedAfterEmit DEF Finished
    <3> QED BY <3>1, <3>2
  <2>4. FinishedUpTo(cur)' BY <1>0, <2>1, <2>3 DEF FinishedUpTo, Finished
  <2> QED BY <1>0, <1>2, <2>1, <2>2, <2>4 DEF EndIsWritten
<1>8. CASE Retry
  <2>1. Emit("step_retried", cur, attempt) /\ cur' = cur /\ pc' = "retry"
      BY <1>8 DEF Retry
  <2>2. "step_retried" \in EventTypes \ {"run_resumed"} BY DEF EventTypes, StepEvents
  <2> QED BY <1>0, <1>2, <1>3, <2>1, <2>2 DEF EndIsWritten
<1>9. CASE FailStep
  <2>1. Emit("step_failed", cur, attempt) /\ cur' = cur /\ pc' = "aborting"
      BY <1>9 DEF FailStep
  <2>2. "step_failed" \in EventTypes \ {"run_resumed"} BY DEF EventTypes, StepEvents
  <2> QED BY <1>0, <1>2, <1>3, <2>1, <2>2 DEF EndIsWritten
<1>10. CASE Abort
  <2>1. /\ Emit("run_aborted", 0, 0) /\ cur' = cur /\ pc = "aborting" /\ pc' = "aborted"
      BY <1>10 DEF Abort
  <2>2. "run_aborted" \in EventTypes \ {"run_resumed"} BY DEF EventTypes, RunEvents
  <2>3. /\ ResumeNeverSkips' /\ \A n : FinishedUpTo(n) => FinishedUpTo(n)'
        /\ LastIs("run_aborted")' /\ Len(log) \in Nat /\ Len(log') = Len(log) + 1
        /\ \A i \in 1..Len(log) : log'[i] = log[i]
      BY <1>0, <1>2, <2>1, <2>2
  <2>4. LastIs("step_failed") /\ log[Len(log)].step = cur BY <2>1 DEF EndIsWritten
  <2>5. Len(log) \in 1..Len(log)
    <3>1. log \in Seq(EventRecord) /\ log # <<>> BY <2>4 DEF TypeOK, LastIs
    <3> QED BY <3>1
  <2>6. /\ Len(log') > 1 /\ log'[Len(log') - 1].type = "step_failed"
        /\ log'[Len(log') - 1].step = cur
      BY <2>3, <2>4, <2>5 DEF LastIs
  <2>7. EndIsWritten' BY <2>1, <2>3, <2>6 DEF EndIsWritten
  <2> QED BY <1>3, <2>1, <2>3, <2>7
<1>11. CASE Complete
  <2>1. /\ Emit("run_completed", 0, 0) /\ cur' = cur /\ cur \notin Steps
        /\ pc' = "completed"
      BY <1>11 DEF Complete
  <2>2. "run_completed" \in EventTypes \ {"run_resumed"} BY DEF EventTypes, RunEvents
  <2>3. cur = N + 1 BY <1>0, <2>1 DEF Steps
  <2> QED BY <1>0, <1>2, <1>3, <2>1, <2>2, <2>3 DEF EndIsWritten
<1> QED BY <1>4, <1>5, <1>6, <1>7, <1>8, <1>9, <1>10, <1>11 DEF RunnerStep

-----------------------------------------------------------------------------
(***************************************************************************)
(* What a process reads back, and a step of the session.                   *)
(***************************************************************************)
(* A log within the limit is loaded as a whole.                             *)
LEMMA LoadedWhole ==
    ASSUME TypeOK, Len(log) <= EventLimit
    PROVE  /\ Rows(EventLimit) = log
           /\ DOMAIN log = 1..Len(log) /\ Len(log) \in Nat
<1>1. /\ log \in Seq(EventRecord) /\ Len(log) \in Nat /\ DOMAIN log = 1..Len(log)
      /\ EventLimit \in Nat
    BY BoundsAssumption DEF TypeOK
<1>2. (IF Len(log) < EventLimit THEN Len(log) ELSE EventLimit) = Len(log)
  <2>1. ASSUME NEW x \in Nat, NEW y \in Nat, x <= y
        PROVE  (IF x < y THEN x ELSE y) = x
      BY <2>1
  <2>2. Len(log) <= EventLimit OBVIOUS
  <2> QED BY <1>1, <2>1, <2>2, Zenon
<1>3. SubSeq(log, 1, Len(log)) = log BY <1>1
<1> QED BY <1>1, <1>2, <1>3 DEF Rows

(* After a failure and the row run_aborted behind it, the failure found is  *)
(* that one.                                                                *)
LEMMA LatestIsLast ==
    ASSUME TypeOK, Len(log) > 1, LastIs("run_aborted"),
           log[Len(log) - 1].type = "step_failed"
    PROVE  LatestFailed(log) = log[Len(log) - 1].step
<1> DEFINE failures == {i \in DOMAIN log : log[i].type = "step_failed"}
           m == Len(log) - 1
<1>1. DOMAIN log = 1..Len(log) /\ Len(log) \in Nat BY DEF TypeOK
<1>2. m \in failures /\ \A j \in failures : j \in Int /\ j <= m
  <2>1. \A j \in failures : j # Len(log) BY DEF LastIs
  <2> QED BY <1>1, <2>1
<1>3. \A k \in failures : (\A j \in failures : j <= k) => k = m BY <1>1, <1>2
<1>4. (CHOOSE k \in failures : \A j \in failures : j <= k) = m BY <1>2, <1>3
<1>5. failures # {} BY <1>2
<1> HIDE DEF m
<1> QED BY <1>4, <1>5 DEF LatestFailed, m

(* A checkpoint of a run that is over has nothing unfinished in front.      *)
LEMMA CloseKeepsPrefix ==
    ASSUME SessionTypes, proc = "running", FinishedUpTo(cur), EndIsWritten,
           Len(log) <= EventLimit, FinishedUpTo(checkpoint.step),
           CloseReturned \/ CloseRaised
    PROVE  checkpoint'.step \in 0..N /\ FinishedUpTo(checkpoint'.step)
<1> USE GraphAssumption, BoundsAssumption DEF GraphAssumption, BoundsAssumption
<1>0. /\ Rows(EventLimit) = log /\ Len(log) \in Nat /\ DOMAIN log = 1..Len(log)
      /\ cur \in 1..N+1 /\ N \in Nat /\ N > 0
    BY LoadedWhole DEF SessionTypes, TypeOK
<1>1. ASSUME NEW s, CheckpointNow(s) PROVE checkpoint'.step = s
    BY <1>1 DEF CheckpointNow
<1>2. CASE CloseReturned /\ pc = "paused"
  <2>1. LastIs("run_paused") /\ log[Len(log)].step = cur BY <1>2 DEF EndIsWritten
  <2>2. CheckpointNow(cur) BY <1>0, <1>2, <2>1 DEF CloseReturned, LastIs
  <2>3. cur \in Steps BY <1>2 DEF SessionTypes, InStep
  <2> QED BY <1>0, <1>1, <2>2, <2>3 DEF Steps
<1>3. CASE CloseReturned /\ pc = "completed"
  <2>1. LastIs("run_completed") /\ cur = N + 1 BY <1>3 DEF EndIsWritten
  <2>2. CheckpointNow(N) BY <1>0, <1>3, <2>1 DEF CloseReturned, LastIs
  <2>3. FinishedUpTo(N) BY <1>0, <2>1 DEF FinishedUpTo
  <2> QED BY <1>0, <1>1, <2>2, <2>3
<1>4. CASE CloseRaised
  <2>1. pc = "aborted" BY <1>4 DEF CloseRaised
  <2>2. LatestFailed(log) = cur
      BY <2>1, LatestIsLast DEF EndIsWritten, SessionTypes
  <2>3. cur \in Steps BY <2>1 DEF SessionTypes, InStep
  <2>4. CheckpointNow(cur) BY <1>0, <1>4, <2>2, <2>3 DEF CloseRaised, NoStep, Steps
  <2> QED BY <1>0, <1>1, <2>3, <2>4 DEF Steps
<1>5. CloseReturned => pc \in {"paused", "completed"} BY DEF CloseReturned
<1> QED BY <1>2, <1>3, <1>4, <1>5

LEMMA SessionStep ==
    ASSUME Bounded, SessionInvariant, Len(log) <= EventLimit, [SessionNext]_sessionVars
    PROVE  SessionInvariant'
<1> USE GraphAssumption, BoundsAssumption DEF GraphAssumption, BoundsAssumption
<1>0. /\ SessionTypes /\ NothingBefore /\ NothingSkipped /\ TypeOK /\ InStep /\ freshAt = 0
      /\ N \in Nat /\ N > 0
    BY DEF SessionInvariant, SessionTypes, NothingBefore
<1>1. ASSUME UNCHANGED log PROVE \A n : FinishedUpTo(n) => FinishedUpTo(n)'
    BY <1>1 DEF FinishedUpTo, Finished, Logged
<1>2. CASE UNCHANGED sessionVars
    BY <1>2 DEF sessionVars, vars, procVars, SessionInvariant, SessionTypes, TypeOK, InStep,
                NothingBefore, NothingSkipped, FinishedUpTo, Finished, Logged, EndIsWritten,
                LastIs, ResumeNeverSkips, ThisExecution, FinishedBefore
<1>3. CASE OpenFresh
  <2>1. /\ proc = "none" /\ proc' = "opening" /\ resumeFrom' = 0 /\ offset' = 0
        /\ pauseRequested' = FALSE /\ used.fresh < 1 /\ freshAt' = Len(log)
        /\ used' = [used EXCEPT !["fresh"] = @ + 1]
        /\ UNCHANGED <<log, pc, start, cur, attempt, cand, effects, granted, checkpoint>>
      BY <1>3 DEF OpenFresh, Open, SpendOf, NoStep, Bounded
  <2>2. used.fresh = 0 /\ log = <<>> /\ Len(log) = 0
      BY <1>0, <2>1 DEF SessionTypes, NothingBefore
  <2>3. used' \in [{"fresh", "resume", "crash", "other"} -> Nat] /\ used'.fresh = 1
      BY <1>0, <2>1, <2>2 DEF SessionTypes
  <2>4. TypeOK' /\ InStep' BY <1>0, <2>1 DEF TypeOK, InStep
  <2>5. SessionTypes' BY <1>0, <2>1, <2>3, <2>4 DEF SessionTypes
  <2>6. NothingBefore' BY <2>1, <2>2, <2>3 DEF NothingBefore
  <2>7. FinishedUpTo(0)' BY DEF FinishedUpTo
  <2>8. FinishedUpTo(checkpoint.step)'
      BY <1>0, <2>1 DEF NothingSkipped, FinishedUpTo, Finished, Logged
  <2>9. ResumeNeverSkips' BY <2>1, <2>2 DEF ResumeNeverSkips, ThisExecution
  <2>10. NothingSkipped' BY <2>1, <2>7, <2>8, <2>9 DEF NothingSkipped
  <2> QED BY <2>5, <2>6, <2>10 DEF SessionInvariant
<1>4. CASE OpenResume
  <2>1. /\ proc = "none" /\ proc' = "opening" /\ resumeFrom' = checkpoint.step
        /\ offset' = 0 /\ checkpoint # NoCheckpoint
        /\ pauseRequested' = FALSE /\ freshAt' = freshAt
        /\ used' = [used EXCEPT !["resume"] = @ + 1]
        /\ UNCHANGED <<log, pc, start, cur, attempt, cand, effects, granted, checkpoint>>
      BY <1>4 DEF OpenResume, Open, SpendOf
  <2>3. /\ used' \in [{"fresh", "resume", "crash", "other"} -> Nat]
        /\ used'.fresh = used.fresh
      BY <1>0, <2>1 DEF SessionTypes
  <2>4. TypeOK' /\ InStep' BY <1>0, <2>1 DEF TypeOK, InStep
  <2>5. SessionTypes' BY <1>0, <2>1, <2>3, <2>4 DEF SessionTypes
  <2>6. NothingBefore' BY <1>0, <2>1, <2>3 DEF NothingBefore
  <2>7. FinishedUpTo(checkpoint.step) /\ ResumeNeverSkips BY <1>0 DEF NothingSkipped
  <2>8. FinishedUpTo(checkpoint.step)' /\ FinishedUpTo(resumeFrom)'
      BY <2>1, <2>7 DEF FinishedUpTo, Finished, Logged
  <2>9. ResumeNeverSkips' BY <2>1, <2>7, SilentKeepsFinished
  <2>10. NothingSkipped' BY <2>1, <2>8, <2>9 DEF NothingSkipped
  <2> QED BY <2>5, <2>6, <2>10 DEF SessionInvariant
<1>5. CASE OpeningFails
  <2>1. proc' = "none" /\ proc = "opening" BY <1>5 DEF OpeningFails
  <2>2. UNCHANGED <<log, offset, pc, start, cur, attempt, cand, effects, granted,
                    pauseRequested, resumeFrom, checkpoint, freshAt, used>>
      BY <1>5 DEF OpeningFails, vars
  <2>3. TypeOK' /\ InStep' BY <1>0, <2>2 DEF TypeOK, InStep
  <2>4. SessionTypes' BY <1>0, <2>1, <2>2, <2>3 DEF SessionTypes
  <2>5. NothingBefore' BY <1>0, <2>1, <2>2 DEF NothingBefore
  <2>6. FinishedUpTo(checkpoint.step)'
      BY <1>0, <2>2 DEF NothingSkipped, FinishedUpTo, Finished, Logged
  <2>7. ResumeNeverSkips' BY <1>0, <2>2, SilentKeepsFinished DEF NothingSkipped
  <2> QED BY <2>1, <2>4, <2>5, <2>6, <2>7 DEF SessionInvariant, NothingSkipped
<1>6. CASE Launch
  <2> DEFINE from == IF resumeFrom = NoStep THEN 1 ELSE resumeFrom
  <2>1. /\ proc = "opening" /\ proc' = "running" /\ pc' = "loop"
        /\ cur' = from /\ start' = from /\ attempt' = 0 /\ cand' = 1 /\ granted' = {}
        /\ UNCHANGED <<effects, pauseRequested, resumeFrom, checkpoint, freshAt, used>>
        /\ IF resumeFrom = NoStep THEN Silent ELSE Emit("run_resumed", resumeFrom, 0)
      BY <1>6 DEF Launch, Enter
  <2>2. resumeFrom \in 0..N /\ from \in 1..N+1 /\ resumeFrom \in 0..N+1 /\ 0 \in Nat
        /\ FinishedUpTo(resumeFrom)
      BY <1>0, <2>1 DEF SessionTypes, NoStep, NothingSkipped
  <2>3. "run_resumed" \in EventTypes BY DEF EventTypes, RunEvents
  <2>4. log' \in Seq(EventRecord) /\ offset' \in Nat
    <3>1. CASE resumeFrom = NoStep BY <1>0, <2>1, <3>1 DEF Silent, TypeOK
    <3>2. CASE resumeFrom # NoStep BY <1>0, <2>1, <2>2, <2>3, <3>2, EmitType
    <3> QED BY <3>1, <3>2
  <2>5. TypeOK' /\ InStep'
    <3>1. pc' \in Stages /\ 1 \in Nat BY <2>1 DEF Stages
    <3> QED BY <1>0, <2>1, <2>2, <2>4, <3>1 DEF TypeOK, InStep
  <2>6. SessionTypes' BY <1>0, <2>1, <2>5 DEF SessionTypes
  <2>7. used.fresh # 0 BY <1>0, <2>1 DEF NothingBefore
  <2>8. NothingBefore' BY <1>0, <2>1, <2>7 DEF NothingBefore
  <2>9. ResumeNeverSkips' /\ \A n : FinishedUpTo(n) => FinishedUpTo(n)'
    <3>1. CASE resumeFrom = NoStep
      <4>1. UNCHANGED <<log, freshAt>> BY <2>1, <3>1 DEF Silent
      <4> QED BY <1>0, <1>1, <4>1, SilentKeepsFinished DEF NothingSkipped
    <3>2. CASE resumeFrom # NoStep
      <4>1. Emit("run_resumed", resumeFrom, 0) BY <2>1, <3>2
      <4>2. ResumeNeverSkips'
          BY <1>0, <2>1, <2>2, <2>3, <4>1, ResumedRows DEF NothingSkipped
      <4>3. \A r : Logged("step_succeeded", r) => Logged("step_succeeded", r)'
          BY <1>0, <2>2, <2>3, <4>1, LoggedAfterEmit
      <4> QED BY <4>2, <4>3 DEF FinishedUpTo, Finished
    <3> QED BY <3>1, <3>2
  <2>10. FinishedUpTo(from)
      BY <2>2 DEF FinishedUpTo, NoStep
  <2>11. FinishedUpTo(cur)' BY <2>1, <2>9, <2>10 DEF FinishedUpTo, Finished
  <2>12. FinishedUpTo(checkpoint.step)'
      BY <1>0, <2>1, <2>9 DEF NothingSkipped, FinishedUpTo, Finished
  <2>13. EndIsWritten' BY <2>1 DEF EndIsWritten
  <2> QED BY <2>1, <2>6, <2>8, <2>9, <2>11, <2>12, <2>13
      DEF SessionInvariant, NothingSkipped
<1>7. CASE Run
  <2>1. proc = "running" /\ RunnerStep /\ UNCHANGED <<proc, resumeFrom, checkpoint, freshAt, used>>
      BY <1>7 DEF Run, procVars
  <2>2. TypeOK' /\ InStep' BY <1>0, <2>1, NextType DEF Next
  <2>3. SessionTypes' BY <1>0, <2>1, <2>2 DEF SessionTypes
  <2>4. NothingBefore' BY <1>0, <2>1 DEF NothingBefore
  <2>5. /\ FinishedUpTo(cur)' /\ EndIsWritten' /\ ResumeNeverSkips'
        /\ \A n : FinishedUpTo(n) => FinishedUpTo(n)'
      BY <1>0, <2>1, RunnerKeepsOrder DEF NothingSkipped
  <2>6. FinishedUpTo(checkpoint.step)'
      BY <1>0, <2>1, <2>5 DEF NothingSkipped, FinishedUpTo, Finished
  <2> QED BY <2>1, <2>3, <2>4, <2>5, <2>6 DEF SessionInvariant, NothingSkipped
<1>8. CASE CloseReturned \/ CloseRaised
  <2>1. /\ proc = "running" /\ proc' = "none" /\ pc' = "idle"
        /\ UNCHANGED <<log, offset, start, cur, attempt, cand, effects, granted,
                       pauseRequested, resumeFrom, freshAt, used>>
      BY <1>8 DEF CloseReturned, CloseRaised, Exit
  <2>2. FinishedUpTo(checkpoint.step) /\ FinishedUpTo(cur) /\ EndIsWritten /\ ResumeNeverSkips
      BY <1>0, <2>1 DEF NothingSkipped
  <2>3. checkpoint'.step \in 0..N /\ FinishedUpTo(checkpoint'.step)
      BY <1>0, <1>8, <2>1, <2>2, CloseKeepsPrefix
  <2>4. TypeOK' /\ InStep'
    <3>1. pc' \in Stages BY <2>1 DEF Stages
    <3> QED BY <1>0, <2>1, <3>1 DEF TypeOK, InStep
  <2>5. SessionTypes' BY <1>0, <2>1, <2>3, <2>4 DEF SessionTypes
  <2>6. used.fresh # 0 BY <1>0, <2>1 DEF NothingBefore
  <2>7. NothingBefore' BY <1>0, <2>1, <2>6 DEF NothingBefore
  <2>8. FinishedUpTo(checkpoint.step)' BY <2>1, <2>3 DEF FinishedUpTo, Finished, Logged
  <2>9. ResumeNeverSkips' BY <2>1, <2>2, SilentKeepsFinished
  <2> QED BY <2>1, <2>5, <2>7, <2>8, <2>9 DEF SessionInvariant, NothingSkipped
<1>9. CASE Crash
  <2>1. /\ proc # "none" /\ proc' = "none" /\ pc' = "idle"
        /\ used' = [used EXCEPT !["crash"] = @ + 1]
        /\ UNCHANGED <<log, offset, start, cur, attempt, cand, effects, granted,
                       pauseRequested, resumeFrom, checkpoint, freshAt>>
      BY <1>9 DEF Crash, SpendOf
  <2>2. /\ used' \in [{"fresh", "resume", "crash", "other"} -> Nat]
        /\ used'.fresh = used.fresh
      BY <1>0, <2>1 DEF SessionTypes
  <2>3. TypeOK' /\ InStep'
    <3>1. pc' \in Stages BY <2>1 DEF Stages
    <3> QED BY <1>0, <2>1, <3>1 DEF TypeOK, InStep
  <2>4. SessionTypes' BY <1>0, <2>1, <2>2, <2>3 DEF SessionTypes
  <2>5. used.fresh # 0 BY <1>0, <2>1 DEF NothingBefore
  <2>6. NothingBefore' BY <1>0, <2>1, <2>2, <2>5 DEF NothingBefore
  <2>7. FinishedUpTo(checkpoint.step)'
      BY <1>0, <2>1 DEF NothingSkipped, FinishedUpTo, Finished, Logged
  <2>8. ResumeNeverSkips' BY <1>0, <2>1, SilentKeepsFinished DEF NothingSkipped
  <2> QED BY <2>1, <2>4, <2>6, <2>7, <2>8 DEF SessionInvariant, NothingSkipped
<1>10. CASE Pause
  <2>1. RequestPause /\ UNCHANGED <<proc, resumeFrom, checkpoint, freshAt, used>>
      BY <1>10 DEF Pause, procVars
  <2>2. UNCHANGED <<log, pc, cur>> BY <2>1 DEF RequestPause, runnerVars
  <2>3. TypeOK' /\ InStep' BY <1>0, <2>1, NextType DEF Next
  <2>4. SessionTypes' BY <1>0, <2>1, <2>3 DEF SessionTypes
  <2>5. NothingBefore' BY <1>0, <2>1, <2>2 DEF NothingBefore
  <2>6. NothingSkipped'
      BY <1>0, <2>1, <2>2 DEF NothingSkipped, FinishedUpTo, Finished, Logged, EndIsWritten,
                              LastIs, ResumeNeverSkips, ThisExecution, FinishedBefore
  <2> QED BY <2>4, <2>5, <2>6 DEF SessionInvariant
<1>11. CASE SwitchMode \/ FixLatestFailed
  <2>1. used["other"] < 0 BY <1>11 DEF SwitchMode, FixLatestFailed, RecordElsewhere, SpendOf, Bounded
  <2> QED BY <1>0, <2>1 DEF SessionTypes
<1> QED BY <1>2, <1>3, <1>4, <1>5, <1>6, <1>7, <1>8, <1>9, <1>10, <1>11
        DEF SessionNext, ProcessStep

LEMMA SessionInitInvariant == SessionInit => LoadedInvariant
<1> SUFFICES ASSUME SessionInit PROVE LoadedInvariant OBVIOUS
<1> USE GraphAssumption, BoundsAssumption DEF GraphAssumption, BoundsAssumption
<1>1. TypeOK /\ InStep BY InitType DEF SessionInit
<1>2. log = <<>> /\ log \in Seq(EventRecord) /\ proc = "none" /\ Len(log) = 0
    BY <1>1 DEF SessionInit, Init, TypeOK
<1>3. LogIsSequence BY <1>2 DEF LogIsSequence
<1>4. checkpoint.step = 0 /\ resumeFrom = 0 /\ freshAt = 0 /\ checkpoint = NoCheckpoint
    BY DEF SessionInit, NoCheckpoint, NoStep
<1>5. used \in [{"fresh", "resume", "crash", "other"} -> Nat] BY DEF SessionInit
<1>6. SessionTypes BY <1>1, <1>2, <1>4, <1>5 DEF SessionTypes
<1>7. NothingBefore BY <1>2, <1>4 DEF NothingBefore
<1>8. FinishedUpTo(checkpoint.step) BY <1>4 DEF FinishedUpTo
<1>9. ResumeNeverSkips BY <1>2, <1>4 DEF ResumeNeverSkips, ThisExecution
<1>10. NothingSkipped BY <1>2, <1>8, <1>9 DEF NothingSkipped
<1> QED BY <1>3, <1>6, <1>7, <1>10 DEF LoadedInvariant, SessionInvariant

LEMMA LoadedStays ==
    ASSUME Bounded
    PROVE  LoadedInvariant /\ [SessionNext]_sessionVars => LoadedInvariant'
<1> SUFFICES ASSUME LoadedInvariant, [SessionNext]_sessionVars PROVE LoadedInvariant'
    OBVIOUS
<1>1. LogIsSequence' /\ Len(log) \in Nat /\ Len(log) <= Len(log')
    BY LogOnlyGrows DEF LoadedInvariant
<1>2. ASSUME Len(log') <= EventLimit PROVE SessionInvariant'
  <2>1. Len(log') \in Nat BY <1>1 DEF LogIsSequence
  <2>2. Len(log) <= EventLimit BY <1>1, <1>2, <2>1, BoundsAssumption DEF BoundsAssumption
  <2> QED BY <2>2, SessionStep DEF LoadedInvariant
<1> QED BY <1>1, <1>2 DEF LoadedInvariant

(* However often one `agent run` is paused, fails, is killed and resumed, a *)
(* resumed process starts behind finished steps only, as long as no other   *)
(* process adds rows to its log and the log fits into what is loaded of it  *)
(* (run_cmd.py:177-212, 248-271).                                           *)
THEOREM ResumesSkipNothing ==
    ASSUME MaxFresh = 1, MaxOther = 0
    PROVE  SessionSpec => [](Len(log) <= EventLimit => ResumeNeverSkips)
<1>1. LoadedInvariant /\ [SessionNext]_sessionVars => LoadedInvariant'
    BY LoadedStays DEF Bounded
<1>2. LoadedInvariant => (Len(log) <= EventLimit => ResumeNeverSkips)
    BY DEF LoadedInvariant, SessionInvariant, NothingSkipped
<1> QED BY <1>1, <1>2, SessionInitInvariant, PTL DEF SessionSpec

-----------------------------------------------------------------------------
(***************************************************************************)
(* What the processes do together, seen through the log, is AtLeastOnce.   *)
(***************************************************************************)
\* Of the steps, the first d are finished and no other.
Frontier(d) == d \in 0..N /\ \A s \in Steps : Finished(s) <=> s <= d

\* The finished steps are a prefix of the graph.
InOrder == freshAt = 0 /\ log \in Seq(EventRecord) /\ \E d \in 0..N : Frontier(d)

PrefixIsFrontier == \A d \in 0..N : Frontier(d) => FinishedPrefix = d

LEMMA FinishedPrefixIsFrontier == InOrder => PrefixIsFrontier
<1> SUFFICES ASSUME InOrder, NEW d \in 0..N, Frontier(d) PROVE FinishedPrefix = d
    BY DEF PrefixIsFrontier
<1> USE GraphAssumption DEF GraphAssumption, Steps
<1> DEFINE Upto(e) == /\ \A s \in 1..e : FinishedBefore(Len(log) + 1, s)
                      /\ e = N \/ ~FinishedBefore(Len(log) + 1, e + 1)
<1>1. \A s : FinishedBefore(Len(log) + 1, s) <=> Finished(s)
  <2>1. Len(log) \in Nat /\ DOMAIN log = 1..Len(log) /\ freshAt = 0 BY DEF InOrder
  <2>2. \A s : FinishedBefore(Len(log) + 1, s)
                <=> \E j \in 1..Len(log) : log[j].type = "step_succeeded" /\ log[j].step = s
      BY <2>1 DEF FinishedBefore
  <2> QED BY <2>1, <2>2 DEF Finished, Logged
<1>2. d \in 0..N /\ Frontier(d) OBVIOUS
<1>3. Upto(d)
  <2>1. \A s \in 1..d : s \in Steps /\ s <= d BY <1>2
  <2>2. d # N => d + 1 \in Steps /\ ~(d + 1 <= d) BY <1>2
  <2> QED BY <1>1, <1>2, <2>1, <2>2 DEF Frontier
<1>4. ASSUME NEW e \in 0..N, Upto(e) PROVE e = d
  <2>1. CASE e < d
    <3>1. e + 1 \in Steps /\ e + 1 <= d /\ e # N BY <1>2, <2>1
    <3> QED BY <1>1, <1>2, <1>4, <3>1 DEF Frontier
  <2>2. CASE d < e
    <3>1. d + 1 \in 1..e /\ d + 1 \in Steps /\ ~(d + 1 <= d) BY <1>2, <2>2
    <3> QED BY <1>1, <1>2, <1>4, <3>1 DEF Frontier
  <2> QED BY <1>2, <2>1, <2>2
<1>5. FinishedPrefix = CHOOSE e \in 0..N : Upto(e) BY DEF FinishedPrefix
<1> HIDE DEF Upto
<1> QED BY <1>3, <1>4, <1>5

LEMMA ReportedAfterEmit ==
    ASSUME TypeOK, freshAt = 0, UNCHANGED freshAt,
           NEW t \in EventTypes, NEW s \in 0..N+1, NEW a \in Nat, Emit(t, s, a)
    PROVE  Reported' <=> t = "run_completed" \/ (Reported /\ t # "run_resumed")
<1>0. /\ Len(log') = Len(log) + 1 /\ Len(log) \in Nat
      /\ \A i \in 1..Len(log) : log'[i] = log[i]
      /\ log'[Len(log) + 1].type = t
  <2>1. /\ Len(log') = Len(log) + 1 /\ Len(log) \in Nat
        /\ \A i \in 1..Len(log) : log'[i] = log[i]
        /\ log'[Len(log) + 1] = Event(t, s, a)
      BY EmitAppends
  <2> QED BY <2>1 DEF Event
<1>1. Reported <=> \E i \in 1..Len(log) :
                      /\ log[i].type = "run_completed"
                      /\ \A j \in i+1..Len(log) : log[j].type # "run_resumed"
    BY DEF Reported, ThisExecution
<1>2. Reported' <=> \E i \in 1..Len(log) + 1 :
                      /\ log'[i].type = "run_completed"
                      /\ \A j \in i+1..Len(log) + 1 : log'[j].type # "run_resumed"
    BY <1>0 DEF Reported, ThisExecution
<1>3. ASSUME t = "run_completed" PROVE Reported'
  <2>1. Len(log) + 1 \in 1..Len(log) + 1 /\ Len(log) + 1 + 1..Len(log) + 1 = {} BY <1>0
  <2> QED BY <1>0, <1>2, <1>3, <2>1
<1>4. ASSUME Reported, t # "run_resumed" PROVE Reported'
  <2>1. PICK i \in 1..Len(log) : /\ log[i].type = "run_completed"
                                 /\ \A j \in i+1..Len(log) : log[j].type # "run_resumed"
      BY <1>1, <1>4
  <2>2. i \in 1..Len(log) + 1 /\ log'[i].type = "run_completed" BY <1>0, <2>1
  <2>3. ASSUME NEW j \in i+1..Len(log) + 1 PROVE log'[j].type # "run_resumed"
    <3>1. j = Len(log) + 1 \/ (j \in i+1..Len(log) /\ j \in 1..Len(log)) BY <1>0
    <3> QED BY <1>0, <1>4, <2>1, <3>1
  <2> QED BY <1>2, <2>2, <2>3
<1>5. ASSUME Reported', t # "run_completed" PROVE Reported /\ t # "run_resumed"
  <2>1. PICK i \in 1..Len(log) + 1 :
            /\ log'[i].type = "run_completed"
            /\ \A j \in i+1..Len(log) + 1 : log'[j].type # "run_resumed"
      BY <1>2, <1>5
  <2>2. i \in 1..Len(log) BY <1>0, <1>5, <2>1
  <2>3. Len(log) + 1 \in i+1..Len(log) + 1 BY <1>0, <2>2
  <2>4. \A j \in i+1..Len(log) : j \in i+1..Len(log) + 1 /\ j \in 1..Len(log)
      BY <1>0, <2>2
  <2> QED BY <1>0, <1>1, <2>1, <2>2, <2>3, <2>4
<1> QED BY <1>3, <1>4, <1>5

\* A row of the execution that finishes a step, or reports the end, is earned.
EarnedRow(t, s) ==
    /\ t = "step_succeeded" => s \in Steps /\ FinishedUpTo(s)
    /\ t = "run_completed" => FinishedUpTo(N + 1)

(* A step of the session adds at most one row, and that one is earned.      *)
LEMMA RowsAreEarned ==
    ASSUME Bounded, SessionInvariant, [SessionNext]_sessionVars
    PROVE  \/ UNCHANGED log
           \/ \E t \in EventTypes, s \in 0..N+1, a \in Nat : Emit(t, s, a) /\ EarnedRow(t, s)
<1> USE GraphAssumption DEF GraphAssumption
<1>0. /\ SessionTypes /\ TypeOK /\ InStep /\ N \in Nat
      /\ cur \in 1..N+1 /\ cur \in 0..N+1 /\ attempt \in Nat /\ 0 \in Nat /\ 0 \in 0..N+1
      /\ proc = "running" => FinishedUpTo(cur)
    BY DEF SessionInvariant, SessionTypes, TypeOK, NothingSkipped
<1>1. CASE UNCHANGED sessionVars BY <1>1 DEF sessionVars, vars
<1>2. CASE OpenFresh \/ OpenResume \/ OpeningFails \/ CloseReturned \/ CloseRaised
           \/ Crash \/ Pause
    BY <1>2 DEF OpenFresh, OpenResume, Open, OpeningFails, CloseReturned, CloseRaised, Exit,
                Crash, Pause, RequestPause, runnerVars, vars
<1>3. CASE Launch
  <2>1. \/ UNCHANGED log \/ Emit("run_resumed", resumeFrom, 0)
      BY <1>3 DEF Launch, Silent
  <2>2. "run_resumed" \in EventTypes /\ resumeFrom \in 0..N+1
      BY <1>0 DEF EventTypes, RunEvents, SessionTypes
  <2>3. EarnedRow("run_resumed", resumeFrom) BY DEF EarnedRow
  <2> QED BY <1>0, <2>1, <2>2, <2>3
<1>4. CASE Run
  <2> DEFINE Row(t, s, a) == Emit(t, s, a) /\ EarnedRow(t, s)
  <2>1. RunnerStep /\ FinishedUpTo(cur) BY <1>0, <1>4 DEF Run
  <2>2. CASE PauseAtStep
    <3>1. Emit("run_paused", cur, 0) BY <2>2 DEF PauseAtStep
    <3>2. "run_paused" \in EventTypes BY DEF EventTypes, RunEvents
    <3> QED BY <1>0, <3>1, <3>2 DEF EarnedRow
  <2>3. CASE StartAttempt
    <3>1. Emit("step_started", cur, attempt') /\ attempt' \in Nat
        BY <1>0, <2>3 DEF StartAttempt
    <3>2. "step_started" \in EventTypes BY DEF EventTypes, StepEvents
    <3>3. EarnedRow("step_started", cur) BY DEF EarnedRow
    <3> QED BY <1>0, <3>1, <3>2, <3>3
  <2>4. CASE Prepare \/ Approve \/ TryCandidate \/ NoCandidateLeft \/ PostconditionFails
      BY <2>4 DEF Prepare, Approve, TryCandidate, NoCandidateLeft, PostconditionFails, Silent
  <2>5. CASE Succeed
    <3>1. Emit("step_succeeded", cur, attempt) /\ pc = "post" BY <2>5 DEF Succeed
    <3>2. "step_succeeded" \in EventTypes BY DEF EventTypes, StepEvents
    <3>3. EarnedRow("step_succeeded", cur) BY <1>0, <2>1, <3>1 DEF EarnedRow, InStep
    <3> QED BY <1>0, <3>1, <3>2, <3>3
  <2>6. CASE Retry
    <3>1. Emit("step_retried", cur, attempt) BY <2>6 DEF Retry
    <3>2. "step_retried" \in EventTypes BY DEF EventTypes, StepEvents
    <3>3. EarnedRow("step_retried", cur) BY DEF EarnedRow
    <3> QED BY <1>0, <3>1, <3>2, <3>3
  <2>7. CASE FailStep
    <3>1. Emit("step_failed", cur, attempt) BY <2>7 DEF FailStep
    <3>2. "step_failed" \in EventTypes BY DEF EventTypes, StepEvents
    <3>3. EarnedRow("step_failed", cur) BY DEF EarnedRow
    <3> QED BY <1>0, <3>1, <3>2, <3>3
  <2>8. CASE Abort
    <3>1. Emit("run_aborted", 0, 0) BY <2>8 DEF Abort
    <3>2. "run_aborted" \in EventTypes BY DEF EventTypes, RunEvents
    <3>3. EarnedRow("run_aborted", 0) BY DEF EarnedRow
    <3> QED BY <1>0, <3>1, <3>2, <3>3
  <2>9. CASE Complete
    <3>1. Emit("run_completed", 0, 0) /\ cur = N + 1 BY <1>0, <2>9 DEF Complete, Steps
    <3>2. "run_completed" \in EventTypes BY DEF EventTypes, RunEvents
    <3>3. EarnedRow("run_completed", 0) BY <2>1, <3>1 DEF EarnedRow
    <3> QED BY <1>0, <3>1, <3>2, <3>3
  <2> QED BY <2>1, <2>2, <2>3, <2>4, <2>5, <2>6, <2>7, <2>8, <2>9 DEF RunnerStep
<1>5. CASE SwitchMode \/ FixLatestFailed
  <2>1. used["other"] < 0
      BY <1>5 DEF SwitchMode, FixLatestFailed, RecordElsewhere, SpendOf, Bounded
  <2> QED BY <1>0, <2>1 DEF SessionTypes
<1> QED BY <1>1, <1>2, <1>3, <1>4, <1>5 DEF SessionNext, ProcessStep

(* An earned row moves the frontier by one step, or not at all.             *)
LEMMA FrontierAfterEmit ==
    ASSUME TypeOK, NEW t \in EventTypes, NEW s \in 0..N+1, NEW a \in Nat, Emit(t, s, a),
           EarnedRow(t, s), NEW d \in 0..N, Frontier(d)
    PROVE  \/ Frontier(d)'
           \/ t = "step_succeeded" /\ d < N /\ Frontier(d + 1)'
<1> USE GraphAssumption DEF GraphAssumption, Steps
<1>1. \A r : Finished(r)' <=> Finished(r) \/ ("step_succeeded" = t /\ r = s)
    BY LoggedAfterEmit DEF Finished
<1>2. CASE t # "step_succeeded" \/ s <= d
  <2>1. \A r \in Steps : t = "step_succeeded" /\ r = s => Finished(r)
      BY <1>2 DEF Frontier
  <2> QED BY <1>1, <2>1 DEF Frontier
<1>3. CASE t = "step_succeeded" /\ ~(s <= d)
  <2>1. s \in Steps /\ FinishedUpTo(s) BY <1>3 DEF EarnedRow
  <2>2. s = d + 1
    <3>1. CASE d + 1 < s
      <4>1. d + 1 \in 1..s-1 /\ d + 1 \in Steps /\ ~(d + 1 <= d) BY <2>1, <3>1
      <4> QED BY <2>1, <4>1 DEF Frontier, FinishedUpTo
    <3> QED BY <1>3, <2>1, <3>1
  <2>3. d < N /\ d + 1 \in 0..N BY <2>1, <2>2
  <2>4. \A r \in Steps : r <= d + 1 <=> (r <= d \/ r = s) BY <2>2
  <2> QED BY <1>1, <1>3, <2>3, <2>4 DEF Frontier
<1> QED BY <1>2, <1>3

LEMMA OrderStep ==
    ASSUME Bounded, SessionInvariant, SessionInvariant', InOrder, [SessionNext]_sessionVars
    PROVE  InOrder' /\ [Execution!Next]_<<FinishedPrefix, Reported>>
<1> USE GraphAssumption DEF GraphAssumption
<1>1. /\ TypeOK /\ freshAt = 0 /\ freshAt' = 0 /\ UNCHANGED freshAt /\ N \in Nat
      /\ log' \in Seq(EventRecord)
    BY DEF SessionInvariant, NothingBefore, SessionTypes, TypeOK
<1>2. PICK d \in 0..N : Frontier(d) BY DEF InOrder
<1>3. FinishedPrefix = d BY <1>2, FinishedPrefixIsFrontier DEF PrefixIsFrontier
<1>4. ASSUME NEW e \in 0..N, Frontier(e)' PROVE InOrder' /\ FinishedPrefix' = e
  <2>1. InOrder' BY <1>1, <1>4 DEF InOrder
  <2>2. (InOrder => PrefixIsFrontier)' BY FinishedPrefixIsFrontier, PTL
  <2> QED BY <1>4, <2>1, <2>2 DEF PrefixIsFrontier
<1>5. CASE UNCHANGED log
  <2>1. Frontier(d)' BY <1>2, <1>5 DEF Frontier, Finished, Logged
  <2>2. Reported' <=> Reported BY <1>1, <1>5 DEF Reported, ThisExecution
  <2>3. InOrder' /\ FinishedPrefix' = d BY <1>4, <2>1
  <2>4. Reported' = Reported BY <2>2 DEF Reported
  <2> QED BY <1>3, <2>3, <2>4
<1>6. CASE \E t \in EventTypes, s \in 0..N+1, a \in Nat : Emit(t, s, a) /\ EarnedRow(t, s)
  <2>1. PICK t \in EventTypes, s \in 0..N+1, a \in Nat : Emit(t, s, a) /\ EarnedRow(t, s)
      BY <1>6
  <2>2. Reported' <=> t = "run_completed" \/ (Reported /\ t # "run_resumed")
      BY <1>1, <2>1, ReportedAfterEmit
  <2>3. Frontier(d)' \/ (t = "step_succeeded" /\ d < N /\ Frontier(d + 1)')
      BY <1>1, <1>2, <2>1, FrontierAfterEmit
  <2>4. CASE t = "step_succeeded" /\ d < N /\ Frontier(d + 1)'
    <3>1. d + 1 \in 0..N BY <1>1, <2>4
    <3>2. InOrder' /\ FinishedPrefix' = d + 1 BY <1>4, <2>4, <3>1
    <3>3. Reported' = Reported BY <2>2, <2>4 DEF Reported
    <3>4. Execution!Finish BY <1>3, <2>4, <3>2, <3>3 DEF Execution!Finish
    <3> QED BY <3>2, <3>4 DEF Execution!Next
  <2>5. CASE Frontier(d)'
    <3>1. InOrder' /\ FinishedPrefix' = d BY <1>4, <2>5
    <3>2. CASE t = "run_completed"
      <4>1. FinishedUpTo(N + 1) BY <2>1, <3>2 DEF EarnedRow
      <4>2. d = N
        <5>1. N > 0 /\ N \in 1..N+1-1 /\ N \in Steps
            BY <1>1, BoundsAssumption DEF BoundsAssumption, Steps
        <5>2. N <= d BY <1>2, <4>1, <5>1 DEF FinishedUpTo, Frontier
        <5> QED BY <1>1, <1>2, <5>2
      <4>3. Reported' = TRUE BY <2>2, <3>2 DEF Reported
      <4>4. Execution!Report BY <1>3, <3>1, <4>2, <4>3 DEF Execution!Report
      <4> QED BY <3>1, <4>4 DEF Execution!Next
    <3>3. CASE t = "run_resumed"
      <4>1. Reported' = FALSE BY <2>2, <3>3 DEF Reported
      <4>2. Execution!Reopen BY <1>3, <3>1, <4>1 DEF Execution!Reopen
      <4> QED BY <3>1, <4>2 DEF Execution!Next
    <3>4. CASE t \notin {"run_completed", "run_resumed"}
      <4>1. Reported' = Reported BY <2>2, <3>4 DEF Reported
      <4> QED BY <1>3, <3>1, <4>1
    <3> QED BY <3>2, <3>3, <3>4
  <2> QED BY <2>3, <2>4, <2>5
<1> QED BY <1>5, <1>6, RowsAreEarned

(* The processes of one `agent run` and its resumes together finish the     *)
(* steps in order and report the end only when all are finished, whatever   *)
(* is killed, under the same conditions (run_cmd.py:110-271).               *)
THEOREM SessionImplementsAtLeastOnce ==
    ASSUME MaxFresh = 1, MaxOther = 0
    PROVE  SessionSpec /\ [](Len(log) <= EventLimit) => ExecutesAtLeastOnce
<1> USE GraphAssumption DEF GraphAssumption
<1>1. SessionInit => InOrder /\ Execution!Init
  <2> SUFFICES ASSUME SessionInit PROVE InOrder /\ Execution!Init OBVIOUS
  <2>1. log = <<>> /\ freshAt = 0 /\ log \in Seq(EventRecord) /\ DOMAIN log = {}
        /\ Len(log) = 0
      BY DEF SessionInit, Init
  <2>2. 0 \in 0..N /\ Frontier(0) BY <2>1 DEF Frontier, Finished, Logged, Steps
  <2>3. InOrder BY <2>1, <2>2 DEF InOrder
  <2>4. FinishedPrefix = 0 BY <2>2, <2>3, FinishedPrefixIsFrontier DEF PrefixIsFrontier
  <2>5. Reported = FALSE BY <2>1 DEF Reported, ThisExecution
  <2> QED BY <2>3, <2>4, <2>5 DEF Execution!Init
<1>2. LoadedInvariant /\ [SessionNext]_sessionVars => LoadedInvariant'
    BY LoadedStays DEF Bounded
<1>3. LoadedInvariant /\ Len(log) <= EventLimit => SessionInvariant BY DEF LoadedInvariant
<1>4. SessionInvariant /\ SessionInvariant' /\ InOrder /\ [SessionNext]_sessionVars
        => InOrder' /\ [Execution!Next]_<<FinishedPrefix, Reported>>
    BY OrderStep DEF Bounded
<1> QED BY <1>1, <1>2, <1>3, <1>4, SessionInitInvariant, PTL
        DEF SessionSpec, ExecutesAtLeastOnce, Execution!Spec

-----------------------------------------------------------------------------
(***************************************************************************)
(* Part 3: what a run that is over leaves behind, and the next one finds.  *)
(***************************************************************************)

\* The row at i, of type t, is the last of this execution but for rows of the types in tail.
LastBut(t, tail, i) ==
    /\ i \in freshAt+1..Len(log)
    /\ log[i].type = t
    /\ \A k \in i+1..Len(log) : log[k].type \in tail

\* The rows that may follow the failure of a run before the next process.
AfterFailure == OtherEvents \cup {"run_aborted"}

\* Only steps fail.
FailuresNameSteps ==
    \A i \in 1..Len(log) : log[i].type = "step_failed" => log[i].step \in Steps

\* What the session's variables may be, in any number of executions.
SessionTyped ==
    /\ TypeOK /\ InStep
    /\ proc \in {"none", "opening", "running"}
    /\ resumeFrom \in 0..N /\ checkpoint.step \in 0..N
    /\ freshAt \in 0..Len(log)
    /\ FailuresNameSteps

\* How a process that is over ended is in the log.
EndIsTold ==
    proc = "running" =>
        /\ pc = "paused" => \E i : LastBut("run_paused", OtherEvents, i) /\ log[i].step = cur
        /\ pc = "completed" => \E i : LastBut("run_completed", OtherEvents, i)
        /\ pc \in {"aborting", "aborted"} =>
               \E i : LastBut("step_failed", AfterFailure, i) /\ log[i].step = cur

\* A failure behind which nothing went on is where the process or the next one is.
FailureIsNext ==
    \A i : LastBut("step_failed", AfterFailure, i) =>
        /\ proc = "running" => pc \in {"aborting", "aborted"} /\ log[i].step = cur
        /\ proc # "running" => checkpoint.step = log[i].step
        /\ proc = "opening" => resumeFrom = log[i].step

\* Finished or complete in this execution.
FinishedHere(s) ==
    \E i \in freshAt+1..Len(log) : log[i].type = "step_succeeded" /\ log[i].step = s

CompletedHere == \E i \in freshAt+1..Len(log) : log[i].type = "run_completed"

UnfinishedFrom(n) == \A s \in Steps : s >= n => ~FinishedHere(s)

\* Until the execution is complete, nothing is finished where the process, or the next one,
\* is or further on.
NothingFinishedAhead ==
    CompletedHere \/
        /\ proc = "running" => UnfinishedFrom(cur)
        /\ proc # "running" => UnfinishedFrom(checkpoint.step)
        /\ proc = "opening" => UnfinishedFrom(resumeFrom)

\* How much of each bound is used up is counted.
UsedTyped == used \in [{"fresh", "resume", "crash", "other"} -> Nat]

\* What is said of the process besides its types.
Follows == EndIsTold /\ FailureIsNext /\ NothingFinishedAhead

\* What FinishedStepsNotRepeated says of executions in which nothing was killed.
NotRepeated ==
    \A i \in ThisExecution :
        (log[i].type = "step_started" /\ FinishedBefore(i, log[i].step)) =>
            \E j \in freshAt+1..i-1 : log[j].type = "run_completed"

Kept == ResumeAtFailedStep /\ NotRepeated

\* The inductive invariant: of executions in which nothing was killed, as long as the log
\* is loaded as a whole.
Unkilled ==
    /\ LogIsSequence /\ UsedTyped
    /\ NothingKilled /\ Len(log) <= EventLimit => SessionTyped /\ Follows /\ Kept

-----------------------------------------------------------------------------
(***************************************************************************)
(* Rows that are added to an execution.                                    *)
(***************************************************************************)

\* The row Event(t, s, a) is added to this execution.
Added(t, s, a) ==
    /\ t \in EventTypes /\ s \in 0..N+1 /\ a \in Nat
    /\ log' = Append(log, Event(t, s, a))
    /\ freshAt' = freshAt

\* A new row is behind all others, which stay.
LEMMA RowAdded ==
    ASSUME TypeOK, NEW t, NEW s, NEW a, Added(t, s, a)
    PROVE  /\ Len(log') = Len(log) + 1 /\ Len(log) \in Nat
           /\ log' \in Seq(EventRecord)
           /\ \A i \in 1..Len(log) : log'[i] = log[i]
           /\ log'[Len(log) + 1].type = t /\ log'[Len(log) + 1].step = s
<1>1. Event(t, s, a) \in EventRecord BY DEF Event, EventRecord, EventTypes, Added
<1>2. log \in Seq(EventRecord) /\ Len(log) \in Nat BY DEF TypeOK
<1>3. PICK e \in EventRecord : e = Event(t, s, a) BY <1>1
<1>4. log' = Append(log, e) BY <1>3 DEF Added
<1>5. /\ Len(log') = Len(log) + 1 /\ log' \in Seq(EventRecord)
      /\ \A i \in 1..Len(log) : log'[i] = log[i]
      /\ log'[Len(log) + 1] = e
    BY <1>2, <1>4
<1>6. e.type = t /\ e.step = s BY <1>3 DEF Event
<1> QED BY <1>2, <1>5, <1>6

\* What the last row but for some types is after a row was added.
LEMMA LastAfter ==
    ASSUME TypeOK, freshAt \in 0..Len(log), NEW t, NEW s, NEW a, Added(t, s, a),
           NEW type, NEW tail, NEW i
    PROVE  /\ LastBut(type, tail, i)' =>
                  \/ i = Len(log) + 1 /\ t = type /\ log'[i].step = s
                  \/ t \in tail /\ LastBut(type, tail, i) /\ log'[i] = log[i]
           /\ t \in tail /\ LastBut(type, tail, i) =>
                  LastBut(type, tail, i)' /\ log'[i] = log[i]
<1>0. /\ Len(log') = Len(log) + 1 /\ Len(log) \in Nat
      /\ \A k \in 1..Len(log) : log'[k] = log[k]
      /\ log'[Len(log) + 1].type = t /\ log'[Len(log) + 1].step = s
    BY RowAdded
<1>1. freshAt' = freshAt /\ freshAt \in Nat /\ freshAt <= Len(log) BY <1>0 DEF Added
<1>2. ASSUME LastBut(type, tail, i)', i # Len(log) + 1
      PROVE  t \in tail /\ LastBut(type, tail, i) /\ log'[i] = log[i]
  <2>1. /\ i \in freshAt+1..Len(log)+1 /\ log'[i].type = type
        /\ \A k \in i+1..Len(log)+1 : log'[k].type \in tail
      BY <1>0, <1>1, <1>2 DEF LastBut
  <2>2. i \in freshAt+1..Len(log) /\ i \in 1..Len(log) BY <1>0, <1>1, <1>2, <2>1
  <2>3. Len(log) + 1 \in i+1..Len(log)+1 BY <1>0, <2>2
  <2>4. \A k \in i+1..Len(log) : k \in i+1..Len(log)+1 /\ k \in 1..Len(log) BY <1>0, <2>2
  <2>5. \A k \in i+1..Len(log) : log[k].type \in tail BY <1>0, <2>1, <2>4
  <2> QED BY <1>0, <2>1, <2>2, <2>3, <2>5 DEF LastBut
<1>3. ASSUME LastBut(type, tail, i)', i = Len(log) + 1 PROVE t = type /\ log'[i].step = s
    BY <1>0, <1>3 DEF LastBut
<1>4. ASSUME t \in tail, LastBut(type, tail, i) PROVE LastBut(type, tail, i)' /\ log'[i] = log[i]
  <2>1. /\ i \in freshAt+1..Len(log) /\ log[i].type = type
        /\ \A k \in i+1..Len(log) : log[k].type \in tail
      BY <1>4 DEF LastBut
  <2>2. i \in 1..Len(log) /\ i \in freshAt+1..Len(log)+1 BY <1>0, <1>1, <2>1
  <2>3. \A k \in i+1..Len(log)+1 :
            k = Len(log) + 1 \/ (k \in i+1..Len(log) /\ k \in 1..Len(log))
      BY <1>0, <2>2
  <2>4. \A k \in i+1..Len(log)+1 : log'[k].type \in tail BY <1>0, <1>4, <2>1, <2>3
  <2> QED BY <1>0, <1>1, <2>1, <2>2, <2>4 DEF LastBut
<1> QED BY <1>2, <1>3, <1>4

LEMMA NewIsLast ==
    ASSUME TypeOK, freshAt \in 0..Len(log), NEW t, NEW s, NEW a, Added(t, s, a), NEW tail
    PROVE  \E i : LastBut(t, tail, i)' /\ log'[i].step = s
<1>0. /\ Len(log') = Len(log) + 1 /\ Len(log) \in Nat
      /\ log'[Len(log) + 1].type = t /\ log'[Len(log) + 1].step = s
    BY RowAdded
<1>1. freshAt' = freshAt /\ freshAt \in Nat /\ freshAt <= Len(log) BY <1>0 DEF Added
<1>2. PICK n : n = Len(log) + 1 OBVIOUS
<1>3. LastBut(t, tail, n)' /\ log'[n].step = s BY <1>0, <1>1, <1>2 DEF LastBut
<1> QED BY <1>3

LEMMA HereAfter ==
    ASSUME TypeOK, freshAt \in 0..Len(log), NEW t, NEW s, NEW a, Added(t, s, a)
    PROVE  /\ \A r : FinishedHere(r)' <=> FinishedHere(r) \/ (t = "step_succeeded" /\ r = s)
           /\ CompletedHere' <=> CompletedHere \/ t = "run_completed"
<1>0. /\ Len(log') = Len(log) + 1 /\ Len(log) \in Nat
      /\ \A k \in 1..Len(log) : log'[k] = log[k]
      /\ log'[Len(log) + 1].type = t /\ log'[Len(log) + 1].step = s
    BY RowAdded
<1>1. freshAt' = freshAt /\ freshAt \in Nat /\ freshAt <= Len(log) BY <1>0 DEF Added
<1>2. /\ Len(log) + 1 \in freshAt+1..Len(log)+1
      /\ \A i \in freshAt+1..Len(log)+1 :
            i = Len(log) + 1 \/ (i \in freshAt+1..Len(log) /\ i \in 1..Len(log))
      /\ \A i \in freshAt+1..Len(log) : i \in freshAt+1..Len(log)+1 /\ i \in 1..Len(log)
    BY <1>0, <1>1
<1>3. ASSUME NEW r
      PROVE  FinishedHere(r)' <=> FinishedHere(r) \/ (t = "step_succeeded" /\ r = s)
    BY <1>0, <1>1, <1>2 DEF FinishedHere
<1>4. CompletedHere' <=> CompletedHere \/ t = "run_completed"
    BY <1>0, <1>1, <1>2 DEF CompletedHere
<1> QED BY <1>3, <1>4

LEMMA NothingAdded ==
    ASSUME UNCHANGED <<log, freshAt>>
    PROVE  /\ \A type, tail, i : LastBut(type, tail, i)' <=> LastBut(type, tail, i)
           /\ \A r : FinishedHere(r)' <=> FinishedHere(r)
           /\ CompletedHere' <=> CompletedHere
           /\ ResumeAtFailedStep' <=> ResumeAtFailedStep
    BY DEF LastBut, FinishedHere, CompletedHere, ResumeAtFailedStep, ThisExecution

\* A new run_resumed keeps to the failure in front of it, if there is one.
LEMMA FailedRows ==
    ASSUME TypeOK, freshAt \in 0..Len(log), NEW t, NEW s, NEW a, Added(t, s, a),
           ResumeAtFailedStep,
           t = "run_resumed" =>
               \A i : LastBut("step_failed", AfterFailure, i) => log[i].step = s
    PROVE  ResumeAtFailedStep'
<1>0. /\ Len(log') = Len(log) + 1 /\ Len(log) \in Nat
      /\ \A k \in 1..Len(log) : log'[k] = log[k]
      /\ log'[Len(log) + 1].type = t /\ log'[Len(log) + 1].step = s
    BY RowAdded
<1>1. freshAt' = freshAt /\ freshAt \in Nat /\ freshAt <= Len(log) BY <1>0 DEF Added
<1>2. SUFFICES ASSUME NEW i \in freshAt+1..Len(log)+1, NEW j \in freshAt+1..i-1,
                      log'[i].type = "run_resumed", log'[j].type = "step_failed",
                      \A k \in j+1..i-1 : log'[k].type \in AfterFailure
               PROVE  log'[i].step = log'[j].step
    BY <1>0, <1>1 DEF ResumeAtFailedStep, ThisExecution, AfterFailure
<1>3. /\ i = Len(log) + 1 \/ (i \in freshAt+1..Len(log) /\ i \in 1..Len(log))
      /\ j \in 1..Len(log) /\ j \in freshAt+1..Len(log)
      /\ \A k \in j+1..i-1 : k \in 1..Len(log)
    BY <1>0, <1>1, <1>2
<1>4. log[j].type = "step_failed" /\ \A k \in j+1..i-1 : log[k].type \in AfterFailure
    BY <1>0, <1>2, <1>3
<1>5. CASE i \in freshAt+1..Len(log) /\ i \in 1..Len(log)
  <2>1. log[i].type = "run_resumed" BY <1>0, <1>2, <1>5
  <2>2. log[i].step = log[j].step
      BY <1>2, <1>4, <1>5, <2>1 DEF ResumeAtFailedStep, ThisExecution, AfterFailure
  <2> QED BY <1>0, <1>3, <1>5, <2>2
<1>6. CASE i = Len(log) + 1
  <2>1. \A k \in j+1..Len(log) : log[k].type \in AfterFailure BY <1>0, <1>4, <1>6
  <2>2. LastBut("step_failed", AfterFailure, j) BY <1>3, <1>4, <2>1 DEF LastBut
  <2>3. log[j].step = s BY <1>0, <1>2, <1>6, <2>2
  <2> QED BY <1>0, <1>3, <1>6, <2>3
<1> QED BY <1>3, <1>5, <1>6

\* A step that is started is not finished, or the execution is complete.
LEMMA StartedRows ==
    ASSUME TypeOK, freshAt \in 0..Len(log), NEW t, NEW s, NEW a, Added(t, s, a),
           NotRepeated, t = "step_started" /\ FinishedHere(s) => CompletedHere
    PROVE  NotRepeated'
<1>0. /\ Len(log') = Len(log) + 1 /\ Len(log) \in Nat
      /\ \A k \in 1..Len(log) : log'[k] = log[k]
      /\ log'[Len(log) + 1].type = t /\ log'[Len(log) + 1].step = s
    BY RowAdded
<1>1. freshAt' = freshAt /\ freshAt \in Nat /\ freshAt <= Len(log) BY <1>0 DEF Added
<1>2. SUFFICES ASSUME NEW i \in freshAt+1..Len(log)+1, log'[i].type = "step_started",
                      NEW f \in freshAt+1..i-1,
                      log'[f].type = "step_succeeded", log'[f].step = log'[i].step
               PROVE  \E j \in freshAt+1..i-1 : log'[j].type = "run_completed"
    BY <1>0, <1>1 DEF NotRepeated, ThisExecution, FinishedBefore
<1>3. /\ i = Len(log) + 1 \/ (i \in freshAt+1..Len(log) /\ i \in 1..Len(log))
      /\ \A k \in freshAt+1..i-1 : k \in 1..Len(log)
    BY <1>0, <1>1, <1>2
<1>4. log[f].type = "step_succeeded" /\ log[f].step = log'[i].step BY <1>0, <1>2, <1>3
<1>5. CASE i \in freshAt+1..Len(log) /\ i \in 1..Len(log)
  <2>1. log'[i] = log[i] BY <1>0, <1>5
  <2>2. FinishedBefore(i, log[i].step) BY <1>4, <2>1 DEF FinishedBefore
  <2>3. PICK j \in freshAt+1..i-1 : log[j].type = "run_completed"
      BY <1>2, <1>5, <2>1, <2>2 DEF NotRepeated, ThisExecution
  <2> QED BY <1>0, <1>3, <2>3
<1>6. CASE i = Len(log) + 1
  <2>1. i - 1 = Len(log) BY <1>0, <1>6
  <2>2. t = "step_started" /\ FinishedHere(s) BY <1>0, <1>2, <1>4, <1>6, <2>1 DEF FinishedHere
  <2>3. PICK j \in freshAt+1..Len(log) : log[j].type = "run_completed"
      BY <2>2 DEF CompletedHere
  <2> QED BY <1>0, <1>3, <2>1, <2>3
<1> QED BY <1>3, <1>5, <1>6

-----------------------------------------------------------------------------
(***************************************************************************)
(* The runner goes on.                                                     *)
(***************************************************************************)

LEMMA SilentFollows ==
    ASSUME UNCHANGED <<log, freshAt, proc, resumeFrom, checkpoint>>, Silent, cur' = cur,
           pc \notin Described, pc' \notin Described, Follows, Kept
    PROVE  Follows' /\ Kept'
<1>1. /\ \A type, tail, i : LastBut(type, tail, i)' <=> LastBut(type, tail, i)
      /\ \A r : FinishedHere(r)' <=> FinishedHere(r)
      /\ CompletedHere' <=> CompletedHere
      /\ ResumeAtFailedStep' <=> ResumeAtFailedStep
    BY NothingAdded
<1>2. EndIsTold' BY DEF EndIsTold, Described
<1>3. FailureIsNext' BY <1>1 DEF FailureIsNext, Follows, Described
<1>4. \A n : UnfinishedFrom(n)' <=> UnfinishedFrom(n) BY <1>1 DEF UnfinishedFrom
<1>5. NothingFinishedAhead'
    BY <1>1, <1>4 DEF NothingFinishedAhead, Follows, UnfinishedFrom
<1>6. NotRepeated' BY DEF Kept, NotRepeated, ThisExecution, FinishedBefore
<1> QED BY <1>1, <1>2, <1>3, <1>5, <1>6 DEF Follows, Kept

\* A row of the runner in the middle of a run.
LEMMA RowFollows ==
    ASSUME TypeOK, freshAt \in 0..Len(log), proc = "running",
           UNCHANGED <<proc, resumeFrom, checkpoint>>,
           Follows, Kept, NEW t \in StepEvents \cup Ending, NEW a, Added(t, cur, a),
           pc \notin Described, cur \in Steps,
           cur' = IF t = "step_succeeded" THEN cur + 1 ELSE cur,
           t = "step_failed" <=> pc' = "aborting",
           t = "run_paused" <=> pc' = "paused",
           pc' \notin {"completed", "aborted"}, t \notin {"run_completed", "run_aborted"}
    PROVE  Follows' /\ Kept'
<1>0. /\ cur \in 1..N /\ cur' \in Nat /\ N \in Nat
      /\ t \notin OtherEvents /\ t \notin AfterFailure
      /\ t # "run_resumed"
    BY GraphAssumption DEF GraphAssumption, Steps, OtherEvents, AfterFailure, StepEvents, Ending
<1>1. /\ \A r : FinishedHere(r)' <=> FinishedHere(r) \/ (t = "step_succeeded" /\ r = cur)
      /\ CompletedHere' <=> CompletedHere
    BY HereAfter
<1>2. EndIsTold'
  <2>1. CASE t = "run_paused"
    <3>1. \E i : LastBut("run_paused", OtherEvents, i)' /\ log'[i].step = cur BY <2>1, NewIsLast
    <3> QED BY <2>1, <3>1 DEF EndIsTold
  <2>2. CASE t = "step_failed"
    <3>1. \E i : LastBut("step_failed", AfterFailure, i)' /\ log'[i].step = cur
        BY <2>2, NewIsLast
    <3> QED BY <2>2, <3>1 DEF EndIsTold
  <2>3. CASE t \notin {"run_paused", "step_failed"} BY <2>3 DEF EndIsTold
  <2> QED BY <2>1, <2>2, <2>3
<1>3. FailureIsNext'
  <2>1. SUFFICES ASSUME NEW i, LastBut("step_failed", AfterFailure, i)'
                 PROVE  pc' = "aborting" /\ log'[i].step = cur /\ cur' = cur
      BY DEF FailureIsNext
  <2>2. i = Len(log) + 1 /\ t = "step_failed" /\ log'[i].step = cur
      BY <1>0, <2>1, LastAfter
  <2> QED BY <2>2
<1>4. NothingFinishedAhead'
  <2>1. CASE CompletedHere BY <1>1, <2>1 DEF NothingFinishedAhead
  <2>2. CASE ~CompletedHere
    <3>1. UnfinishedFrom(cur) BY <2>2 DEF Follows, NothingFinishedAhead
    <3>2. ASSUME NEW s \in Steps, s >= cur' PROVE ~FinishedHere(s)'
      <4>1. s >= cur /\ (t = "step_succeeded" => s # cur) BY <1>0, <3>2 DEF Steps
      <4>2. ~FinishedHere(s) BY <3>1, <3>2, <4>1 DEF UnfinishedFrom
      <4> QED BY <1>1, <4>1, <4>2
    <3> QED BY <3>2 DEF NothingFinishedAhead, UnfinishedFrom
  <2> QED BY <2>1, <2>2
<1>5. ResumeAtFailedStep' BY <1>0, FailedRows DEF Kept
<1>6. FinishedHere(cur) => CompletedHere
  <2>1. UnfinishedFrom(cur) => ~FinishedHere(cur) BY <1>0 DEF UnfinishedFrom, Steps
  <2> QED BY <2>1 DEF Follows, NothingFinishedAhead
<1>7. NotRepeated' BY <1>6, StartedRows DEF Kept
<1> QED BY <1>2, <1>3, <1>4, <1>5, <1>7 DEF Follows, Kept

LEMMA AbortFollows ==
    ASSUME TypeOK, freshAt \in 0..Len(log), proc = "running",
           UNCHANGED <<proc, resumeFrom, checkpoint>>,
           Follows, Kept, NEW a, Added("run_aborted", 0, a),
           pc = "aborting", pc' = "aborted", cur' = cur
    PROVE  Follows' /\ Kept'
<1>0. "run_aborted" \in AfterFailure BY DEF AfterFailure
<1>1. /\ \A r : FinishedHere(r)' <=> FinishedHere(r)
      /\ CompletedHere' <=> CompletedHere
    BY HereAfter
<1>2. EndIsTold'
  <2>1. PICK i : LastBut("step_failed", AfterFailure, i) /\ log[i].step = cur
      BY DEF Follows, EndIsTold
  <2>2. LastBut("step_failed", AfterFailure, i)' /\ log'[i] = log[i]
      BY <1>0, <2>1, LastAfter
  <2> QED BY <2>1, <2>2 DEF EndIsTold
<1>3. FailureIsNext'
  <2>1. SUFFICES ASSUME NEW i, LastBut("step_failed", AfterFailure, i)'
                 PROVE  log'[i].step = cur
      BY DEF FailureIsNext
  <2>2. LastBut("step_failed", AfterFailure, i) /\ log'[i] = log[i] BY <2>1, LastAfter
  <2> QED BY <2>2 DEF Follows, FailureIsNext
<1>4. UnfinishedFrom(cur)' <=> UnfinishedFrom(cur) BY <1>1 DEF UnfinishedFrom
<1>5. NothingFinishedAhead' BY <1>1, <1>4 DEF Follows, NothingFinishedAhead
<1>6. ResumeAtFailedStep' BY FailedRows DEF Kept
<1>7. NotRepeated' BY StartedRows DEF Kept
<1> QED BY <1>2, <1>3, <1>5, <1>6, <1>7 DEF Follows, Kept

LEMMA CompleteFollows ==
    ASSUME TypeOK, freshAt \in 0..Len(log), proc = "running",
           UNCHANGED <<proc, resumeFrom, checkpoint>>,
           Follows, Kept, NEW a, Added("run_completed", 0, a), pc' = "completed"
    PROVE  Follows' /\ Kept'
<1>0. "run_completed" \notin AfterFailure BY DEF AfterFailure, OtherEvents
<1>1. CompletedHere' BY HereAfter
<1>2. EndIsTold'
  <2>1. \E i : LastBut("run_completed", OtherEvents, i)' /\ log'[i].step = 0 BY NewIsLast
  <2> QED BY <2>1 DEF EndIsTold
<1>3. FailureIsNext'
  <2>1. ASSUME NEW i, LastBut("step_failed", AfterFailure, i)' PROVE FALSE
      BY <1>0, <2>1, LastAfter
  <2> QED BY <2>1 DEF FailureIsNext
<1>5. NothingFinishedAhead' BY <1>1 DEF NothingFinishedAhead
<1>6. ResumeAtFailedStep' BY FailedRows DEF Kept
<1>7. NotRepeated' BY StartedRows DEF Kept
<1> QED BY <1>2, <1>3, <1>5, <1>6, <1>7 DEF Follows, Kept

\* A row of another process.
LEMMA OtherFollows ==
    ASSUME TypeOK, freshAt \in 0..Len(log), NEW t \in OtherEvents, NEW s, NEW a,
           Added(t, s, a),
           UNCHANGED <<proc, pc, cur, resumeFrom, checkpoint>>, Follows, Kept
    PROVE  Follows' /\ Kept'
<1>0. /\ t \in AfterFailure
      /\ t \notin {"step_succeeded", "run_completed", "run_resumed", "step_started",
                   "step_failed", "run_paused"}
    BY DEF AfterFailure, OtherEvents
<1>1. /\ \A r : FinishedHere(r)' <=> FinishedHere(r)
      /\ CompletedHere' <=> CompletedHere
    BY <1>0, HereAfter
<1>2. ASSUME NEW i, NEW type
      PROVE  /\ LastBut(type, OtherEvents, i) => LastBut(type, OtherEvents, i)' /\ log'[i] = log[i]
             /\ LastBut(type, AfterFailure, i) => LastBut(type, AfterFailure, i)' /\ log'[i] = log[i]
    BY <1>0, LastAfter
<1>3. EndIsTold'
  <2>1. SUFFICES ASSUME proc = "running"
                 PROVE  /\ pc = "paused" =>
                              \E i : LastBut("run_paused", OtherEvents, i)' /\ log'[i].step = cur
                        /\ pc = "completed" => \E i : LastBut("run_completed", OtherEvents, i)'
                        /\ pc \in {"aborting", "aborted"} =>
                              \E i : LastBut("step_failed", AfterFailure, i)' /\ log'[i].step = cur
      BY DEF EndIsTold
  <2>2. CASE pc = "paused"
    <3>1. PICK i : LastBut("run_paused", OtherEvents, i) /\ log[i].step = cur
        BY <2>1, <2>2 DEF Follows, EndIsTold
    <3> QED BY <1>2, <2>2, <3>1
  <2>3. CASE pc = "completed"
    <3>1. PICK i : LastBut("run_completed", OtherEvents, i)
        BY <2>1, <2>3 DEF Follows, EndIsTold
    <3> QED BY <1>2, <2>3, <3>1
  <2>4. CASE pc \in {"aborting", "aborted"}
    <3>1. PICK i : LastBut("step_failed", AfterFailure, i) /\ log[i].step = cur
        BY <2>1, <2>4 DEF Follows, EndIsTold
    <3> QED BY <1>2, <2>4, <3>1
  <2> QED BY <2>2, <2>3, <2>4
<1>4. FailureIsNext'
  <2>1. ASSUME NEW i, LastBut("step_failed", AfterFailure, i)'
        PROVE  LastBut("step_failed", AfterFailure, i) /\ log'[i] = log[i]
      BY <1>0, <2>1, LastAfter
  <2> QED BY <2>1 DEF Follows, FailureIsNext
<1>5. \A n : UnfinishedFrom(n)' <=> UnfinishedFrom(n) BY <1>1 DEF UnfinishedFrom
<1>6. NothingFinishedAhead'
    BY <1>1, <1>5 DEF Follows, NothingFinishedAhead, UnfinishedFrom
<1>7. ResumeAtFailedStep' BY <1>0, FailedRows DEF Kept
<1>8. NotRepeated' BY <1>0, StartedRows DEF Kept
<1> QED BY <1>3, <1>4, <1>6, <1>7, <1>8 DEF Follows, Kept

LEMMA RunnerFollows ==
    ASSUME TypeOK, InStep, freshAt \in 0..Len(log), proc = "running", Run, Follows, Kept
    PROVE  Follows' /\ Kept'
<1>0. /\ UNCHANGED <<proc, resumeFrom, checkpoint, freshAt>> /\ RunnerStep
      /\ cur \in 1..N+1 /\ attempt \in Nat /\ N \in Nat
      /\ pc \notin {"idle", "loop", "completed"} => cur \in Steps
    BY GraphAssumption DEF GraphAssumption, Run, procVars, TypeOK, InStep
<1>1. ASSUME NEW t \in EventTypes, NEW s \in 0..N+1, NEW a \in Nat, Emit(t, s, a)
      PROVE  Added(t, s, a)
    BY <1>0, <1>1 DEF Emit, Added
<1>2. /\ 0 \in 0..N+1 /\ 0 \in Nat
      /\ {"run_aborted", "run_completed"} \subseteq EventTypes
    BY <1>0 DEF EventTypes, RunEvents
<1>3. CASE Prepare \/ Approve \/ TryCandidate \/ NoCandidateLeft \/ PostconditionFails
  <2>1. Silent /\ cur' = cur /\ pc \notin Described /\ pc' \notin Described
      BY <1>3 DEF Prepare, Approve, TryCandidate, NoCandidateLeft, PostconditionFails,
                  Described
  <2>2. UNCHANGED <<log, freshAt, proc, resumeFrom, checkpoint>> BY <1>0, <2>1 DEF Silent
  <2> QED BY <2>1, <2>2, SilentFollows
<1>4. CASE PauseAtStep \/ StartAttempt \/ Succeed \/ Retry \/ FailStep
  <2>1. PICK t, a : /\ t \in StepEvents \cup Ending /\ a \in Nat /\ Emit(t, cur, a)
                    /\ pc \notin Described /\ cur \in Steps
                    /\ cur' = (IF t = "step_succeeded" THEN cur + 1 ELSE cur)
                    /\ t = "step_failed" <=> pc' = "aborting"
                    /\ t = "run_paused" <=> pc' = "paused"
                    /\ pc' \notin {"completed", "aborted"}
                    /\ t \notin {"run_completed", "run_aborted"}
    <3>0. 0 \in Nat /\ (attempt' = 0 \/ attempt' = attempt => attempt' \in Nat) BY <1>0
    <3>1. CASE PauseAtStep
      <4>1. Emit("run_paused", cur, 0) /\ pc' = "paused" /\ cur' = cur /\ pc = "loop" /\ cur \in Steps
          BY <3>1 DEF PauseAtStep
      <4> QED BY <3>0, <4>1 DEF Ending, Described
    <3>2. CASE StartAttempt
      <4>1. /\ Emit("step_started", cur, attempt') /\ pc' = "prepare" /\ cur' = cur
            /\ pc \in {"loop", "retry"} /\ cur \in Steps /\ attempt' \in Nat
          BY <1>0, <3>0, <3>2 DEF StartAttempt
      <4> QED BY <4>1 DEF StepEvents, Described
    <3>3. CASE Succeed
      <4>1. /\ Emit("step_succeeded", cur, attempt) /\ pc' = "loop" /\ cur' = cur + 1
            /\ pc = "post" /\ cur \in Steps
          BY <1>0, <3>3 DEF Succeed
      <4> QED BY <1>0, <4>1 DEF StepEvents, Described
    <3>4. CASE Retry
      <4>1. /\ Emit("step_retried", cur, attempt) /\ pc' = "retry" /\ cur' = cur
            /\ pc = "failed" /\ cur \in Steps
          BY <1>0, <3>4 DEF Retry
      <4> QED BY <1>0, <4>1 DEF StepEvents, Described
    <3>5. CASE FailStep
      <4>1. /\ Emit("step_failed", cur, attempt) /\ pc' = "aborting" /\ cur' = cur
            /\ pc = "failed" /\ cur \in Steps
          BY <1>0, <3>5 DEF FailStep
      <4> QED BY <1>0, <4>1 DEF StepEvents, Described
    <3> QED BY <1>4, <3>1, <3>2, <3>3, <3>4, <3>5
  <2>2. t \in EventTypes /\ cur \in 0..N+1
      BY <1>0, <2>1 DEF EventTypes, Ending, RunEvents, StepEvents
  <2>3. Added(t, cur, a) BY <1>1, <2>1, <2>2
  <2> QED BY <1>0, <2>1, <2>3, RowFollows
<1>5. CASE Abort
  <2>1. Emit("run_aborted", 0, 0) /\ pc = "aborting" /\ pc' = "aborted" /\ cur' = cur
      BY <1>5 DEF Abort
  <2>2. Added("run_aborted", 0, 0) BY <1>1, <1>2, <2>1
  <2> QED BY <1>0, <2>1, <2>2, AbortFollows
<1>6. CASE Complete
  <2>1. Emit("run_completed", 0, 0) /\ pc' = "completed" BY <1>6 DEF Complete
  <2>2. Added("run_completed", 0, 0) BY <1>1, <1>2, <2>1
  <2> QED BY <1>0, <2>1, <2>2, CompleteFollows
<1> QED BY <1>0, <1>3, <1>4, <1>5, <1>6 DEF RunnerStep

-----------------------------------------------------------------------------
(***************************************************************************)
(* The process writes its checkpoint and ends; the next one is launched.   *)
(***************************************************************************)

\* The failure that is found is the last one.
LEMMA LatestFound ==
    ASSUME TypeOK, freshAt \in 0..Len(log), NEW i, LastBut("step_failed", AfterFailure, i)
    PROVE  LatestFailed(log) = log[i].step
<1> DEFINE failures == {k \in DOMAIN log : log[k].type = "step_failed"}
<1>1. DOMAIN log = 1..Len(log) /\ Len(log) \in Nat BY DEF TypeOK
<1>2. /\ i \in freshAt+1..Len(log) /\ log[i].type = "step_failed"
      /\ \A k \in i+1..Len(log) : log[k].type # "step_failed"
    BY DEF LastBut, AfterFailure, OtherEvents
<1>3. i \in failures /\ \A j \in failures : j \in Int /\ j <= i
    BY <1>1, <1>2
<1>4. \A k \in failures : (\A j \in failures : j <= k) => k = i BY <1>3
<1>5. (CHOOSE k \in failures : \A j \in failures : j <= k) = i BY <1>3, <1>4
<1>6. failures # {} BY <1>3
<1> QED BY <1>5, <1>6 DEF LatestFailed

LEMMA OneOrLast ==
    ASSUME NEW n \in Nat, NEW f \in 0..n, NEW i \in f+1..n
    PROVE  i \in 1..n /\ (i # n => n \in i+1..n)
OBVIOUS

\* The checkpoint of a process that is over is not behind what it finished, and
\* is the failed step if it failed (run_cmd.py:177-212).
LEMMA CloseFollows ==
    ASSUME SessionTyped, proc = "running", CloseReturned \/ CloseRaised,
           Len(log) <= EventLimit, Follows, Kept
    PROVE  checkpoint'.step \in 0..N /\ Follows' /\ Kept'
<1>0. /\ Rows(EventLimit) = log /\ Len(log) \in Nat /\ DOMAIN log = 1..Len(log)
      /\ cur \in 1..N+1 /\ N \in Nat /\ N > 0 /\ freshAt \in 0..Len(log)
      /\ TypeOK /\ InStep
    BY LoadedWhole, GraphAssumption, BoundsAssumption
    DEF SessionTyped, TypeOK, GraphAssumption, BoundsAssumption
<1>1. /\ proc' = "none" /\ UNCHANGED <<log, freshAt>>
    BY DEF CloseReturned, CloseRaised, Exit
<1>2. ASSUME NEW s, CheckpointNow(s) PROVE checkpoint'.step = s BY <1>2 DEF CheckpointNow
<1>3. /\ \A type, tail, i : LastBut(type, tail, i)' <=> LastBut(type, tail, i)
      /\ \A r : FinishedHere(r)' <=> FinishedHere(r)
      /\ CompletedHere' <=> CompletedHere
      /\ ResumeAtFailedStep' <=> ResumeAtFailedStep
    BY <1>1, NothingAdded
<1>4. /\ checkpoint'.step \in 0..N
      /\ CompletedHere \/ checkpoint'.step >= cur
      /\ \A i : LastBut("step_failed", AfterFailure, i) => checkpoint'.step = log[i].step
  <2>1. CASE CloseReturned /\ pc = "paused"
    <3>1. cur \in 1..N BY <1>0, <2>1 DEF InStep, Steps
    <3>2. \A i : ~LastBut("step_failed", AfterFailure, i) BY <2>1 DEF Follows, FailureIsNext
    <3>3. PICK i : LastBut("run_paused", OtherEvents, i) /\ log[i].step = cur
        BY <2>1 DEF Follows, EndIsTold
    <3>4. i \in 1..Len(log) /\ (i # Len(log) => log[Len(log)].type \in OtherEvents)
      <4>1. i \in freshAt+1..Len(log) /\ \A k \in i+1..Len(log) : log[k].type \in OtherEvents
          BY <3>3 DEF LastBut
      <4>2. i \in 1..Len(log) /\ (i # Len(log) => Len(log) \in i+1..Len(log))
          BY <1>0, <4>1, OneOrLast
      <4> QED BY <4>1, <4>2
    <3>5. CheckpointNow(cur) \/ CheckpointNow(N)
      <4>1. CASE i = Len(log) BY <1>0, <2>1, <3>3, <4>1 DEF CloseReturned
      <4>2. CASE i # Len(log)
        <5>1. log[Len(log)].type # "run_paused" BY <3>4, <4>2 DEF OtherEvents
        <5> QED BY <1>0, <2>1, <5>1 DEF CloseReturned
      <4> QED BY <4>1, <4>2
    <3> QED BY <1>0, <1>2, <3>1, <3>2, <3>5
  <2>2. CASE CloseReturned /\ pc = "completed"
    <3>1. \A i : ~LastBut("step_failed", AfterFailure, i) BY <2>2 DEF Follows, FailureIsNext
    <3>2. PICK i : LastBut("run_completed", OtherEvents, i) BY <2>2 DEF Follows, EndIsTold
    <3>3. /\ i \in freshAt+1..Len(log) /\ log[i].type = "run_completed"
          /\ \A k \in i+1..Len(log) : log[k].type \in OtherEvents
        BY <3>2 DEF LastBut
    <3>4. CompletedHere BY <3>3 DEF CompletedHere
    <3>5. log[Len(log)].type # "run_paused"
      <4>1. i = Len(log) \/ Len(log) \in i+1..Len(log) BY <1>0, <3>3, OneOrLast
      <4> QED BY <3>3, <4>1 DEF OtherEvents
    <3>6. CheckpointNow(N) BY <1>0, <2>2, <3>5 DEF CloseReturned
    <3> QED BY <1>0, <1>2, <3>1, <3>4, <3>6
  <2>3. CASE CloseRaised
    <3>1. pc = "aborted" BY <2>3 DEF CloseRaised
    <3>2. PICK i : LastBut("step_failed", AfterFailure, i) /\ log[i].step = cur
        BY <3>1 DEF Follows, EndIsTold
    <3>3. cur \in 1..N BY <1>0, <3>1 DEF InStep, Steps
    <3>4. LatestFailed(log) = cur BY <1>0, <3>2, LatestFound
    <3>5. CheckpointNow(cur) BY <1>0, <2>3, <3>3, <3>4 DEF CloseRaised, NoStep
    <3>6. \A j : LastBut("step_failed", AfterFailure, j) => log[j].step = cur
        BY DEF Follows, FailureIsNext
    <3> QED BY <1>0, <1>2, <3>3, <3>5, <3>6
  <2>4. CloseReturned => pc \in {"paused", "completed"} BY DEF CloseReturned
  <2> QED BY <2>1, <2>2, <2>3, <2>4
<1>5. EndIsTold' BY <1>1 DEF EndIsTold
<1>6. FailureIsNext' BY <1>1, <1>3, <1>4 DEF FailureIsNext
<1>7. NothingFinishedAhead'
  <2>1. CASE CompletedHere BY <1>3, <2>1 DEF NothingFinishedAhead
  <2>2. CASE ~CompletedHere
    <3>1. UnfinishedFrom(cur) BY <2>2 DEF Follows, NothingFinishedAhead
    <3>2. \A s \in Steps : s >= checkpoint'.step => s >= cur
        BY <1>0, <1>4, <2>2 DEF Steps
    <3>3. \A s \in Steps : s >= checkpoint'.step => ~FinishedHere(s)
        BY <3>1, <3>2 DEF UnfinishedFrom
    <3> QED BY <1>1, <1>3, <3>3 DEF NothingFinishedAhead, UnfinishedFrom
  <2> QED BY <2>1, <2>2
<1>8. NotRepeated' BY <1>1 DEF Kept, NotRepeated, ThisExecution, FinishedBefore
<1> QED BY <1>3, <1>4, <1>5, <1>6, <1>7, <1>8 DEF Follows, Kept

\* A resumed process goes on where the last one ended (run_cmd.py:161-169).
LEMMA LaunchFollows ==
    ASSUME SessionTyped, Launch, Follows, Kept
    PROVE  Follows' /\ Kept'
<1>0. /\ proc = "opening" /\ proc' = "running" /\ pc' = "loop"
      /\ UNCHANGED <<resumeFrom, checkpoint, freshAt>>
      /\ TypeOK /\ freshAt \in 0..Len(log) /\ resumeFrom \in 0..N /\ N \in Nat /\ N > 0
      /\ \A i \in 1..Len(log) : log[i].type = "step_failed" => log[i].step \in Steps
    BY GraphAssumption, BoundsAssumption
    DEF Launch, Enter, SessionTyped, FailuresNameSteps, GraphAssumption, BoundsAssumption
<1>1. EndIsTold' BY <1>0 DEF EndIsTold
<1>2. \A i : LastBut("step_failed", AfterFailure, i) => log[i].step = resumeFrom
    BY <1>0 DEF Follows, FailureIsNext
<1>3. CompletedHere \/ UnfinishedFrom(resumeFrom)
    BY <1>0 DEF Follows, NothingFinishedAhead
<1>4. CASE resumeFrom = NoStep
  <2>1. cur' = 1 /\ UNCHANGED <<log, freshAt>> /\ resumeFrom = 0
      BY <1>0, <1>4 DEF Launch, Enter, Silent, NoStep
  <2>2. /\ \A type, tail, i : LastBut(type, tail, i)' <=> LastBut(type, tail, i)
        /\ \A r : FinishedHere(r)' <=> FinishedHere(r)
        /\ CompletedHere' <=> CompletedHere
        /\ ResumeAtFailedStep' <=> ResumeAtFailedStep
      BY <2>1, NothingAdded
  <2>3. \A i : ~LastBut("step_failed", AfterFailure, i)
    <3>1. SUFFICES ASSUME NEW i, LastBut("step_failed", AfterFailure, i) PROVE FALSE OBVIOUS
    <3>2. i \in freshAt+1..Len(log) /\ log[i].type = "step_failed" BY <3>1 DEF LastBut
    <3>3. i \in 1..Len(log) BY <1>0, <3>2
    <3>4. log[i].step \in 1..N /\ log[i].step = 0 BY <1>0, <1>2, <2>1, <3>1, <3>2, <3>3 DEF Steps
    <3> QED BY <3>4
  <2>4. FailureIsNext' BY <2>2, <2>3 DEF FailureIsNext
  <2>5. \A s \in Steps : s >= 0 /\ s >= 1 BY <1>0 DEF Steps
  <2>6. NothingFinishedAhead'
      BY <1>0, <1>3, <2>1, <2>2, <2>5 DEF NothingFinishedAhead, UnfinishedFrom
  <2>7. NotRepeated' BY <2>1 DEF Kept, NotRepeated, ThisExecution, FinishedBefore
  <2> QED BY <1>1, <2>2, <2>4, <2>6, <2>7 DEF Follows, Kept
<1>5. CASE resumeFrom # NoStep
  <2>1. cur' = resumeFrom /\ Emit("run_resumed", resumeFrom, 0)
      BY <1>0, <1>5 DEF Launch, Enter
  <2>2. resumeFrom \in 0..N+1 /\ 0 \in Nat /\ "run_resumed" \in EventTypes
      BY <1>0 DEF EventTypes, RunEvents
  <2>3. Added("run_resumed", resumeFrom, 0) BY <1>0, <2>1, <2>2 DEF Emit, Added
  <2>4. "run_resumed" \notin AfterFailure BY DEF AfterFailure, OtherEvents
  <2>5. PICK s : s = resumeFrom OBVIOUS
  <2>6. Added("run_resumed", s, 0) BY <2>3, <2>5
  <2>7. ASSUME NEW i, LastBut("step_failed", AfterFailure, i)' PROVE FALSE
      BY <1>0, <2>4, <2>6, <2>7, LastAfter
  <2>8. FailureIsNext' BY <2>7 DEF FailureIsNext
  <2>9. /\ \A r : FinishedHere(r)' <=> FinishedHere(r)
        /\ CompletedHere' <=> CompletedHere
      BY <1>0, <2>6, HereAfter
  <2>10. NothingFinishedAhead'
      BY <1>0, <1>3, <2>1, <2>9 DEF NothingFinishedAhead, UnfinishedFrom
  <2>11. ResumeAtFailedStep' BY <1>0, <1>2, <2>5, <2>6, FailedRows DEF Kept
  <2>12. NotRepeated' BY <1>0, <2>6, StartedRows DEF Kept
  <2> QED BY <1>1, <2>8, <2>10, <2>11, <2>12 DEF Follows, Kept
<1> QED BY <1>4, <1>5

-----------------------------------------------------------------------------
(***************************************************************************)
(* Types.                                                                  *)
(***************************************************************************)

LEMMA FailuresStay ==
    ASSUME TypeOK, InStep, FailuresNameSteps, [SessionNext]_sessionVars
    PROVE  FailuresNameSteps' /\ Len(log) <= Len(log')
<1>0. Len(log) \in Nat /\ attempt \in Nat /\ cur \in 0..N+1 BY DEF TypeOK
<1>1. ASSUME UNCHANGED log PROVE FailuresNameSteps' /\ Len(log) <= Len(log')
    BY <1>0, <1>1 DEF FailuresNameSteps
<1>2. ASSUME NEW e, log' = Append(log, e), e.type = "step_failed" => e.step \in Steps
      PROVE  FailuresNameSteps' /\ Len(log) <= Len(log')
  <2>1. log \in Seq(EventRecord \cup {e}) BY DEF TypeOK
  <2>2. /\ Len(log') = Len(log) + 1
        /\ \A i \in 1..Len(log) : log'[i] = log[i]
        /\ log'[Len(log) + 1] = e
      BY <1>2, <2>1
  <2> QED BY <1>0, <1>2, <2>2 DEF FailuresNameSteps
<1>3. ASSUME NEW t, NEW s, NEW a, log' = Append(log, Event(t, s, a)),
             t = "step_failed" => s \in Steps
      PROVE  FailuresNameSteps' /\ Len(log) <= Len(log')
  <2>1. Event(t, s, a).type = t /\ Event(t, s, a).step = s BY DEF Event
  <2> QED BY <1>2, <1>3, <2>1
<1>4. CASE UNCHANGED sessionVars BY <1>1, <1>4 DEF sessionVars, vars
<1>5. CASE OpenFresh \/ OpenResume \/ OpeningFails
    BY <1>1, <1>5 DEF OpenFresh, OpenResume, OpeningFails, Open, vars
<1>6. CASE Launch BY <1>1, <1>3, <1>6 DEF Launch, Enter, Silent, Emit
<1>7. CASE Run
  <2>1. RunnerStep BY <1>7 DEF Run
  <2>2. pc = "failed" => cur \in Steps BY DEF InStep
  <2> QED BY <1>1, <1>3, <2>1, <2>2
      DEF RunnerStep, PauseAtStep, StartAttempt, Prepare, Approve, TryCandidate,
          NoCandidateLeft, PostconditionFails, Succeed, Retry, FailStep, Abort, Complete,
          Silent, Emit
<1>8. CASE CloseReturned \/ CloseRaised \/ Crash \/ Pause
    BY <1>1, <1>8 DEF CloseReturned, CloseRaised, Exit, Crash, Pause, RequestPause,
                      runnerVars
<1>9. CASE SwitchMode \/ FixLatestFailed
    BY <1>3, <1>9 DEF SwitchMode, FixLatestFailed, RecordElsewhere
<1> QED BY <1>4, <1>5, <1>6, <1>7, <1>8, <1>9 DEF SessionNext, ProcessStep

\* The failure found among any number of rows is a step, or none.
LEMMA LatestIsStep ==
    ASSUME TypeOK, FailuresNameSteps, NEW n \in Nat
    PROVE  LatestFailed(Rows(n)) \in 0..N
<1> USE GraphAssumption DEF GraphAssumption
<1> DEFINE m == IF Len(log) < n THEN Len(log) ELSE n
           rows == Rows(n)
           failures == {i \in DOMAIN rows : rows[i].type = "step_failed"}
<1>1. log \in Seq(EventRecord) /\ Len(log) \in Nat /\ m \in 0..Len(log) BY DEF TypeOK
<1>2. rows = SubSeq(log, 1, m) BY DEF Rows
<1>3. DOMAIN rows = 1..m /\ \A i \in 1..m : rows[i] = log[i] /\ i \in 1..Len(log)
  <2> HIDE DEF m
  <2> QED BY <1>1, <1>2
<1>4. \A i \in failures : rows[i].step \in 1..N
    BY <1>3 DEF FailuresNameSteps, Steps
<1>5. CASE failures = {} BY <1>5 DEF LatestFailed, NoStep
<1>6. CASE failures # {}
  <2>1. DEFINE k == CHOOSE i \in failures : \A j \in failures : j <= i
  <2>2. k \in failures
    <3>1. failures \subseteq 0..Len(log) BY <1>1, <1>3
    <3>2. \E i \in failures : \A j \in failures : j <= i
      <4> HIDE DEF failures
      <4> DEFINE above == {b \in Nat : \A j \in failures : j < b}
      <4>1. Len(log) + 1 \in above BY <1>1, <3>1
      <4>2. PICK b \in above : \A c \in above : b <= c BY <4>1, LeastNat
      <4>3. b \in Nat /\ \A j \in failures : j < b /\ j \in Nat BY <3>1, <4>2
      <4>4. b # 0 BY <1>6, <4>3
      <4>5. b - 1 \in Nat /\ ~(b <= b - 1) BY <4>3, <4>4
      <4>6. b - 1 \notin above BY <4>2, <4>5
      <4>7. PICK i \in failures : ~(i < b - 1) BY <4>5, <4>6
      <4> QED BY <4>3, <4>7
    <3> QED BY <3>2
  <2>3. LatestFailed(rows) = rows[k].step BY <1>6 DEF LatestFailed
  <2> HIDE DEF k
  <2> QED BY <1>4, <2>2, <2>3
<1> QED BY <1>5, <1>6

LEMMA OtherAdds ==
    ASSUME SessionTyped, SwitchMode \/ FixLatestFailed
    PROVE  /\ \E t \in OtherEvents, s \in 0..N+1 : Added(t, s, 0)
           /\ UNCHANGED <<offset, pc, start, cur, attempt, cand, effects, granted,
                          pauseRequested, proc, resumeFrom, checkpoint, freshAt>>
<1> USE GraphAssumption, BoundsAssumption DEF GraphAssumption, BoundsAssumption
<1>0. TypeOK /\ FailuresNameSteps /\ N \in Nat /\ FixLimit \in Nat
    BY DEF SessionTyped
<1>1. ASSUME NEW t, NEW s, RecordElsewhere(t, s), t \in OtherEvents, s \in 0..N+1
      PROVE  Added(t, s, 0)
  <2>1. t \in EventTypes /\ 0 \in Nat BY <1>1 DEF EventTypes
  <2> QED BY <1>1, <2>1 DEF RecordElsewhere, Added
<1>2. UNCHANGED <<offset, pc, start, cur, attempt, cand, effects, granted,
                  pauseRequested, proc, resumeFrom, checkpoint, freshAt>>
    BY DEF SwitchMode, FixLatestFailed, RecordElsewhere
<1>3. CASE SwitchMode
  <2>1. RecordElsewhere("mode_switched", 0) BY <1>3 DEF SwitchMode
  <2>2. 0 \in 0..N+1 /\ "mode_switched" \in OtherEvents BY <1>0 DEF OtherEvents
  <2> QED BY <1>1, <1>2, <2>1, <2>2
<1>4. CASE FixLatestFailed
  <2>1. PICK s : s = LatestFailed(Rows(FixLimit)) OBVIOUS
  <2>2. s \in 0..N+1
    <3>1. s \in 0..N BY <1>0, <2>1, LatestIsStep
    <3> QED BY <1>0, <3>1
  <2>3. RecordElsewhere("intervention_recorded", s) BY <1>4, <2>1 DEF FixLatestFailed
  <2>4. "intervention_recorded" \in OtherEvents BY DEF OtherEvents
  <2> QED BY <1>1, <1>2, <2>2, <2>3, <2>4
<1> QED BY <1>3, <1>4

LEMMA TypesStay ==
    ASSUME SessionTyped, [SessionNext]_sessionVars, checkpoint'.step \in 0..N
    PROVE  SessionTyped'
<1> USE GraphAssumption, BoundsAssumption DEF GraphAssumption, BoundsAssumption
<1>0. /\ TypeOK /\ InStep /\ FailuresNameSteps /\ N \in Nat /\ N > 0 /\ Len(log) \in Nat
      /\ proc \in {"none", "opening", "running"}
      /\ resumeFrom \in 0..N /\ checkpoint.step \in 0..N /\ freshAt \in 0..Len(log)
    BY DEF SessionTyped, TypeOK
<1>1. FailuresNameSteps' /\ Len(log) <= Len(log') BY <1>0, FailuresStay
<1>2. SUFFICES /\ TypeOK' /\ InStep'
               /\ proc' \in {"none", "opening", "running"} /\ resumeFrom' \in 0..N
               /\ freshAt' = freshAt \/ freshAt' = Len(log)
  <2>1. ASSUME TypeOK', freshAt' = freshAt \/ freshAt' = Len(log) PROVE freshAt' \in 0..Len(log')
    <3>1. Len(log') \in Nat BY <2>1 DEF TypeOK
    <3> QED BY <1>0, <1>1, <2>1, <3>1
  <2> QED BY <1>1, <2>1 DEF SessionTyped
<1>3. CASE UNCHANGED sessionVars
    BY <1>0, <1>3 DEF sessionVars, vars, procVars, TypeOK, InStep
<1>4. CASE OpenFresh \/ OpenResume
  <2>1. /\ proc' = "opening" /\ resumeFrom' \in {0, checkpoint.step} /\ offset' = 0
        /\ pauseRequested' = FALSE /\ freshAt' \in {freshAt, Len(log)}
        /\ UNCHANGED <<log, pc, start, cur, attempt, cand, effects, granted>>
      BY <1>4 DEF OpenFresh, OpenResume, Open, NoStep
  <2>2. TypeOK' /\ InStep' BY <1>0, <2>1 DEF TypeOK, InStep
  <2> QED BY <1>0, <2>1, <2>2
<1>5. CASE OpeningFails
    BY <1>0, <1>5 DEF OpeningFails, vars, TypeOK, InStep
<1>6. CASE Launch
  <2> DEFINE from == IF resumeFrom = NoStep THEN 1 ELSE resumeFrom
  <2>1. /\ proc' = "running" /\ pc' = "loop"
        /\ cur' = from /\ start' = from /\ attempt' = 0 /\ cand' = 1 /\ granted' = {}
        /\ UNCHANGED <<effects, pauseRequested, resumeFrom, freshAt>>
        /\ IF resumeFrom = NoStep THEN Silent ELSE Emit("run_resumed", resumeFrom, 0)
      BY <1>6 DEF Launch, Enter
  <2>2. from \in 1..N+1 /\ resumeFrom \in 0..N+1 /\ 0 \in Nat /\ 1 \in Nat
      BY <1>0 DEF NoStep
  <2>3. "run_resumed" \in EventTypes BY DEF EventTypes, RunEvents
  <2>4. log' \in Seq(EventRecord) /\ offset' \in Nat
    <3>1. CASE resumeFrom = NoStep BY <1>0, <2>1, <3>1 DEF Silent, TypeOK
    <3>2. CASE resumeFrom # NoStep BY <1>0, <2>1, <2>2, <2>3, <3>2, EmitType
    <3> QED BY <3>1, <3>2
  <2>5. pc' \in Stages BY <2>1 DEF Stages
  <2>6. TypeOK' /\ InStep' BY <1>0, <2>1, <2>2, <2>4, <2>5 DEF TypeOK, InStep
  <2> QED BY <1>0, <2>1, <2>6
<1>7. CASE Run \/ Pause
  <2>1. Next /\ UNCHANGED <<proc, resumeFrom, freshAt>>
      BY <1>7 DEF Run, Pause, procVars, Next
  <2>2. TypeOK' /\ InStep' BY <1>0, <2>1, NextType
  <2> QED BY <1>0, <2>1, <2>2
<1>8. CASE CloseReturned \/ CloseRaised \/ Crash
  <2>1. /\ proc' = "none" /\ pc' = "idle"
        /\ UNCHANGED <<log, offset, start, cur, attempt, cand, effects, granted,
                       pauseRequested, resumeFrom, freshAt>>
      BY <1>8 DEF CloseReturned, CloseRaised, Exit, Crash
  <2>2. pc' \in Stages BY <2>1 DEF Stages
  <2> QED BY <1>0, <2>1, <2>2 DEF TypeOK, InStep
<1>9. CASE SwitchMode \/ FixLatestFailed
  <2>1. PICK t \in OtherEvents, s \in 0..N+1 :
            /\ Added(t, s, 0)
            /\ UNCHANGED <<offset, pc, start, cur, attempt, cand, effects, granted,
                           pauseRequested, proc, resumeFrom, freshAt>>
      BY <1>9, OtherAdds
  <2>2. log' \in Seq(EventRecord) BY <1>0, <2>1, RowAdded
  <2> QED BY <1>0, <2>1, <2>2 DEF TypeOK, InStep
<1> QED BY <1>3, <1>4, <1>5, <1>6, <1>7, <1>8, <1>9 DEF SessionNext, ProcessStep

-----------------------------------------------------------------------------
(***************************************************************************)
(* A step of the session, while nothing is killed.                         *)
(***************************************************************************)

\* A kill is counted, and no row is added beyond the bound.
LEMMA UsedStays ==
    ASSUME UsedTyped, [SessionNext]_sessionVars
    PROVE  /\ UsedTyped'
           /\ NothingKilled' => NothingKilled /\ ~Crash
           /\ MaxOther = 0 => ~SwitchMode /\ ~FixLatestFailed
<1>1. ASSUME NEW what \in {"fresh", "resume", "crash", "other"}, NEW max, SpendOf(what, max)
      PROVE  /\ UsedTyped' /\ used'[what] = used[what] + 1 /\ used[what] \in Nat
             /\ \A c \in {"fresh", "resume", "crash", "other"} : c # what => used'[c] = used[c]
  <2>1. used' = [used EXCEPT ![what] = used[what] + 1] BY <1>1 DEF SpendOf
  <2>2. used[what] + 1 \in Nat /\ used[what] \in Nat BY DEF UsedTyped
  <2> QED BY <2>1, <2>2 DEF UsedTyped
<1>2. ASSUME UNCHANGED used
      PROVE  UsedTyped' /\ (NothingKilled' => NothingKilled)
    BY <1>2 DEF UsedTyped, NothingKilled
<1>3. ASSUME NEW what \in {"fresh", "resume", "other"}, NEW max, SpendOf(what, max)
      PROVE  UsedTyped' /\ (NothingKilled' => NothingKilled)
    BY <1>1, <1>3 DEF NothingKilled
<1>4. ASSUME Crash PROVE UsedTyped' /\ ~NothingKilled'
  <2>1. SpendOf("crash", MaxCrashes) BY <1>4 DEF Crash
  <2>2. used'["crash"] = used["crash"] + 1 /\ used["crash"] \in Nat /\ UsedTyped'
      BY <1>1, <2>1
  <2> QED BY <2>2 DEF NothingKilled
<1>5. ASSUME MaxOther = 0, SwitchMode \/ FixLatestFailed PROVE FALSE
  <2>1. used["other"] < 0
      BY <1>5 DEF SwitchMode, FixLatestFailed, RecordElsewhere, SpendOf
  <2>2. used["other"] \in Nat BY DEF UsedTyped
  <2> QED BY <2>1, <2>2
<1>6. UsedTyped' /\ (NothingKilled' => NothingKilled /\ ~Crash)
  <2>1. CASE Crash BY <1>4, <2>1
  <2>2. CASE OpenFresh
    <3>1. SpendOf("fresh", MaxFresh) BY <2>2 DEF OpenFresh
    <3> QED BY <1>3, <1>4, <3>1
  <2>3. CASE OpenResume
    <3>1. SpendOf("resume", MaxResumes) BY <2>3 DEF OpenResume
    <3> QED BY <1>3, <1>4, <3>1
  <2>4. CASE SwitchMode \/ FixLatestFailed
    <3>1. SpendOf("other", MaxOther)
        BY <2>4 DEF SwitchMode, FixLatestFailed, RecordElsewhere
    <3> QED BY <1>3, <1>4, <3>1
  <2>5. CASE OpeningFails \/ Launch \/ Run \/ CloseReturned \/ CloseRaised \/ Pause
             \/ UNCHANGED sessionVars
    <3>1. UNCHANGED used
        BY <2>5 DEF OpeningFails, Launch, Run, CloseReturned, CloseRaised, Exit, Pause,
                    sessionVars, procVars
    <3> QED BY <1>2, <1>4, <3>1
  <2> QED BY <2>1, <2>2, <2>3, <2>4, <2>5 DEF SessionNext, ProcessStep
<1> QED BY <1>5, <1>6

LEMMA CheckpointStays ==
    ASSUME [SessionNext]_sessionVars
    PROVE  CloseReturned \/ CloseRaised \/ UNCHANGED checkpoint
BY DEF SessionNext, ProcessStep, OpenFresh, OpenResume, Open, OpeningFails, Launch, Run, Crash,
       Pause, SwitchMode, FixLatestFailed, RecordElsewhere, sessionVars, procVars

LEMMA SessionFollows ==
    ASSUME SessionTyped, Follows, Kept, [SessionNext]_sessionVars, ~Crash,
           Len(log) <= EventLimit
    PROVE  SessionTyped' /\ Follows' /\ Kept'
<1> USE GraphAssumption, BoundsAssumption DEF GraphAssumption, BoundsAssumption
<1>0. /\ TypeOK /\ InStep /\ N \in Nat /\ N > 0 /\ Len(log) \in Nat
      /\ proc \in {"none", "opening", "running"}
      /\ resumeFrom \in 0..N /\ checkpoint.step \in 0..N /\ freshAt \in 0..Len(log)
    BY DEF SessionTyped, TypeOK
<1>1. SessionTyped'
  <2>1. CASE CloseReturned \/ CloseRaised
    <3>1. proc = "running" BY <2>1 DEF CloseReturned, CloseRaised
    <3> QED BY <2>1, <3>1, CloseFollows, TypesStay
  <2>2. CASE UNCHANGED checkpoint BY <1>0, <2>2, TypesStay
  <2> QED BY <2>1, <2>2, CheckpointStays
<1>2. ASSUME UNCHANGED <<log, freshAt>>
      PROVE  /\ \A type, tail, i : LastBut(type, tail, i)' <=> LastBut(type, tail, i)
             /\ \A n : UnfinishedFrom(n)' <=> UnfinishedFrom(n)
             /\ CompletedHere' <=> CompletedHere
             /\ Kept'
  <2>1. /\ \A type, tail, i : LastBut(type, tail, i)' <=> LastBut(type, tail, i)
        /\ \A r : FinishedHere(r)' <=> FinishedHere(r)
        /\ CompletedHere' <=> CompletedHere
        /\ ResumeAtFailedStep' <=> ResumeAtFailedStep
      BY <1>2, NothingAdded
  <2>2. NotRepeated' BY <1>2 DEF Kept, NotRepeated, ThisExecution, FinishedBefore
  <2>3. \A n : UnfinishedFrom(n)' <=> UnfinishedFrom(n) BY <2>1 DEF UnfinishedFrom
  <2> QED BY <2>1, <2>2, <2>3 DEF Kept
<1>3. CASE UNCHANGED sessionVars \/ Pause
  <2>1. UNCHANGED <<log, freshAt, proc, pc, cur, resumeFrom, checkpoint>>
      BY <1>3 DEF sessionVars, vars, procVars, Pause, RequestPause, runnerVars
  <2>2. EndIsTold' BY <1>2, <2>1 DEF Follows, EndIsTold
  <2>3. FailureIsNext' BY <1>2, <2>1 DEF Follows, FailureIsNext
  <2>4. NothingFinishedAhead'
      BY <1>2, <2>1 DEF Follows, NothingFinishedAhead, UnfinishedFrom, FinishedHere
  <2> QED BY <1>1, <1>2, <2>1, <2>2, <2>3, <2>4 DEF Follows
<1>4. CASE OpenFresh
  <2>1. proc' = "opening" /\ freshAt' = Len(log) /\ log' = log
      BY <1>4 DEF OpenFresh, Open
  <2>2. freshAt'+1..Len(log') = {} BY <1>0, <2>1
  <2>3. \A type, tail, i : ~LastBut(type, tail, i)' BY <2>2 DEF LastBut
  <2>4. \A r : ~FinishedHere(r)' BY <2>2 DEF FinishedHere
  <2>5. EndIsTold' BY <2>1 DEF EndIsTold
  <2>6. FailureIsNext' BY <2>3 DEF FailureIsNext
  <2>7. NothingFinishedAhead' BY <2>4 DEF NothingFinishedAhead, UnfinishedFrom
  <2>8. ResumeAtFailedStep' BY <2>2 DEF ResumeAtFailedStep, ThisExecution
  <2>9. NotRepeated' BY <2>2 DEF NotRepeated, ThisExecution
  <2> QED BY <1>1, <2>5, <2>6, <2>7, <2>8, <2>9 DEF Follows, Kept
<1>5. CASE OpenResume \/ OpeningFails
  <2>1. /\ proc # "running" /\ proc' # "running"
        /\ UNCHANGED <<log, freshAt, checkpoint>>
        /\ proc' = "opening" => resumeFrom' = checkpoint.step
      BY <1>5 DEF OpenResume, OpeningFails, Open, vars
  <2>2. EndIsTold' BY <2>1 DEF EndIsTold
  <2>3. FailureIsNext' BY <1>2, <2>1 DEF Follows, FailureIsNext
  <2>4. NothingFinishedAhead'
      BY <1>2, <2>1 DEF Follows, NothingFinishedAhead, UnfinishedFrom, FinishedHere
  <2> QED BY <1>1, <1>2, <2>1, <2>2, <2>3, <2>4 DEF Follows
<1>6. CASE Launch BY <1>1, <1>6, LaunchFollows
<1>7. CASE Run
  <2>1. proc = "running" BY <1>7 DEF Run
  <2> QED BY <1>0, <1>1, <1>7, <2>1, RunnerFollows
<1>8. CASE CloseReturned \/ CloseRaised
  <2>1. proc = "running" BY <1>8 DEF CloseReturned, CloseRaised
  <2> QED BY <1>1, <1>8, <2>1, CloseFollows
<1>9. CASE SwitchMode \/ FixLatestFailed
  <2>1. PICK t \in OtherEvents, s \in 0..N+1 :
            Added(t, s, 0) /\ UNCHANGED <<proc, pc, cur, resumeFrom, checkpoint>>
      BY <1>9, OtherAdds
  <2> QED BY <1>0, <1>1, <2>1, OtherFollows
<1> QED BY <1>3, <1>4, <1>5, <1>6, <1>7, <1>8, <1>9 DEF SessionNext, ProcessStep

LEMMA UnkilledInit == SessionInit => Unkilled
<1> SUFFICES ASSUME SessionInit PROVE Unkilled OBVIOUS
<1> USE GraphAssumption DEF GraphAssumption
<1>1. TypeOK /\ InStep BY InitType DEF SessionInit
<1>2. log = <<>> /\ Len(log) = 0 /\ proc = "none" /\ freshAt = 0 /\ N \in Nat
    BY DEF SessionInit, Init
<1>3. checkpoint.step = 0 /\ resumeFrom = 0 BY DEF SessionInit, NoCheckpoint, NoStep
<1>4. UsedTyped BY DEF SessionInit, UsedTyped
<1>5. LogIsSequence BY <1>1 DEF LogIsSequence, TypeOK
<1>6. SessionTyped BY <1>1, <1>2, <1>3 DEF SessionTyped, FailuresNameSteps
<1>7. freshAt+1..Len(log) = {} BY <1>2
<1>8. Follows
    BY <1>2, <1>7 DEF Follows, EndIsTold, FailureIsNext, NothingFinishedAhead, LastBut,
                      UnfinishedFrom, FinishedHere
<1>9. Kept BY <1>7 DEF Kept, ResumeAtFailedStep, NotRepeated, ThisExecution
<1> QED BY <1>4, <1>5, <1>6, <1>8, <1>9 DEF Unkilled

LEMMA UnkilledNext == Unkilled /\ [SessionNext]_sessionVars => Unkilled'
<1> SUFFICES ASSUME Unkilled, [SessionNext]_sessionVars PROVE Unkilled' OBVIOUS
<1>1. LogIsSequence' /\ Len(log) \in Nat /\ Len(log) <= Len(log')
    BY LogOnlyGrows DEF Unkilled
<1>2. UsedTyped' /\ (NothingKilled' => NothingKilled /\ ~Crash) BY UsedStays DEF Unkilled
<1>3. ASSUME NothingKilled', Len(log') <= EventLimit
      PROVE  SessionTyped' /\ Follows' /\ Kept'
  <2>1. Len(log') \in Nat BY <1>1 DEF LogIsSequence
  <2>2. Len(log) <= EventLimit BY <1>1, <1>3, <2>1, BoundsAssumption DEF BoundsAssumption
  <2>3. SessionTyped /\ Follows /\ Kept BY <1>2, <1>3, <2>2 DEF Unkilled
  <2> QED BY <1>2, <1>3, <2>2, <2>3, SessionFollows
<1> QED BY <1>1, <1>2, <1>3 DEF Unkilled

\* As long as nothing is killed, a run that failed goes on at the step that failed, in whichever
\* of any number of executions, and whatever rows other processes added behind the failure
\* (run_cmd.py:177-191, 248-271).
THEOREM FailuresAreResumed ==
    SessionSpec => [](NothingKilled /\ Len(log) <= EventLimit => ResumeAtFailedStep)
<1>1. Unkilled => (NothingKilled /\ Len(log) <= EventLimit => ResumeAtFailedStep)
    BY DEF Unkilled, Kept
<1> QED BY <1>1, UnkilledInit, UnkilledNext, PTL DEF SessionSpec

\* As long as nothing is killed, no step that is finished is started again in its execution
\* before the execution is complete, whatever other processes add to the log and however often
\* it is paused, fails and is resumed (run_cmd.py:177-212, 248-271).
THEOREM FinishedStaysFinished ==
    SessionSpec => [](Len(log) <= EventLimit => FinishedStepsNotRepeated)
<1>1. Unkilled => (Len(log) <= EventLimit => FinishedStepsNotRepeated)
    BY DEF Unkilled, Kept, NotRepeated, FinishedStepsNotRepeated
<1> QED BY <1>1, UnkilledInit, UnkilledNext, PTL DEF SessionSpec

-----------------------------------------------------------------------------
(***************************************************************************)
(* Paused runs, while no other process adds rows.                          *)
(***************************************************************************)

\* No other process added a row.
NobodyElse == \A i \in DOMAIN log : log[i].type \notin OtherEvents

\* A pause behind which nothing went on is where the process or the next one is.
PauseIsNext ==
    LastIs("run_paused") =>
        /\ proc = "running" => pc = "loop" \/ (pc = "paused" /\ log[Len(log)].step = cur)
        /\ proc # "running" => checkpoint.step = log[Len(log)].step
        /\ proc = "opening" => resumeFrom \in {NoStep, log[Len(log)].step}

\* What ResumeAtPausedStep says while nothing is killed and no other process adds rows.
PausedRows ==
    \A i \in 2..Len(log) :
        log[i].type = "run_resumed" /\ log[i-1].type = "run_paused" =>
            log[i].step = log[i-1].step

\* The inductive invariant of paused runs, beside Unkilled.
Alone ==
    NothingKilled /\ Len(log) <= EventLimit => NobodyElse /\ PauseIsNext /\ PausedRows

\* The new row is the last one.
LEMMA RowIsLast ==
    ASSUME TypeOK, NobodyElse, PausedRows, NEW t \in StepEvents \cup RunEvents, NEW s \in 0..N+1,
           NEW a \in Nat, log' = Append(log, Event(t, s, a)),
           t = "run_resumed" /\ LastIs("run_paused") => log[Len(log)].step = s
    PROVE  /\ NobodyElse' /\ PausedRows'
           /\ \A type : LastIs(type)' <=> t = type
           /\ log'[Len(log')].step = s
<1>1. PICK e : e = Event(t, s, a) OBVIOUS
<1>2. e \in EventRecord /\ e.type = t /\ e.step = s
    BY <1>1 DEF Event, EventRecord
<1>3. log \in Seq(EventRecord) /\ log' = Append(log, e) /\ Len(log) \in Nat
    BY <1>1 DEF TypeOK
<1>4. /\ Len(log') = Len(log) + 1 /\ log' # <<>>
      /\ DOMAIN log = 1..Len(log) /\ DOMAIN log' = 1..Len(log)+1
      /\ \A i \in 1..Len(log) : log'[i] = log[i]
      /\ log'[Len(log) + 1] = e
    BY <1>2, <1>3
<1>5. t \notin OtherEvents BY DEF StepEvents, RunEvents, OtherEvents
<1>6. NobodyElse' BY <1>2, <1>4, <1>5 DEF NobodyElse
<1>7. PausedRows'
  <2>1. SUFFICES ASSUME NEW i \in 2..Len(log)+1, log'[i].type = "run_resumed",
                        log'[i-1].type = "run_paused"
                 PROVE  log'[i].step = log'[i-1].step
      BY <1>4 DEF PausedRows
  <2>2. i - 1 \in 1..Len(log) /\ log'[i-1] = log[i-1] BY <1>3, <1>4
  <2>3. CASE i \in 2..Len(log)
    <3>1. log'[i] = log[i] BY <1>3, <1>4, <2>3
    <3> QED BY <2>1, <2>2, <2>3, <3>1 DEF PausedRows
  <2>4. CASE i = Len(log) + 1
    <3>1. i - 1 = Len(log) /\ log # <<>> BY <1>3, <1>4, <2>2, <2>4
    <3>2. t = "run_resumed" /\ LastIs("run_paused")
        BY <1>2, <1>4, <2>1, <2>2, <2>4, <3>1 DEF LastIs
    <3> QED BY <1>2, <1>4, <2>2, <2>4, <3>1, <3>2
  <2> QED BY <1>3, <2>3, <2>4
<1>8. \A type : LastIs(type)' <=> t = type BY <1>2, <1>4 DEF LastIs
<1> QED BY <1>2, <1>4, <1>6, <1>7, <1>8

LEMMA AloneRuns ==
    ASSUME TypeOK, InStep, NobodyElse, PausedRows, PauseIsNext, Run
    PROVE  NobodyElse' /\ PausedRows' /\ PauseIsNext'
<1>0. /\ UNCHANGED <<proc, resumeFrom, checkpoint>> /\ RunnerStep /\ proc = "running"
      /\ cur \in 0..N+1 /\ attempt \in Nat /\ N \in Nat
    BY GraphAssumption DEF GraphAssumption, Run, procVars, TypeOK
<1>1. CASE Prepare \/ Approve \/ TryCandidate \/ NoCandidateLeft \/ PostconditionFails
  <2>1. UNCHANGED log /\ pc \notin {"loop", "paused"}
      BY <1>1 DEF Prepare, Approve, TryCandidate, NoCandidateLeft, PostconditionFails, Silent
  <2>2. ~LastIs("run_paused") BY <1>0, <2>1 DEF PauseIsNext
  <2> QED BY <2>1, <2>2 DEF PauseIsNext, LastIs, NobodyElse, PausedRows
<1>2. CASE ~(Prepare \/ Approve \/ TryCandidate \/ NoCandidateLeft \/ PostconditionFails)
  <2>1. PICK t, s, a : /\ t \in StepEvents \cup RunEvents /\ s \in 0..N+1 /\ a \in Nat
                       /\ t # "run_resumed"
                       /\ log' = Append(log, Event(t, s, a))
                       /\ t = "run_paused" => pc' = "paused" /\ cur' = s
    <3> DEFINE Row(t, s, a) == /\ t \in StepEvents \cup RunEvents /\ s \in 0..N+1 /\ a \in Nat
                               /\ t # "run_resumed"
                               /\ log' = Append(log, Event(t, s, a))
                               /\ t = "run_paused" => pc' = "paused" /\ cur' = s
    <3>0. 0 \in Nat /\ 0 \in 0..N+1 BY <1>0
    <3>1. CASE PauseAtStep
      <4>1. Row("run_paused", cur, 0)
          BY <1>0, <3>0, <3>1 DEF PauseAtStep, Emit, RunEvents
      <4> QED BY <4>1
    <3>2. CASE StartAttempt
      <4>1. attempt' \in Nat BY <1>0, <3>2 DEF StartAttempt
      <4>2. Row("step_started", cur, attempt')
          BY <1>0, <3>2, <4>1 DEF StartAttempt, Emit, StepEvents
      <4> QED BY <4>2
    <3>3. CASE Succeed
      <4>1. Row("step_succeeded", cur, attempt) BY <1>0, <3>3 DEF Succeed, Emit, StepEvents
      <4> QED BY <4>1
    <3>4. CASE Retry
      <4>1. Row("step_retried", cur, attempt) BY <1>0, <3>4 DEF Retry, Emit, StepEvents
      <4> QED BY <4>1
    <3>5. CASE FailStep
      <4>1. Row("step_failed", cur, attempt) BY <1>0, <3>5 DEF FailStep, Emit, StepEvents
      <4> QED BY <4>1
    <3>6. CASE Abort
      <4>1. Row("run_aborted", 0, 0) BY <3>0, <3>6 DEF Abort, Emit, RunEvents
      <4> QED BY <4>1
    <3>7. CASE Complete
      <4>1. Row("run_completed", 0, 0) BY <3>0, <3>7 DEF Complete, Emit, RunEvents
      <4> QED BY <4>1
    <3> QED BY <1>0, <1>2, <3>1, <3>2, <3>3, <3>4, <3>5, <3>6, <3>7 DEF RunnerStep
  <2>2. /\ NobodyElse' /\ PausedRows'
        /\ \A type : LastIs(type)' <=> t = type
        /\ log'[Len(log')].step = s
      BY <2>1, RowIsLast
  <2>3. PauseIsNext' BY <1>0, <2>1, <2>2 DEF PauseIsNext
  <2> QED BY <2>2, <2>3
<1> QED BY <1>1, <1>2

LEMMA AloneSteps ==
    ASSUME SessionTyped, NobodyElse, PausedRows, PauseIsNext, Len(log) <= EventLimit,
           [SessionNext]_sessionVars, ~Crash, ~SwitchMode, ~FixLatestFailed
    PROVE  NobodyElse' /\ PausedRows' /\ PauseIsNext'
<1>0. TypeOK /\ InStep /\ resumeFrom \in 0..N+1 /\ N \in Nat
    BY GraphAssumption DEF SessionTyped, GraphAssumption
<1>1. ASSUME UNCHANGED log PROVE NobodyElse' /\ PausedRows' /\ \A t : LastIs(t)' <=> LastIs(t)
    BY <1>1 DEF NobodyElse, PausedRows, LastIs
<1>2. CASE UNCHANGED sessionVars \/ Pause
  <2>1. UNCHANGED <<log, proc, pc, cur, resumeFrom, checkpoint>>
      BY <1>2 DEF sessionVars, vars, procVars, Pause, RequestPause, runnerVars
  <2> QED BY <1>1, <2>1 DEF PauseIsNext
<1>3. CASE OpenFresh \/ OpenResume \/ OpeningFails
  <2>1. /\ UNCHANGED <<log, checkpoint>> /\ proc # "running" /\ proc' # "running"
        /\ proc' = "opening" => resumeFrom' \in {NoStep, checkpoint.step}
      BY <1>3 DEF OpenFresh, OpenResume, OpeningFails, Open, vars
  <2> QED BY <1>1, <2>1 DEF PauseIsNext
<1>4. CASE Launch /\ resumeFrom = NoStep
  <2>1. UNCHANGED log /\ proc' = "running" /\ pc' = "loop"
      BY <1>4 DEF Launch, Enter, Silent
  <2> QED BY <1>1, <2>1 DEF PauseIsNext
<1>5. CASE Launch /\ resumeFrom # NoStep
  <2>1. proc = "opening" /\ log' = Append(log, Event("run_resumed", resumeFrom, 0))
      BY <1>5 DEF Launch, Emit
  <2>2. LastIs("run_paused") => log[Len(log)].step = resumeFrom
      BY <1>5, <2>1 DEF PauseIsNext
  <2>3. "run_resumed" \in StepEvents \cup RunEvents /\ 0 \in Nat BY DEF RunEvents
  <2>4. PICK s \in 0..N+1 : s = resumeFrom BY <1>0
  <2>5. NobodyElse' /\ PausedRows' /\ \A type : LastIs(type)' <=> "run_resumed" = type
      BY <1>0, <2>1, <2>2, <2>3, <2>4, RowIsLast
  <2>6. ~LastIs("run_paused")' BY <2>5
  <2> QED BY <2>5, <2>6 DEF PauseIsNext
<1>6. CASE Run BY <1>0, <1>6, AloneRuns
<1>7. CASE CloseReturned \/ CloseRaised
  <2>1. proc = "running" /\ proc' = "none" /\ UNCHANGED log
      BY <1>7 DEF CloseReturned, CloseRaised, Exit
  <2>2. ASSUME LastIs("run_paused") PROVE checkpoint'.step = log[Len(log)].step
    <3>1. pc \in {"loop", "paused"} BY <2>1, <2>2 DEF PauseIsNext
    <3>2. CloseReturned BY <1>7, <3>1 DEF CloseRaised
    <3>3. CheckpointNow(log[Len(log)].step)
        BY <1>0, <2>2, <3>2, LoadedWhole DEF CloseReturned, LastIs
    <3> QED BY <3>3 DEF CheckpointNow
  <2> QED BY <1>1, <2>1, <2>2 DEF PauseIsNext
<1> QED BY <1>2, <1>3, <1>4, <1>5, <1>6, <1>7 DEF SessionNext, ProcessStep

LEMMA AloneInit == SessionInit => Alone
BY DEF SessionInit, Init, Alone, NobodyElse, PauseIsNext, PausedRows, LastIs

LEMMA AloneNext ==
    ASSUME MaxOther = 0
    PROVE  Unkilled /\ Alone /\ [SessionNext]_sessionVars => Alone'
<1> SUFFICES ASSUME Unkilled, Alone, [SessionNext]_sessionVars,
                    NothingKilled', Len(log') <= EventLimit
             PROVE  NobodyElse' /\ PauseIsNext' /\ PausedRows'
    BY DEF Alone
<1>1. LogIsSequence' /\ Len(log) \in Nat /\ Len(log) <= Len(log')
    BY LogOnlyGrows DEF Unkilled
<1>2. NothingKilled /\ ~Crash /\ ~SwitchMode /\ ~FixLatestFailed BY UsedStays DEF Unkilled
<1>3. Len(log') \in Nat BY <1>1 DEF LogIsSequence
<1>4. Len(log) <= EventLimit BY <1>1, <1>3, BoundsAssumption DEF BoundsAssumption
<1> QED BY <1>2, <1>4, AloneSteps DEF Unkilled, Alone

\* Without rows of others, a pause and the resumption after it are neighbours.
LEMMA PausedAlone ==
    ASSUME LogIsSequence, NobodyElse, PausedRows
    PROVE  ResumeAtPausedStep
<1>0. Len(log) \in Nat /\ DOMAIN log = 1..Len(log) BY DEF LogIsSequence
<1>1. SUFFICES ASSUME NEW i \in DOMAIN log, NEW j \in 1..i-1, log[i].type = "run_resumed",
                      log[j].type = "run_paused",
                      \A k \in j+1..i-1 : log[k].type \in OtherEvents
               PROVE  log[i].step = log[j].step
    BY DEF ResumeAtPausedStep
<1>2. j = i - 1
  <2>1. CASE j < i - 1
    <3>1. j + 1 \in j+1..i-1 /\ j + 1 \in DOMAIN log BY <1>0, <2>1
    <3> QED BY <1>1, <3>1 DEF NobodyElse
  <2> QED BY <1>0, <2>1
<1>3. i \in 2..Len(log) BY <1>0
<1> QED BY <1>1, <1>2, <1>3 DEF PausedRows

\* As long as nothing is killed and no other process adds rows, a run that was paused goes on at
\* the step it was paused in front of, also if another `agent run` fails to open a browser in
\* between (run_cmd.py:193-204, 263-271).
THEOREM PausesAreResumed ==
    ASSUME MaxOther = 0
    PROVE  SessionSpec => [](Len(log) <= EventLimit => ResumeAtPausedStep)
<1>1. Unkilled /\ Alone => (Len(log) <= EventLimit => ResumeAtPausedStep)
  <2>1. ~NothingKilled => ResumeAtPausedStep BY DEF ResumeAtPausedStep
  <2> QED BY <2>1, PausedAlone DEF Unkilled, Alone
<1>2. Unkilled /\ Alone /\ [SessionNext]_sessionVars => Unkilled' /\ Alone'
    BY AloneNext, UnkilledNext
<1> QED BY <1>1, <1>2, UnkilledInit, AloneInit, PTL DEF SessionSpec
=============================================================================
