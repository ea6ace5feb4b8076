----------------------------- MODULE RunSession -----------------------------
(***************************************************************************)
(* The life of one run id across processes: cli/run_cmd.py starts, pauses  *)
(* and resumes StepRunner, cli/fix_cmd.py and cli/mode_cmd.py add rows to  *)
(* the same event log from processes of their own, and any process may be  *)
(* killed.  What survives is the events table, the latest row of the       *)
(* checkpoints table, the stored step graph and the .pause marker; the     *)
(* browser, the runner's coroutine and the writer's event_offset do not.   *)
(***************************************************************************)
EXTENDS StepRunner

CONSTANTS
    EventLimit,   \* limit=5000 of run_cmd.py's two load_for_run calls
    FixLimit,     \* limit=500 of fix_cmd.py's load_for_run call
    MaxFresh,     \* bound: `agent run` commands
    MaxResumes,   \* bound: `agent resume` commands
    MaxCrashes,   \* bound: killed processes
    MaxOther      \* bound: rows added by `agent mode set` and `agent fix`

ASSUME BoundsAssumption ==
    /\ {EventLimit, FixLimit, MaxFresh} \subseteq Nat \ {0}
    /\ {MaxResumes, MaxCrashes, MaxOther} \subseteq Nat
    /\ N > 0     \* an empty graph has no step to checkpoint

VARIABLES
    proc,         \* the CLI process: "none", "opening" or "running"
    resumeFrom,   \* its start_step_id; None is NoStep
    checkpoint,   \* latest checkpoint row, or NoCheckpoint
    stored,       \* the step_graph row exists
    fixed,        \* steps whose stored selector an operator replaced
    freshAt,      \* observation: rows before the latest `agent run`
    used          \* how much of each bound is used up

procVars == <<proc, resumeFrom, checkpoint, stored, fixed, freshAt, used>>
sessionVars == <<vars, procVars>>

NoStep == 0
NoCheckpoint == [step |-> NoStep, offset |-> 0]

SpendOf(what, max) ==
    /\ used[what] < max
    /\ used' = [used EXCEPT ![what] = @ + 1]

-----------------------------------------------------------------------------
\* EventRepository.load_for_run: the OLDEST rows, ORDER BY ts ASC LIMIT.
Rows(limit) == SubSeq(log, 1, IF Len(log) < limit THEN Len(log) ELSE limit)

\* Bug variant of LatestFailed: the first failure is taken.
FirstFailed(rows) ==
    LET failures == {i \in DOMAIN rows : rows[i].type = "step_failed"}
    IN  IF failures = {} THEN NoStep
        ELSE rows[CHOOSE i \in failures : \A j \in failures : i <= j].step

\* The step of the last step_failed among rows, or NoStep.
LatestFailed(rows) ==
    LET failures == {i \in DOMAIN rows : rows[i].type = "step_failed"}
    IN  IF failures = {} THEN NoStep
        ELSE rows[CHOOSE i \in failures : \A j \in failures : j <= i].step

SessionInit ==
    /\ Init
    /\ proc = "none"
    /\ resumeFrom = NoStep
    /\ checkpoint = NoCheckpoint
    /\ stored = FALSE
    /\ fixed = {}
    /\ freshAt = 0
    /\ used = [fresh |-> 0, resume |-> 0, crash |-> 0, other |-> 0]

\* Head of _run_graph: drop the marker, store the graph, make a writer whose
\* offset starts at 0, open a browser on about:blank.  One process at a time
\* is an assumption: nothing in the code keeps a second `agent resume` out.
Open(from) ==
    /\ proc = "none"
    /\ proc' = "opening"
    /\ resumeFrom' = from
    /\ pauseRequested' = FALSE
    /\ stored' = TRUE
    /\ offset' = 0
    /\ UNCHANGED <<log, pc, start, cur, attempt, cand, effects, granted,
                   checkpoint>>

\* `agent run graph.json`: the file's graph replaces the stored one.
OpenFresh ==
    /\ SpendOf("fresh", MaxFresh)
    /\ Open(NoStep)
    /\ fixed' = {}
    /\ freshAt' = Len(log)

\* `agent resume`: from the latest checkpoint, with the stored graph.
OpenResume ==
    /\ checkpoint # NoCheckpoint
    /\ stored
    /\ SpendOf("resume", MaxResumes)
    /\ Open(checkpoint.step)
    /\ UNCHANGED <<fixed, freshAt>>

\* The browser does not start, or policy refuses the initial navigation.
OpeningFails ==
    /\ proc = "opening"
    /\ proc' = "none"
    /\ UNCHANGED <<vars, resumeFrom, checkpoint, stored, fixed, freshAt, used>>

\* Bug variants of Launch: the checkpoint read as the last finished step; the
\* start step not passed on to the runner.
LaunchAfter ==
    /\ proc = "opening"
    /\ proc' = "running"
    /\ IF resumeFrom = NoStep
         THEN Enter(1) /\ Silent
         ELSE Enter(resumeFrom + 1) /\ Emit("run_resumed", resumeFrom, 0)
    /\ UNCHANGED <<resumeFrom, checkpoint, stored, fixed, freshAt, used>>

LaunchAtOne ==
    /\ proc = "opening"
    /\ proc' = "running"
    /\ Enter(1)
    /\ IF resumeFrom = NoStep THEN Silent ELSE Emit("run_resumed", resumeFrom, 0)
    /\ UNCHANGED <<resumeFrom, checkpoint, stored, fixed, freshAt, used>>

\* run_resumed is recorded only for a resumed run, then runner.run is entered.
Launch ==
    /\ proc = "opening"
    /\ proc' = "running"
    /\ IF resumeFrom = NoStep
         THEN Enter(1) /\ Silent
         ELSE Enter(resumeFrom) /\ Emit("run_resumed", resumeFrom, 0)
    /\ UNCHANGED <<resumeFrom, checkpoint, stored, fixed, freshAt, used>>

Run ==
    /\ proc = "running"
    /\ RunnerStep
    /\ UNCHANGED procVars

\* CheckpointWriter.checkpoint_now.
CheckpointNow(s) == checkpoint' = [step |-> s, offset |-> offset]

Exit ==
    /\ proc' = "none"
    /\ pc' = "idle"
    /\ UNCHANGED <<log, offset, start, cur, attempt, cand, effects, granted,
                   pauseRequested, resumeFrom, stored, fixed, freshAt, used>>

\* Bug variants of CloseReturned: the last finished step is saved; a completed
\* run is left open.
CloseAtFinishedStep ==
    /\ proc = "running" /\ pc \in {"paused", "completed"}
    /\ CheckpointNow(IF cur > 1 THEN cur - 1 ELSE 1)
    /\ Exit

CloseIfPaused ==
    /\ proc = "running" /\ pc = "paused"
    /\ CheckpointNow(cur)
    /\ Exit

\* runner.run returned.  What happened is read back from the table: the run
\* counts as paused if the last row that was loaded says so.
CloseReturned ==
    /\ proc = "running" /\ pc \in {"paused", "completed"}
    /\ LET rows == Rows(EventLimit) IN
         IF rows # <<>> /\ rows[Len(rows)].type = "run_paused"
           THEN CheckpointNow(rows[Len(rows)].step)
           ELSE CheckpointNow(N)
    /\ Exit

\* Bug variant of CloseRaised: the checkpoint of a run that returned.
CloseRaisedAtEnd ==
    /\ proc = "running" /\ pc = "aborted"
    /\ CheckpointNow(N)
    /\ Exit

\* runner.run raised: checkpoint the last failed step that was loaded, if any.
CloseRaised ==
    /\ proc = "running" /\ pc = "aborted"
    /\ LET failedStep == LatestFailed(Rows(EventLimit)) IN
         IF failedStep = NoStep THEN UNCHANGED checkpoint
                                ELSE CheckpointNow(failedStep)
    /\ Exit

\* SIGKILL, or a KeyboardInterrupt, which `except Exception` lets through.
Crash ==
    /\ proc # "none"
    /\ SpendOf("crash", MaxCrashes)
    /\ proc' = "none"
    /\ pc' = "idle"
    /\ UNCHANGED <<log, offset, start, cur, attempt, cand, effects, granted,
                   pauseRequested, resumeFrom, checkpoint, stored, fixed,
                   freshAt>>

\* `agent pause`.
Pause ==
    /\ RequestPause
    /\ UNCHANGED procVars

\* A row another process adds through a CheckpointWriter of its own.
RecordElsewhere(t, s) ==
    /\ SpendOf("other", MaxOther)
    /\ log' = Append(log, Event(t, s, 0))
    /\ UNCHANGED <<offset, pc, start, cur, attempt, cand, effects, granted,
                   pauseRequested, proc, resumeFrom, checkpoint, stored,
                   freshAt>>

\* `agent mode set --run-id`: at any moment, also while the run is going on.
SwitchMode == RecordElsewhere("mode_switched", 0) /\ UNCHANGED fixed

\* `agent fix` without --step-id.
FixLatestFailed ==
    LET s == LatestFailed(Rows(FixLimit)) IN
    /\ stored
    /\ s # NoStep
    /\ RecordElsewhere("intervention_recorded", s)
    /\ fixed' = fixed \cup {s}

ProcessStep ==
    OpeningFails \/ Launch \/ Run \/ CloseReturned \/ CloseRaised

SessionNext ==
    \/ OpenFresh \/ OpenResume
    \/ ProcessStep
    \/ Crash
    \/ Pause \/ SwitchMode \/ FixLatestFailed

SessionSpec == SessionInit /\ [][SessionNext]_sessionVars

\* A process goes on unless its runner waits for the page; the browser is taken
\* to start, or to fail, and to close.  Nobody must type a command.
SessionFairSpec ==
    SessionSpec /\ WF_sessionVars(~(proc = "running" /\ Waiting) /\ ProcessStep)

-----------------------------------------------------------------------------
(***************************************************************************)
(* Properties.  An execution is what follows one `agent run`: the rows     *)
(* after freshAt, over however many resumed processes.                     *)
(***************************************************************************)
ThisExecution == freshAt+1..Len(log)

NothingKilled == used.crash = 0

FinishedBefore(i, s) ==
    \E j \in freshAt+1..i-1 : log[j].type = "step_succeeded" /\ log[j].step = s

\* A resumed process starts at a step all of whose predecessors are finished,
\* wherever earlier processes of the execution were killed (run_cmd.py:177-212,
\* 248-271).  Holds within one execution: a second `agent run` leaves the
\* checkpoint of the first in place, and if it is killed that one is resumed.
ResumeNeverSkips ==
    \A i \in ThisExecution : log[i].type = "run_resumed" =>
        \A s \in 1..log[i].step-1 : FinishedBefore(i, s)

\* As long as nothing is killed, a run that was paused goes on at the step it
\* was paused in front of (run_cmd.py:193-204, 263-271).
ResumeAtPausedStep ==
    NothingKilled => \A i \in DOMAIN log : \A j \in 1..i-1 :
        (/\ log[i].type = "run_resumed"
         /\ log[j].type = "run_paused"
         /\ \A k \in j+1..i-1 : log[k].type \in OtherEvents)
        => log[i].step = log[j].step

\* A run that failed goes on at the step that failed, whatever rows other
\* processes added meanwhile (run_cmd.py:177-191).
ResumeAtFailedStep ==
    \A i \in ThisExecution : \A j \in freshAt+1..i-1 :
        (/\ log[i].type = "run_resumed"
         /\ log[j].type = "step_failed"
         /\ \A k \in j+1..i-1 :
                log[k].type \in OtherEvents \cup {"run_aborted"})
        => log[i].step = log[j].step

\* As long as nothing is killed, no finished step of an execution is started
\* again before the whole execution is complete (plan A6.2).
FinishedStepsNotRepeated ==
    NothingKilled => \A i \in ThisExecution :
        (log[i].type = "step_started" /\ FinishedBefore(i, log[i].step)) =>
            \E j \in freshAt+1..i-1 : log[j].type = "run_completed"

\* A started process ends by itself, the checkpoint written and the browser
\* closed, unless the page leaves its runner waiting for ever
\* (run_cmd.py:171-214).
ProcessEnds == (proc # "none") ~> (proc = "none" \/ []Waiting)

\* The execution seen through its log.
FinishedPrefix ==
    CHOOSE d \in 0..N :
        /\ \A s \in 1..d : FinishedBefore(Len(log) + 1, s)
        /\ d = N \/ ~FinishedBefore(Len(log) + 1, d + 1)

Reported ==
    \E i \in ThisExecution :
        /\ log[i].type = "run_completed"
        /\ \A j \in i+1..Len(log) : log[j].type # "run_resumed"

Execution == INSTANCE AtLeastOnce WITH prefix <- FinishedPrefix,
                                       over <- Reported

\* The processes of one execution together implement AtLeastOnce.
ExecutesAtLeastOnce == Execution!Spec

=============================================================================
