----------------------------- MODULE PanelReplay -----------------------------
(***************************************************************************)
(* Replay control of the panel: cli/panel_cmd.py's _PanelState.  One       *)
(* asyncio loop runs the replay task, the tasks cancelled before it that   *)
(* are still unwinding, and one message handler per connected panel; a     *)
(* handler that awaits is overtaken by the others.  The panel page         *)
(* (panel/web/panel.html) is modelled by the buttons it shows, because     *)
(* they decide which messages can arrive.                                  *)
(*                                                                         *)
(* Steps are numbers, distinct by construction.  An action on the page     *)
(* succeeds or raises; a panel shows a broadcast at once.                  *)
(***************************************************************************)
EXTENDS Naturals, Sequences, SequencesExt, FiniteSets, ListOps

CONSTANTS
    N,            \* number of recorded steps at the beginning
    Clients,      \* panels that can be connected at the same time
    MaxTasks,     \* bound: replay tasks that exist at the same time
    MaxClicks,    \* bound: messages of the panels
    MaxLoads,     \* bound: page loads, each with a new panel
    MaxEdits,     \* bound: steps added or deleted
    MaxFixes,     \* bound: force-fix cascades
    MaxRecords    \* bound: clicks on the recording button

ASSUME PanelAssumption ==
    /\ {N, MaxTasks} \subseteq Nat \ {0}
    /\ {MaxClicks, MaxLoads, MaxEdits, MaxFixes, MaxRecords} \subseteq Nat
    /\ IsFiniteSet(Clients)

NoStep == 0
NoTask == 0
Tasks == 1..MaxTasks
StepIds == 1..N + MaxEdits

VARIABLES
    steps,           \* self.step_graph.steps
    task,            \* the coroutines of _run_replay
    replayTask,      \* self._replay_task, or NoTask if None or done
    pauseRequested,  \* self._pause_requested
    pausedStep,      \* self._paused_step_id
    failingStep,     \* self._failing_step_id
    depth,           \* self._capture_suspend_depth
    recording,       \* self._recording_active
    call,            \* the message each client's handler is working on
    mode,            \* panelMode of each panel: which buttons it shows
    used,            \* how much of each bound is used up
    \* Observation only: no code reads these three.
    first,           \* the step the pass over the list began at
    ran,             \* the steps that passed since it began
    lost             \* replays cancelled while they disarmed the page

serverVars == <<steps, task, replayTask, pauseRequested, pausedStep,
                failingStep, depth, recording>>
seen == <<first, ran, lost>>
vars == <<serverVars, call, mode, used, seen>>

Stages == {"free", "created", "suspending", "acting", "announcing",
           "completing", "restoring"}

\* start: fromStepId.  at, step: index and element the loop is at.  list: the
\* list being iterated, once self.step_graph.steps was bound to another one.
Free == [pc |-> "free", start |-> NoStep, at |-> 1, step |-> NoStep,
         live |-> TRUE, list |-> <<>>, cancelled |-> FALSE]

Idle == [kind |-> "none", stage |-> "sent", step |-> NoStep]

Init ==
    /\ steps = [i \in 1..N |-> i]
    /\ task = [t \in Tasks |-> Free]
    /\ replayTask = NoTask
    /\ pauseRequested = FALSE
    /\ pausedStep = NoStep
    /\ failingStep = NoStep
    /\ depth = 0
    /\ recording = FALSE
    /\ call = [c \in Clients |-> Idle]
    /\ mode = [c \in Clients |-> "edit"]
    /\ used = [clicks |-> 0, loads |-> 0, edits |-> 0, fixes |-> 0,
               records |-> 0]
    /\ first = 1
    /\ ran = <<>>
    /\ lost = 0

EditKinds == {"append", "duplicate", "delete"}

\* The bounds: an edit is counted when it is handled, the rest when clicked.
Room(kind) ==
    /\ used.clicks < MaxClicks
    /\ kind = "force_fix" => used.fixes < MaxFixes
    /\ kind = "record" => used.records < MaxRecords
    /\ kind \in EditKinds => used.edits
           + Cardinality({c \in Clients : call[c].kind \in EditKinds})
               < MaxEdits

CountClick(kind) ==
    used' = [used EXCEPT !.clicks = @ + 1,
                         !.fixes = @ + IF kind = "force_fix" THEN 1 ELSE 0,
                         !.records = @ + IF kind = "record" THEN 1 ELSE 0]

CountEdit == used' = [used EXCEPT !.edits = @ + 1]

-----------------------------------------------------------------------------
(***************************************************************************)
(* The replay task.                                                        *)
(***************************************************************************)
\* `for step in self.step_graph.steps` keeps the list object it began with.
View(t) == IF task[t].live THEN steps ELSE task[t].list

\* Index the loop starts at: fromStepId, or past the end if it is not there.
FirstIndex(list, s) ==
    IF s = NoStep THEN 1
    ELSE IF Contains(list, s) THEN CHOOSE i \in DOMAIN list : list[i] = s
    ELSE Len(list) + 1

\* Head of the loop at index i, up to the next await.
LoopHead(t, i) ==
    IF i > Len(View(t))
      THEN /\ task' = [task EXCEPT ![t].pc = "completing"]
           /\ UNCHANGED <<pauseRequested, pausedStep>>
      ELSE /\ task' = [task EXCEPT
                ![t].pc = IF pauseRequested THEN "announcing" ELSE "acting",
                ![t].at = i, ![t].step = View(t)[i]]
           /\ pauseRequested' = FALSE
           /\ pausedStep' = IF pauseRequested THEN View(t)[i] ELSE pausedStep

\* _suspend_auto_capture: disarming the page is awaited only while recording.
Suspend(t) ==
    /\ task[t].pc = "created" /\ ~task[t].cancelled
    /\ depth' = depth + 1
    /\ IF depth = 0 /\ recording
         THEN /\ task' = [task EXCEPT ![t].pc = "suspending"]
              /\ UNCHANGED <<pauseRequested, pausedStep>>
         ELSE LoopHead(t, FirstIndex(View(t), task[t].start))
    /\ UNCHANGED <<steps, replayTask, failingStep, recording, call, mode,
                   used, seen>>

Suspended(t) ==
    /\ task[t].pc = "suspending" /\ ~task[t].cancelled
    /\ LoopHead(t, FirstIndex(View(t), task[t].start))
    /\ UNCHANGED <<steps, replayTask, failingStep, depth, recording, call,
                   mode, used, seen>>

Pass(t) ==
    /\ task[t].pc = "acting" /\ ~task[t].cancelled
    /\ LoopHead(t, task[t].at + 1)
    /\ ran' = Append(ran, task[t].step)
    /\ UNCHANGED <<steps, replayTask, failingStep, depth, recording, call,
                   mode, used, first, lost>>

Fail(t) ==
    /\ task[t].pc = "acting" /\ ~task[t].cancelled
    /\ failingStep' = task[t].step
    /\ task' = [task EXCEPT ![t].pc = "announcing"]
    /\ UNCHANGED <<steps, replayTask, pauseRequested, pausedStep, depth,
                   recording, call, mode, used, seen>>

\* The task is over: `.done()` is true from now on.
Gone(t) ==
    /\ task' = [task EXCEPT ![t] = Free]
    /\ replayTask' = IF replayTask = t THEN NoTask ELSE replayTask

\* Bug variants of Release: every level is dropped at once; no level is.
ReleaseAll(t) ==
    /\ depth' = 0
    /\ Gone(t)

ReleaseNone(t) ==
    /\ depth' = depth
    /\ Gone(t)

\* _resume_auto_capture in the `finally`; arming the page is awaited.
Release(t) ==
    /\ depth' = IF depth > 0 THEN depth - 1 ELSE 0
    /\ IF depth' = 0 /\ recording
         THEN /\ task' = [task EXCEPT ![t].pc = "restoring"]
              /\ UNCHANGED replayTask
         ELSE Gone(t)

\* Bug variant of Announce: the task waits to be resumed instead of returning.
AnnounceAndWait(t) ==
    /\ task[t].pc = "announcing" /\ ~task[t].cancelled
    /\ failingStep = NoStep /\ pausedStep = NoStep
    /\ Release(t)
    /\ UNCHANGED <<steps, pauseRequested, pausedStep, failingStep, recording,
                   call, mode, used, seen>>

\* step_status "failed" and pause, or pause alone, reach the panels.
Announce(t) ==
    /\ task[t].pc = "announcing" /\ ~task[t].cancelled
    /\ mode' = [c \in Clients |-> "failed"]
    /\ Release(t)
    /\ UNCHANGED <<steps, pauseRequested, pausedStep, failingStep, recording,
                   call, used, seen>>

\* run_completed; the panels are back in edit mode two seconds later.
Complete(t) ==
    /\ task[t].pc = "completing" /\ ~task[t].cancelled
    /\ mode' = [c \in Clients |-> "edit"]
    /\ Release(t)
    /\ UNCHANGED <<steps, pauseRequested, pausedStep, failingStep, recording,
                   call, used, seen>>

Restored(t) ==
    /\ task[t].pc = "restoring"
    /\ Gone(t)
    /\ UNCHANGED <<steps, pauseRequested, pausedStep, failingStep, depth,
                   recording, call, mode, used, seen>>

\* CancelledError is raised at the await; the `finally` covers only the loop.
Unwind(t) ==
    /\ task[t].cancelled
    /\ \/ /\ task[t].pc \in {"created", "suspending"}
          /\ Gone(t)
          /\ lost' = lost + IF task[t].pc = "suspending" THEN 1 ELSE 0
          /\ UNCHANGED depth
       \/ /\ task[t].pc \in {"acting", "announcing", "completing"}
          /\ Release(t)
          /\ UNCHANGED lost
    /\ UNCHANGED <<steps, pauseRequested, pausedStep, failingStep, recording,
                   call, mode, used, first, ran>>

TaskStep(t) ==
    \/ Suspend(t) \/ Suspended(t) \/ Pass(t) \/ Fail(t) \/ Announce(t)
    \/ Complete(t) \/ Restored(t) \/ Unwind(t)

-----------------------------------------------------------------------------
(***************************************************************************)
(* The panels and the message handlers.  A client's messages are handled   *)
(* one after the other, so it sends the next one when the last is handled. *)
(***************************************************************************)
\* A panel repairs a step in every mode: the inline Fix of a step whose run
\* alone failed opens the editor ("Apply & Resume", auto-fix, "Validate"), a
\* cascade's answer can be accepted in every panel, and a cancelled auto-fix
\* leaves the failure panel ("Resume", "Add step") open during a replay.
Repairs == {"resume", "force_fix", "validate", "append"}

Buttons(m) ==
    CASE m = "edit" -> Repairs \cup {"replay", "delete", "duplicate", "record"}
      [] m = "replaying" -> Repairs \cup {"pause", "stop"}
      [] m = "failed" -> Repairs \cup {"stop"}

\* The step a message names.  Which steps failed alone is not kept: any may
\* have.  A Resume without an override is not offered in edit mode.
Offered(c, kind) ==
    CASE kind \in {"delete", "duplicate", "force_fix"} -> Range(steps)
      [] kind = "append" -> Range(steps) \cup {NoStep}
      [] kind = "resume" ->
            Range(steps) \cup (IF mode[c] = "edit" THEN {} ELSE {NoStep})
      [] OTHER -> {NoStep}

\* What the click itself changes in the panel.
ModeAfter(kind, m) ==
    CASE kind \in {"replay", "resume"} -> "replaying"
      [] kind = "stop" -> "edit"
      [] OTHER -> m

Click(c) ==
    /\ call[c] = Idle
    /\ \E kind \in Buttons(mode[c]) : \E s \in Offered(c, kind) :
        /\ Room(kind)
        /\ CountClick(kind)
        /\ call' = [call EXCEPT ![c] = [kind |-> kind, stage |-> "sent",
                                        step |-> s]]
        /\ mode' = [mode EXCEPT ![c] = ModeAfter(kind, @)]
    /\ UNCHANGED <<serverVars, seen>>

\* The page navigates: the panel in it starts again in edit mode, and
\* handle_connect announces a pause to all panels.  Not while one is being
\* announced anyway: sending takes no time a person could use.
Reload(c) ==
    /\ call[c] = Idle
    /\ \A t \in Tasks : task[t].pc # "announcing"
    /\ used.loads < MaxLoads
    /\ used' = [used EXCEPT !.loads = @ + 1]
    /\ IF failingStep = NoStep /\ pausedStep = NoStep
         THEN mode' = [mode EXCEPT ![c] = "edit"]
         ELSE mode' = [d \in Clients |-> "failed"]
    /\ UNCHANGED <<serverVars, call, seen>>

Dispatched(c, kind) == call[c].kind = kind /\ call[c].stage = "sent"

Awaiting(c, kind) == call[c].kind = kind /\ call[c].stage = "awaiting"

\* The handler awaits; other handlers and tasks go on.
Await(c) == call' = [call EXCEPT ![c].stage = "awaiting"]

Return(c) == call' = [call EXCEPT ![c] = Idle]

\* task' when the running replay is cancelled, and one is started in its place.
Cancelled ==
    IF replayTask = NoTask THEN task
    ELSE [task EXCEPT ![replayTask].cancelled = TRUE]

\* Bug variant of StartReplay: the running replay is left alone.
StartAnother(s) ==
    \E t \in Tasks :
        /\ task[t] = Free
        /\ task' = [task EXCEPT ![t].pc = "created", ![t].start = s]
        /\ replayTask' = t

StartReplay(s) ==
    \E t \in Tasks :
        /\ task[t] = Free
        /\ \A u \in 1..t-1 : task[u] # Free
        /\ task' = [Cancelled EXCEPT ![t].pc = "created", ![t].start = s]
        /\ replayTask' = t

PassBegins(s) == first' = s /\ ran' = <<>>

ClearStops ==
    /\ pauseRequested' = FALSE
    /\ pausedStep' = NoStep
    /\ failingStep' = NoStep

\* handle_replay: a recording is stopped and saved first, which awaits.
SaveBeforeReplay(c) ==
    /\ Dispatched(c, "replay") /\ recording
    /\ recording' = FALSE
    /\ Await(c)
    /\ UNCHANGED <<steps, task, replayTask, pauseRequested, pausedStep,
                   failingStep, depth, mode, used, seen>>

Replay(c) ==
    /\ (Dispatched(c, "replay") /\ ~recording) \/ Awaiting(c, "replay")
    /\ ClearStops
    /\ StartReplay(NoStep)
    /\ PassBegins(1)
    /\ Return(c)
    /\ UNCHANGED <<steps, depth, recording, mode, used, lost>>

\* handle_stop_replay.  run_aborted changes no panel's buttons.
Stop(c) ==
    /\ Dispatched(c, "stop")
    /\ task' = Cancelled
    /\ ClearStops
    /\ Return(c)
    /\ UNCHANGED <<steps, replayTask, depth, recording, mode, used, seen>>

PauseRequest(c) ==
    /\ Dispatched(c, "pause")
    /\ pauseRequested' = TRUE
    /\ Return(c)
    /\ UNCHANGED <<steps, task, replayTask, pausedStep, failingStep, depth,
                   recording, mode, used, seen>>

\* handle_resume: an override of a step that exists is broadcast first.
ApplyOverride(c) ==
    /\ Dispatched(c, "resume") /\ Contains(steps, call[c].step)
    /\ Await(c)
    /\ UNCHANGED <<serverVars, mode, used, seen>>

ApplyStep(c) == IF call[c].stage = "awaiting" THEN call[c].step ELSE NoStep

ResumePoint(c) ==
    IF failingStep # NoStep THEN failingStep
    ELSE IF pausedStep # NoStep THEN pausedStep
    ELSE ApplyStep(c)

\* Where nothing was stopped a Resume begins a pass of its own.
PassGoesOn(c) ==
    IF failingStep # NoStep \/ pausedStep # NoStep THEN UNCHANGED <<first, ran>>
    ELSE PassBegins(IF ApplyStep(c) = NoStep THEN 1 ELSE ApplyStep(c))

\* Bug variant of Resume: the stop point is cleared before it is read.
ResumeCleared(c) ==
    /\ \/ Dispatched(c, "resume") /\ ~Contains(steps, call[c].step)
       \/ Awaiting(c, "resume")
    /\ StartReplay(ApplyStep(c))
    /\ ClearStops
    /\ PassGoesOn(c)
    /\ Return(c)
    /\ UNCHANGED <<steps, depth, recording, mode, used, lost>>

Resume(c) ==
    /\ \/ Dispatched(c, "resume") /\ ~Contains(steps, call[c].step)
       \/ Awaiting(c, "resume")
    /\ StartReplay(ResumePoint(c))
    /\ ClearStops
    /\ PassGoesOn(c)
    /\ Return(c)
    /\ UNCHANGED <<steps, depth, recording, mode, used, lost>>

\* handle_force_fix: the cascade awaits the page and the LLM.
ForceFix(c) ==
    /\ Dispatched(c, "force_fix")
    /\ IF Contains(steps, call[c].step) THEN Await(c) ELSE Return(c)
    /\ UNCHANGED <<serverVars, mode, used, seen>>

ForceFixed(c) ==
    /\ Awaiting(c, "force_fix")
    /\ failingStep' \in {failingStep, call[c].step}
    /\ Return(c)
    /\ UNCHANGED <<steps, task, replayTask, pauseRequested, pausedStep, depth,
                   recording, mode, used, seen>>

\* handle_validate_step: one action between suspend and resume of capture.
Validate(c) ==
    /\ Dispatched(c, "validate")
    /\ depth' = depth + 1
    /\ Await(c)
    /\ UNCHANGED <<steps, task, replayTask, pauseRequested, pausedStep,
                   failingStep, recording, mode, used, seen>>

Validated(c) ==
    /\ Awaiting(c, "validate")
    /\ depth' = IF depth > 0 THEN depth - 1 ELSE 0
    /\ Return(c)
    /\ UNCHANGED <<steps, task, replayTask, pauseRequested, pausedStep,
                   failingStep, recording, mode, used, seen>>

Record(c) ==
    /\ Dispatched(c, "record")
    /\ recording' = ~recording
    /\ Return(c)
    /\ UNCHANGED <<steps, task, replayTask, pauseRequested, pausedStep,
                   failingStep, depth, mode, used, seen>>

NewStep == N + used.edits + 1

\* Where a step goes that is to follow step s: the end if s is not there.
IndexBehind(s) ==
    IF Contains(steps, s) THEN 1 + CHOOSE i \in DOMAIN steps : steps[i] = s
    ELSE Len(steps) + 1

\* handle_append_step and handle_duplicate_step change the list in place; there
\* is no copy without its original.
InsertStep(c) ==
    /\ Dispatched(c, "append") \/ Dispatched(c, "duplicate")
    /\ steps' = IF call[c].kind = "append" \/ Contains(steps, call[c].step)
                  THEN InsertAt(steps, IndexBehind(call[c].step), NewStep)
                  ELSE steps
    /\ CountEdit
    /\ Return(c)
    /\ UNCHANGED <<task, replayTask, pauseRequested, pausedStep, failingStep,
                   depth, recording, mode, seen>>

\* handle_delete_step builds a new list: running loops keep the old one.
DeleteStep(c) ==
    /\ Dispatched(c, "delete")
    /\ steps' = Keep(steps, Range(steps) \ {call[c].step})
    /\ task' = [t \in Tasks |->
                  IF /\ task[t].live
                     /\ task[t].pc \notin {"free", "created", "suspending"}
                    THEN [task[t] EXCEPT !.live = FALSE, !.list = steps]
                    ELSE task[t]]
    /\ CountEdit
    /\ Return(c)
    /\ UNCHANGED <<replayTask, pauseRequested, pausedStep, failingStep, depth,
                   recording, mode, seen>>

Handle(c) ==
    \/ SaveBeforeReplay(c) \/ Replay(c) \/ Stop(c) \/ PauseRequest(c)
    \/ ApplyOverride(c) \/ Resume(c) \/ ForceFix(c) \/ ForceFixed(c)
    \/ Validate(c) \/ Validated(c) \/ Record(c) \/ InsertStep(c)
    \/ DeleteStep(c)

Next ==
    \/ \E t \in Tasks : TaskStep(t)
    \/ \E c \in Clients : Click(c) \/ Reload(c) \/ Handle(c)

Spec == Init /\ [][Next]_vars

\* The event loop runs whatever is ready, and an action on the page is taken to
\* return or to raise; nobody must click.
FairSpec ==
    /\ Spec
    /\ \A t \in Tasks : WF_vars(TaskStep(t))
    /\ \A c \in Clients : WF_vars(Handle(c))

(***************************************************************************)
(* Properties.                                                             *)
(***************************************************************************)
\* Two panels cannot make two replays act on the page: every task but
\* self._replay_task is cancelled, although handle_replay and handle_resume
\* await before they look at it (panel_cmd.py:530-541, 633-650).
OneReplay ==
    \A t \in Tasks : task[t].pc # "free" /\ ~task[t].cancelled => t = replayTask

\* When no replay and no validation is left, every level of suspension was
\* given back, except one for each replay that was cancelled while it disarmed
\* the page (panel_cmd.py:556-590, 2379-2403): those stay for good, and there
\* are none as long as nobody records.
CaptureComesBack ==
    (/\ \A t \in Tasks : task[t].pc \in {"free", "created"}
     /\ \A c \in Clients : ~Awaiting(c, "validate"))
    => depth = lost /\ (used.records = 0 => lost = 0)

\* However often a replay is paused, stopped, resumed, repaired or started
\* anew, and by however many panels, the steps pass in order from where the
\* pass began, none twice and none left out: at the first step, or where a
\* Resume with an override finds nothing stopped (panel_cmd.py:556-590,
\* 640-650).  Holds while the list is not edited and no cascade puts its own
\* step in the place of the one that failed (panel_cmd.py:722).
StepsPassInOrder == \A i \in DOMAIN ran : ran[i] = first + i - 1

\* While a replay or a validation acts on the page, captured events are thrown
\* away, so the recorder never records the agent's own actions; also while a
\* cancelled replay is still unwinding (panel_cmd.py:1708, 2379-2395).
AgentIsNotRecorded ==
    (\/ \E t \in Tasks : task[t].pc = "acting"
     \/ \E c \in Clients : Awaiting(c, "validate")) => depth > 0

\* A replay does not go on forever: it completes, stops at a step, or is
\* cancelled, and capturing is given back.
ReplayEnds ==
    \A t \in Tasks : task[t].pc # "free" ~> task[t].pc = "free"

(***************************************************************************)
(* Statements of the documentation the program does not keep.              *)
(***************************************************************************)
\* "Resume always continues from the paused step ID - never from step 1": a
\* second Resume does not start over what the first is about to go on with.
ResumeNeverFromStepOne ==
    [][\A c \in Clients, t \in Tasks :
         (/\ Resume(c) /\ ran # <<>>
          /\ t = replayTask /\ task[t].pc = "created" /\ task[t].start # NoStep)
         => task'[replayTask'].start # NoStep]_vars

=============================================================================
