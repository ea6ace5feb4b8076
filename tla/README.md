# TLA+ specifications of the Playwright agent

The repository is an agent that records browser sessions as *step graphs*,
replays them, repairs broken selectors and keeps an event log of every run.
The specifications here model its control: which step runs next, what is
retried, what is written down, what a pause, a kill, a second panel or a late
answer can do to that. All paths below are relative to
`src/agent/src/agent/` unless they start with `docs/` or `plan/`.

| module | models | extends / uses |
|---|---|---|
| `StepRunner` | one run of a graph: `execution/runner.py` with its event sink | |
| `RunContract` | what the event log of one run promises its readers | refined by `StepRunner` |
| `RunSession` | `agent run`, `pause`, `resume`, `fix`, `mode set` and killed processes over one run id | `StepRunner` |
| `AtLeastOnce` | what those commands promise together | refined by `RunSession` |
| `StepContext` | what the runner does before each attempt: fingerprint, cache record, snapshot | |
| `BrowserTools` | tabs, frames, dialogs and the tools that wait for the browser, for several callers | |
| `PanelReplay` | the panel's replay control, `cli/panel_cmd.py` and the buttons of `panel/web/panel.html` | |
| `PanelCapture` | the panel's auto-recording: the queue in the page, the poll that turns events into steps, start, stop and suspension | |
| `PanelVersions` | the panel's step list, its saved versions, the file, and the list each panel shows | |
| `LlmRounds` | the rounds of LLM Assist and LLM Build between panels and server | |
| `ForceFix` | the repair cascade on a page that changes | |
| `LocatorRank` | from an element to a locator: candidates, probing, ranking, confidence, the export gate | |
| `Recorder` | `recorder/recorder.py`: events of several documents, delivered twice, to interleaving tasks | |
| `Dashboard` | the dashboard server: recording, replay in a child process and interactive replay behind one lock | |
| `InteractiveReplay` | the debugger-like replay: runs, edits, fixes, picks and saving | |
| `Memory` | repairs and their life, evidence, compiled entries, policy versions, contradictions | |
| `Orchestrator` | one `run_step` of the LLM orchestrator: rounds, budgets, escalation | |
| `ListOps` | the list comprehensions of panel, cascade and dashboard, as a recursive function | used by `PanelReplay`, `PanelVersions`, `ForceFix`, `InteractiveReplay` |
| `RunSessionProofs` | TLAPS proofs, for every value of the constants | `StepRunner`, `RunSession` |
| `PanelReplayProofs`, `PanelCaptureProofs`, `DashboardProofs`, `RecorderProofs` | the same | the module each is named after |
| `EditorProofs` | the same, for what edits a graph by hand or model | `LlmRounds`, `PanelVersions`, `InteractiveReplay` |
| `ServicesProofs` | the same, for what the others rely on | `BrowserTools`, `StepContext`, `LocatorRank`, `ForceFix`, `Memory`, `Orchestrator` |
| `ListFacts` | lemmas about lists of every length, which the proofs cite | `ListOps` |
| `MCStepRunner`, `MCRunSession`, `MCPanelReplay`, `MCPanelCapture`, `MCDashboard`, `MCRecorder`, `MCLocatorRank` | the instances TLC checks | the module each is named after |
| `MCServices` | nine parts that share no state, checked side by side | `LlmRounds`, `Orchestrator`, `PanelVersions`, `BrowserTools`, `StepContext`, `ForceFix`, `Memory`, `LocatorRank`, `InteractiveReplay` |

Some operators stand beside the one the specification uses and are used by no
action (`RemainingAll` of `LlmRounds`, `AdoptUnchecked` of `Dashboard`, and so
on; `PROJECT.json` lists them under `mutants`). Each is a plausible mistake in one
definition; putting it in the place of that definition makes a property fail,
which shows that the property depends on the code.

## 1. Inventory

Components, the state each keeps, its operations, what is hard about it and
what would make it correct. `PROJECT.json` lists the same components with their
status, and the hazards line by line.

**Step runner** (`execution/runner.py`, `stepgraph/models.py`). State: the step
the loop is at, the attempt, the selector being tried. Operations: `run`,
`_run_step`, `_execute_step_action`, `_enforce_action_policy`, `_emit`.
It calls the tools, the approval classifier, an operator's prompt and the event
sink. Hard: a call may act on the page and then raise; retries, selectors and
approvals multiply; a pause is honoured only between steps. Correct: steps in
order, no success without an action, retries within budget, each approval used
for one attempt, exactly one final event, and always one.

**Event log and checkpoints** (`execution/checkpoint_writer.py`,
`storage/repos/*.py`). State: rows of the events table, latest checkpoint, the
stored step graph, a JSONL copy; per process an `event_offset`, which nothing
reads back. Hard: several processes append; readers load a bounded number of
the *oldest* rows. Correct: what is read back describes what happened.

**Run commands** (`cli/run_cmd.py`). State: the `.pause` marker; everything
else is lost with the process. Operations: `run`, `resume`, `pause`. Hard: any
process may be killed between the first row and the checkpoint; the outcome of
a run is reconstructed from the table. Correct: resume continues where the run
stopped, no step is jumped over, nothing finished is repeated without need.

**`agent fix`, `agent mode`** (`cli/fix_cmd.py`, `cli/mode_cmd.py`,
`core/mode.py`). Processes of their own that add rows to the log of a run that
may be going on; `fix` also rewrites a step of the stored graph. Hard: the mode
changes before its event is saved; `resume` loads the graph and saves it back.

**Context cache and snapshots** (`cache/engine.py`, `execution/snapshot.py`,
`storage/repos/cache.py`). State: one record per step in the database, the
references of the latest snapshot in the process. Operations: fingerprint the
page (route, modal, scope, frames, each behind an await), decide reuse,
refresh or rebuild, save the record, capture. Hard: the page changes between
the looks; records outlive the process that could use them; the record is
saved before the snapshot it stands for. Correct: reuse only where the
references are of what is seen now.

**Tools, browser** (`execution/tools.py`, `execution/browser.py`). State: tabs,
frames, the current frame path of each tab, instrumentation and logs, dialog
listeners. Callers (a replay, a validation) share one runtime. Hard: tabs and
frames disappear in the middle of a tool; a tool that times out leaves a
listener. Correct: nothing of a closed tab stays; only live frames are
entered; a dialog is answered once.

**Panel replay** (`cli/panel_cmd.py` 530-743, 2379-2403). State: step list,
replay task, pause request, paused and failing step, capture-suspend depth.
Operations: replay, pause, stop, resume with or without an override, validate,
force-fix, append, duplicate, delete; reconnecting panels. Hard: one asyncio
loop runs the replay, replays that were cancelled and still unwind, and one
handler per connection, all over the same attributes. Correct: one replay acts
at a time, in order; resume goes on at the stop point; suspension of capture is
given back.

**Panel recording** (`cli/panel_cmd.py` 1605-1798, `recorder/recorder.py`
34-460). State: captured events and the armed flag in the page, pending fills,
last click, the polling task, the suspend depth, known pages. Operations: start,
stop, suspend, resume, the poll. Hard: the poll, the flush and the stop handler
await in the middle of what they do; the queue is in another process, which a
page load replaces. Correct: one poll, every event at most one step, in order;
what the agent does is not recorded; nothing buffered stays behind.

**Panel versions, repair history** (`cli/panel_cmd.py` 745-802, 1505-1570,
`stepgraph/versions.py`). State: the step list, the main list as it was first
saved, named snapshots, a file; in each panel a list of its own, kept by
announcements. Hard: announcements, messages and lists cross on the way.
Correct: a panel shows every step a replay would perform.

**LLM Assist and Build** (`cli/panel_cmd.py`, `healing/llm_assist.py`,
`panel/web/panel.html`). State: in the page the attempts it is still to hear
of, the rounds started, timers; in the server nothing but the request at hand.
Hard: announcements go to all panels, so a panel counts those of another's
round; timers and clicks ask twice. Correct: no panel waits for nothing, the
automatic rounds are bounded, Stop stops.

**Force-fix cascade** (`healing/force_fix.py`). Primary, fallbacks and
alternates are probed in turn, the strongest is chosen, else the model is
asked. Hard: the page changes between the probes. Correct: the answer was
probed, and nothing that passed is stronger.

**Locators and export** (`locator/`, `recorder/recorder.py`
`_build_locator_bundle`, `cli/panel_cmd.py` `_emit_step_from_target`,
`export/gating.py`). Pure scores over what asynchronous probes found. Correct:
a unique selector is preferred to one of several; a guess is not exported.

**Recorder** (`recorder/recorder.py`). State: numbers seen, the graph, upload
paths, choosers, in the page a counter and a queue per document. Hard: each
event comes twice, by the binding and by the queue, to tasks that await between
reading and appending; documents count anew. Correct: each capture is one step,
the edges follow the steps.

**Dashboard** (`ui/dashboard.py`). State: recorder, interactive session, child
process and its worker, the flag of a boot under way. Hard: checks before
awaits; boots outside the lock; a `finally` that clears its successor's
fields. Correct: recording and interactive replay exclude each other; no
browser is lost; Stop reaches the process that runs; every request ends.

**Interactive replay** (`ui/replay_interactive.py`). State: the graph in
memory, errors of upload steps, the pick. Hard: runs, probes and builds await
outside the lock while edits rebind the list. Correct: the errors shown are
those of the last run; a fix lands where it was probed.

**Repair memory** (`memory/*.py`, `storage/repos/memory.py`). Rows and files
that each client of the stores reads, then writes. Hard: two clients overwrite
each other; one dies between a row and a file. Correct: nothing refers to what
is not there; trust is earned.

**LLM orchestration** (`llm/orchestrator.py`). Counters of rounds, of rounds
without progress and of escalations. Correct: gives up only when no larger
context is left.

**Transport** (`panel/bridge.py`): one message at a time per connection,
connections concurrent, broadcasts to all. It is part of the panel modules.

**Policy** (`policy/*.py`), **telemetry**, **storage engine**,
**configuration**, **human test sessions**, **smoke scripts**: text matching,
I/O, formatting, or a library's behaviour.

The components interact through calls within one asyncio loop (panel, server,
dashboard, runner and tools), through the database and the files of a run
(commands, memory, cache), and through messages to the pages (panels, capture
scripts).

## 2. The modules

### StepRunner

A step is its position in the graph. The constants are what the graph and the
policy say of a step: retries allowed, hard approval, number of selectors. `pc`
is where the coroutine is; one action is the code from one point where it may
raise or record an event to the next.

| action | code |
|---|---|
| `Enter`, `Begin` | `run` up to the loop: skip to `start_step_id`, or past the end if it is not in the graph |
| `PauseAtStep` | the marker is there: `run_paused` with `next_step_id` |
| `StartAttempt` | head of the attempt loop: `step_started` |
| `Prepare` | `_prepare_step_context`, `_evaluate_preconditions`: may raise (`StepContext` has the detail) |
| `Approve` | `_enforce_action_policy`, asking the operator on each attempt |
| `TryCandidate`, `NoCandidateLeft` | the selector loop of `_execute_step_action`; a failed call may have acted |
| `PostconditionFails`, `Succeed` | `_evaluate_postconditions`, `step_succeeded` |
| `Retry`, `FailStep`, `Abort` | the `except` branch of `_run_step`, then of `run` |
| `Complete` | the loop ended: `run_completed` |
| `RequestPause` | `agent pause` in another process |

`effects` and `granted` are observations no code reads: in how many tool calls a
step acted and which attempts were approved. One call counts once, although an
upload may touch several inputs in it. `Waiting` names the waits that no limit
of time ends: the operator's answer to `typer.confirm` (`cli/run_cmd.py:146`) and
what the page is asked without a timeout (`page.evaluate` in `cache/engine.py:163`
and `execution/snapshot.py:80`, a tool given the timeout 0). `log` and `offset` belong to
`CheckpointWriter.emit_event`.

`RunContract` says the same run seen through its log: steps finish one after
the other, and the run ends once. The refinement mapping reads its variables
from `log` (`LastSucceeded`, `OutcomeInLog`), so it is a statement about what a
reader of the log can conclude.

### RunSession

Extends `StepRunner` by processes. `Open*` is the head of `_run_graph`
(marker removed, graph saved, writer with offset 0, new browser), `Launch`
records `run_resumed` and enters the runner, `Run` is a step of the runner,
`CloseReturned` and `CloseRaised` are the two branches that write the
checkpoint from what is read back from the table, `Crash` loses everything but
the tables and the marker. `SwitchMode` and `FixLatestFailed` are other
processes that add rows at any moment. A second process of the same run is not
among them: nothing in the code keeps two resumes from overlapping, and the
module begins a process only when there is none. An *execution* is what follows one
`agent run`, over all its resumed processes; `AtLeastOnce` is its contract.

### StepContext

`BeginStep` starts an attempt; `LookAtRoute` (with the frames), `LookAtModal` and
`LookAtScope` read the page one await after the other, so the fingerprint can be of no page
that ever was; `Decide` compares it with the record (`Matches`), saves the new
record, and goes on with reuse or a capture (`CaptureBegins`,
`Captured`, `CaptureBreaks`); `ActPasses` and `ActFails` are the attempt.
`EndSession` is the end or death of the process: records stay, references and
browser go. `PageChanges` happens at any moment. `begun` is an observation:
the snapshots this session began.

### BrowserTools

`PageEvents` are Playwright's callbacks (page and frame events, dialogs). A
tool is the code up to its await (`Interact`, `Point`, `WaitFor`,
`AssertTarget`, `AssertPage`, `Screenshot`, `Upload`, `OnPage`, `TabsList`,
`TakeTrace`, `FrameEnter`, `FrameEnterById`, `TabsClose`, `DialogHandle`) and
what follows when the browser answered (`Acted`, `OnPageDone`, `TabsListed`,
`TraceTaken`, `FrameEntered`, `TabsClosed`, `DialogAnswered`), or did not
(`TabsCloseFails`, `DialogTimesOut`), or when it looks again (`UploadAgain`);
tools that do not wait are one action (`ReadLog`, `TabsSelect`, `FrameExit`).
`OnTarget` is `_resolve_target_locator`, which the tools with a target share.
`Replays` are the callers whose task the panel cancels (stop, resume, the next
replay): `Cancelled` ends their tool wherever it waits, and what it leaves there
stays. `Observe` is the instrumentation a tool installs on the tab it uses,
`Forget` what `tabs_close` drops. `forgotten` and `gaveUp` are observations.

### PanelReplay

`task` holds every coroutine of `_run_replay` that still exists: the current
one and those that were cancelled and are unwinding. Each stage is an `await`
at which other tasks and handlers can run: `suspending`, `acting`,
`announcing`, `completing`, `restoring`. `_run_replay` iterates a list object:
`live` and `list` tell whether that object is still `self.step_graph.steps`,
because insertion changes it in place and deletion binds a new one. `call`
holds the message each connection's handler is working on; a handler that
awaits is `awaiting` and is overtaken. Panels are modelled by `mode`, which decides the
buttons they show and so the messages that can arrive (`Buttons`) and the step a
message may name (`Offered`). A panel can repair in every mode (`Repairs`): the
inline fix of a step whose own run failed opens the editor, whose "Apply &
Resume" resumes with an override from any step. With nothing stopped, the server
then begins at that step (`cli/panel_cmd.py:640`): a new pass, whose beginning is
`first`. `ran` holds the steps that passed since, `lost` counts the replays that
were cancelled while they disarmed the page; no code reads these three.

Two simplifications: a broadcast reaches all panels at once, and the steps the
auto-recorder appends to the list while a replay iterates it are left out; how
they come about is `PanelCapture`.

### PanelCapture

`installed`, `armed` and `queue` are the page's variables
(`__agentRecorderArmed`, `__agentRecorderQueue`); a page load runs the script
anew. `co` holds the coroutines: polls and one handler per panel. An action is
what a coroutine does between two awaits, and `pc` is the await it is at. An event
names its element by the semantic `key` of the script, which two elements may
share. `reloaded` and `strays` are observations: whether a page was loaded that
nobody disarmed since, and which of the agent's actions such a page had caught
and still held when the suspension ended (`Caught`).

| action | code |
|---|---|
| `Act` | the click, input and keydown listeners of the capture script |
| `Load` | the script in a new document: empty queue, armed |
| `Drain`, `DrainRaises` | the poll's `evaluate` of `__agentRecorderDrain` |
| `Process` | `_process_capture_event` over the batch, up to the next await: what stays unprocessed is `Remaining`, and the inputs before it are buffered (`Fills`), a second click on an element is skipped; then the batch is over and the flush begins (`BatchEnds`), a fill of the same element comes out first (`FillComesFirst`), or the event itself does (`EventComesOut`) |
| `Ranked` | `rank_candidates` answered: the step is appended and broadcast |
| `FlushMore`, `Flushed` | `_flush_pending_fills`: a copy is emitted fill by fill, then the dictionary is cleared |
| `Start`, `Inject`, `Arm` | `handle_start_recording` between its awaits |
| `Stop`, `Disarm` | `handle_stop_recording`: the poll is cancelled and not waited for |
| `Suspend`, `Suspended`, `Resume`, `Restore` | `_suspend_auto_capture` and `_resume_auto_capture` around a validation |
| `Unwind` | the cancelled poll; its batch is gone |

`steps` holds the event each recorded step stands for, so order, duplicates
and origin can be asked of it. `QuietPrefix` computes how many events of a
batch are dealt with before the next await, which keeps runs of buffered
inputs in one step as in the code.

### PanelVersions

`Post*` are the panel's buttons (a deletion changes the panel's own list at
once), `Hear` what it does with an announcement; the other actions are the
handlers, split at their awaits by `job`. `SaveVersion` takes the main list at the
first save and the version's list, `SaveWritten` stores it; `LoadMain`, `LoadVersion`,
`LoadFromFile` replace the list and announce it; `RecordStep` is the
auto-recorder. A built step that is inserted (`insert_built_step`) is handled as
`AppendStep`. The two queues are the sockets.

### LlmRounds

`Asking` is a request taken from its connection (`Take`, or `Refuse` when the
step is unknown) and answered by the model with a few attempts (`Plan`);
`Trying` is one of them, announced, performed and announced again (`Try`,
`Passes`, `Fails`, `Breaks`). `AssistHears` and `BuildHears` are `onLlmAssistResult` and its twin
in every panel. Assist asks again half a second after a round that failed
(`TimerFires`) or when the user says so (`StillBroken`), Build within
`BuildHears`' announcement (`AsksAgain`); the rest are buttons. Build's stop
button is there while its panel is shown `thinking`, be it by another panel's
round. `asked` counts the rounds a panel started in these ways. Loading the page
of a panel anew, which resets its counters, is left out.

### ForceFix and LocatorRank

`ForceFix` probes the candidates of `Lists` in order (`Probe`), picks the best
pass (`Select`), and asks and verifies the model when there was none.
`LocatorRank` builds `Candidates` from what is known of the element, probes
each (`Count`, `LookAtElement`, `Probed`) in up to three passes (`PassEnds`,
`Forced`, `TryHarder`), and makes the step as recorder (`Recorded`) or panel
(`Emitted`, `FallBack`) with the confidence each writes; `Gate` is the export's
verdict on it. Confidence is counted in 1/10000. In both the page may change
between any two calls of the browser.

### Recorder

`Act` is a user action: the script numbers it, queues it and calls the binding.
`Receive` is that call, `Drain` and `Flushed` the poll and the final drain of
`stop`; all of them ingest by number (`IngestAll`) and then build a locator for
each event (`Built`, `PickBuilt`, `UploadBuilt`), which awaits, before `Record`
appends or coalesces the step. A click on a file input also raises a chooser
(`ChooserHandled`, `PanelAnswered`, `PanelTimesOut`, `ChooserRecorded`). A task may
die of an exception while it builds (`Dies`), in the refresh of the HUD after an
append, say: what it had in hand is lost, a poll does not come back, and `stop`
then raises before it writes.
`Controls` are the commands of the dashboard. `from` of a step and `gone` are
observations.

### Dashboard and InteractiveReplay

In `Dashboard` an HTTP request is numbered as it comes, `at` is the await it
is at, and `queue` is the lock with those who wait for it. The browser or
process a request made is named by that request. `Serve` is what handlers do,
`Child` the end of a process and its worker. `InteractiveReplay` is one such
session at work: edits hold the lock and do not await, so each is one action;
runs, probes and builds are records in `runs`, `fixes` and `pick`, which other
requests overtake. Booting and closing against the other users of the browser
are in `Dashboard` only. Not in either: the handlers that hold the lock while they
ask the page of a session (`handle_state`, `begin_pick`, `cancel_pick`).

### Memory

`repair`, `rows`, `entry` are rows, the others files. A client's call is split
where it has read and is still to write, and between two writes; `Dies` drops
the call at any such moment. `NextState` is `_resolve_state`, `Decision` the
table of `contradictions.py`. A repair begins as a candidate. `upsert`, and
`record_manual_fix_candidate` with an identifier given to it, store whatever they
are handed (`memory/repairs.py:125`); only smoke scripts call them.

### Orchestrator

One action per round: the model's answer with the tools it called, followed by
the budgets. Nothing else shares this state, so there is nothing to interleave;
the counters are what is hard.

## 3. What the runs check

| run | question | bounds |
|---|---|---|
| `step_runner` | Is the log of a single run a behaviour of `RunContract`, are retries and approvals kept, does the run end? | 3 steps: one plain, one retried twice with two selectors, two at hard approval; every start step; a pause at any moment |
| `session` | Do `run`, `pause` and `resume` keep an execution in order, whatever is killed? Do they implement `AtLeastOnce`? Does every process end? | 3 steps, one retried once, 1 `run`, 2 `resume`, 2 kills |
| `session_others` | Does a failed run go on at the failed step although other processes add rows? | 3 steps, 2 `resume`, 1 row of others |
| `panel_two` | Two panels and recording: one replay at a time, its actions not recorded, capture given back but for the levels lost, replays end. | 2 steps, 2 panels, 3 replay tasks at once, 3 messages, 1 reload, edit, force-fix and recording |
| `panel_order` | Two panels: do pauses, failures, stops, repairs and resumes keep the order of the steps? | 3 steps, 2 panels, 3 replay tasks at once, 4 messages, 1 of them a recording |
| `capture` | One panel records: no event twice, each key's events in order, the agent's actions not recorded, no buffered fill left behind. | 2 keys, 3 events, 1 page load, 3 messages, 2 polls at once |
| `dashboard` | Do recording and interactive replay exclude each other, is every browser still closed by someone, is the running process the one Stop reaches, is every request answered? | 4 requests of any kind, 1 replay request at a time |
| `recorder` | Is each event recorded at most once and the first of its number always, and do the edges follow the steps? | 2 events, 2 documents, 1 control |
| `services` | One question or two of each of nine parts, below. | below |

`services` explores parts that share no state. Its first state picks one of
nine values of `part`; only that part moves, the others rest in a first state.
So it is nine explorations in one run, and a property of one part is checked
in the behaviours of that part. No fairness is assumed and no liveness is
checked there.

| part | properties | bounds |
|---|---|---|
| `LlmRounds` | `NobodyWaitsForNothing`, `AutoRoundsBounded`, `StopIsHonoured` | 2 panels, 2 attempts an answer, 2 automatic rounds, 2 clicks, 4 answers |
| `Orchestrator` | `GivesUpAtTheTop` | 8 rounds, 2 without progress, 3 escalations, tiers 0 to 3 |
| `PanelVersions` | `NoHiddenStep` | 2 panels, 1 version name, 3 ids, 3 messages |
| `BrowserTools` | `DialogsHangOnlyAfterGivingUp` | 2 tabs, a frame in a frame, 2 callers, one of them a replay that can be cancelled, 3 calls, 2 dialogs |
| `StepContext` | `ReuseSeenHere` | 2 steps, 3 addresses of 2 routes, 2 attempts, 2 sessions, 2 changes |
| `ForceFix` | `StrongestWins` | 3 selectors, 2 of each stage, 2 changes |
| `Memory` | `TrustIsEarned`, `NothingDangles` | 2 clients, 4 calls, promoted after 2 validations, retired after 2 failures |
| `LocatorRank` | `UniqueComesFirst` | 3 descriptions, up to 4 elements matched, 1 change |
| `InteractiveReplay` | `ErrorsAreCurrent`, `FixedWhereProbed` | 2 steps and 1 inserted, 1 upload, 2 sessions, 5 requests |

The bounds let the interesting cases happen: a retry after a fallback selector
after an approval; a kill in each of two processes between any two rows; a
third replay started while two cancelled ones unwind; a failure, and two panels
that resume it at once; a replay cancelled while it disarms the page of a
recording; a replay cancelled while a dialog is being answered; a recording
stopped in the middle of a
flush and started again while its first poll unwinds; a Stop during the boot of
an interactive session with a recording that starts meanwhile; the same event
by two ways to two tasks while its step is deleted; two panels whose rounds mix;
two clients whose validations overwrite each other; a session of the runner
that finds the records of an earlier one.

Several properties hold only under a condition, which their comments state:
`ResumeNeverSkips` and `ExecutesAtLeastOnce` within one `agent run`;
`ResumeAtPausedStep` of `RunSession` while no other process adds a row and
nothing is killed; `FinishedStepsNotRepeated` while nothing is killed;
`StepsPassInOrder` while nobody edits the list or uses force-fix; `ElementInOrder`
and `AgentIsNotRecorded` of `PanelCapture` with one panel (with a second one, two
polls can work, a key's events can change places, and starting a recording
during a validation arms the page); its `ActsOnce` with any number of panels, for clicks and keys, not for fills (a stop in the middle of a flush emits a fill again);
`ReplayIsTracked` while replay requests do not overlap; `ErrorsAreCurrent` with
one run at a time; `GivesUpAtTheTop` with a retry budget no smaller than the
escalation threshold. Three others say themselves what the code lets happen:
`CaptureComesBack` counts the levels lost by replays that were cancelled while they
disarmed the page (and says there are none while nobody records);
`AgentIsNotRecorded` of `PanelCapture` exempts the strays, what a page loaded
during a suspension caught and still held at its end; `DialogsHangOnlyAfterGivingUp`
exempts the tabs where a `dialog_handle` gave up. What happens outside these
conditions, and in these exceptions, is listed below.

### Statements of the documentation the program does not keep

| run | statement | what the counterexample shows |
|---|---|---|
| `panel_restart` | docs/03:118, never from step 1 | two panels click Resume: the second restarts at step 1 |
| `recorder_numbers` | plan/…_163c1e12:277, each captured action becomes a step | each document and frame counts from zero, so an action in a second document is dropped as a repetition of one in the first |
| `panel_confidence` | docs/10:22-23, below 0.70 blocks the export | `_build_step` writes 0.9 on every locator and only a step with fallbacks is corrected: a bare path passes the gate |

### Seen while modelling

These follow from one or two lines of code, or are a behaviour the conditions
above exclude, and have no run of their own.

*Runs and resumes.* A process killed in its first run leaves no checkpoint, as
one is written only after the runner returned (`cli/run_cmd.py:171`). The
checkpoint of an earlier execution survives `agent run`; after a kill it is the
one resumed, and steps the new execution never did are skipped
(`cli/run_cmd.py:256`). A row added after `run_paused`, such as
`mode_switched`, makes `_run_graph` take the run for completed; the checkpoint
is then the last step (`cli/run_cmd.py:193-206`, docs/04:42). `load_for_run`
returns the oldest rows, so a pause beyond its limit of 5000 is not seen
(`cli/run_cmd.py:193`), and `agent fix` looks for the latest failure among the
oldest 500 (`cli/fix_cmd.py:124`, 142). Two resumes of one run can overlap: both
act from the same checkpoint and add to one log (`cli/run_cmd.py:256`). A completed run keeps a checkpoint and `resume` repeats its last step
(`cli/run_cmd.py:206`, 250). A resumed run opens a new browser on a blank page
and does not use the checkpoint's session and tab (docs/09:71,
`cli/run_cmd.py:88`).

*Panel replay and recording.* A step inserted before the running one shifts the
list the replay iterates, and a step runs twice (`cli/panel_cmd.py:500`, 522,
560). "Apply & Resume" in edit mode starts at the step it repairs, whatever ran
before (640). When the step a replay stopped at is deleted, Resume runs nothing and
reports `run_completed` (559-588). A replay cancelled while it disarms the page
keeps its level of the suspend depth, and recording stays deaf (557,
2384-2388). A force-fix that ends late names its own step and not the paused
one (docs/03:60). Typing into a field and clicking a button is recorded as
click, then fill: only a fill of the clicked element comes out first (1722). A
page load during a validation arms the new page, and what the agent does there
is recorded if it is still queued when the suspension ends (docs/03:39). Two
elements with the same semantic key share one buffered fill: the second input
replaces the first (`recorder/recorder.py:122`). Events in the page's queue or in the poll's batch when
a recording is stopped are lost (1632).

*Panel lists and versions.* A panel appends an announced step at the end while
the server inserts it behind its predecessor, and a null position means the
beginning for the panel and the end for the server: the order shown is not the
order replayed. A panel may show steps the server no longer has.
`_original_steps` is taken before the first save only, so loading main drops
later steps (docs/03:80). A duplicate shares its metadata dictionary with the
original. The panel never sends `save_version`. Versions lose fallbacks and
descriptor. The native file dialog blocks the server for up to a minute.

*LLM Assist and Build.* Build sets its count of pending attempts back to the
total at each "executing", so after the last failure it waits for good
(`panel/web/panel.html:4195`). Two panels both ask again by themselves. A timer
and a click on Ask can start two rounds. Changing the step in the drop-down
before "Worked" applies the locator to the other step. The history's
`strategy` is the detail of the execution, so `already_tried_fcc`
(`healing/llm_assist.py:640`) is never true.

*Force-fix and locators.* docs/05:50 says the cascade stops at the first
success; it probes the first three stages and picks the strongest. The chosen
locator may no longer match when it is announced. docs/05:29 and the uniqueness
factors 0.68, 0.5 and 0.3 differ; docs/05:16 puts data-testid first, the code
aria-label and role. `nth=0` is stored while the first *visible* element was
probed (`locator/_ported/find.py:90-101`); 25 elements are looked at. Nothing
but smoke scripts calls `evaluate_export_confidence`.

*Recorder.* A file click is recorded by the capture and by the chooser unless
it falls into the 1.5 s window. The panel of a second chooser overwrites the
future of the first. Tasks in flight at `stop` are lost. New documents are
armed whatever `_recording_armed` says. A poll that died of an exception raises it
again when `stop` waits for it: the graph is not written and only the browser
closes (`recorder/recorder.py:2002`, 2033, 2228).

*Dashboard and interactive replay.* Two overlapping replay requests orphan the
first process, and its worker's `finally` clears the fields of the second
(`ui/dashboard.py:260-263`). `handle_replay` checks before it awaits (274-316).
A stop that times out after 90 s leaves a browser nobody names (495). A
`recorder.start` that fails leaves the pointer set (179). A cancelled pick can
still deliver the element that was being built. Edits during a range do not
change it; a stop fails it at its next step. `dashboard.html:909` says the order
of locators follows the match; the code leaves it.

*Tools and context.* The listener of a `dialog_handle` that timed out, or whose
replay was cancelled, stays and takes a later dialog, which nobody then answers;
one cancelled between the dialog and its answer leaves that dialog open
(`execution/tools.py:1542`, `cli/panel_cmd.py:533`). `frame:<id>` is not checked to
belong to the tab. A detached current frame falls back to the main frame. A tab
that closes by itself stays instrumented and selected. A retried `frame_enter`
nests twice. A reload keeps the fingerprint and loses the reference attributes;
`_ref_bindings.clear()` drops the references of other tabs; references restart
at 1. The cache record is saved before the snapshot: when taking it fails midway,
the retry matches its own record and goes on with references to some elements
or none (`execution/runner.py:291`).

*Memory and orchestration.* Two validations at once lose one. Candidates never
retire, `expires_at` is never checked, docs/05:43's forced retirement has no
code. A process killed between truncation and write leaves an empty active
version file. Versions of a compiled entry can decrease. Calls beyond
`max_tool_calls_per_round` are dropped and the round still counts as a success.
docs/02:139 says memory is written while recording; only a smoke script uses
the stores.

### Fairness

`StepRunner`: weak fairness of what the runner does between its waits. No answer
is assumed: not the operator's, not the page's, as neither is limited in time
(`Waiting`). So `RunEnds` says that a run ends or stays at such a wait for good;
the attempt and selector loops are finite. `RunSession`: the same for the process
that was started, whose browser is taken to start, or to fail, and to close; no
command is ever assumed to be typed. `PanelReplay`: weak fairness of each task and
of each connection's handler, which is what the asyncio loop does; an action on
the page is taken to return or to raise, although a script of `js_execute` has no
timeout and need not; clicks and reloads are not fair. `PanelCapture`: the same
for each poll and each handler; the user, the agent's actions and page loads are
not fair. `Dashboard`: weak fairness of each request that was made and of each
worker whose process has ended; the process itself need never end, requests need
never come. A browser is taken to close, or to fail to: the close of a browser
that is not adopted has no limit and holds the lock (`ui/dashboard.py:459`), and a
browser that never answered it would keep every request waiting. The lock hands
over in the order of arrival, as `asyncio.Lock` does. The other modules state no
fairness.

Liveness is checked in `step_runner` (`RunEnds`), `session` (`ProcessEnds`: a
process that was started ends, or waits for good), `panel_two` (`ReplayEnds`),
`capture` (`PendingIsFlushed`) and `dashboard` (`RequestsEnd`).

Deadlock checking is off in every run: a run that ended, an operator without
further commands, panels without further clicks, requests all answered are
ordinary ends.

## 4. What is proved

The proofs are TLAPS's and hold for every value of the constants that the named
assumption of each module admits; the assumptions give the constants their
types and little more. Every safety property a passing run checks is stated by
a theorem here: the run shows it on a small instance, the theorem for graphs,
lists, panels, requests, sessions and calls of any number. The last column says
under which condition, if any: it is either in the property itself, or a
hypothesis of the theorem.

| module | theorem | states | under which condition |
|---|---|---|---|
| `RunSessionProofs` | `TypeCorrect` | `TypeOK` | |
| | `InvariantHolds` | `RunInvariant` | |
| | `SuccessIsEarned` | `SuccessMeansActed` | |
| | `StepsInOrder` | `NoStepAhead` | |
| | `CompletionIsEarned` | `CompletedMeansAllSucceeded` | |
| | `EndIsFinal` | `NothingAfterTheEnd` | |
| | `ApprovalIsRequired` | `ActsOnlyWhenApproved` | |
| | `BudgetIsKept` | `RetryBudget` | |
| | `EffectsAreBounded` | `EffectsBounded` | |
| | `RunnerImplementsContract` | `LogFollowsContract` | |
| | `ResumesSkipNothing` | `ResumeNeverSkips` | one `agent run`, no rows of others, log loaded as a whole |
| | `SessionImplementsAtLeastOnce` | `ExecutesAtLeastOnce` | the same |
| | `FailuresAreResumed` | `ResumeAtFailedStep` | nothing killed, log loaded as a whole |
| | `FinishedStaysFinished` | `FinishedStepsNotRepeated` | the same |
| | `PausesAreResumed` | `ResumeAtPausedStep` | the same, and no rows of others |
| `PanelReplayProofs` | `PanelTyped` | `Typed` | |
| | `OneReplayRuns` | `OneReplay` | |
| | `CaptureIsSuspended` | `AgentIsNotRecorded` | |
| | `CaptureIsBack` | `CaptureComesBack` | |
| | `PassInOrder` | `StepsPassInOrder` | no edit of the list, no force-fix |
| `PanelCaptureProofs` | `CaptureTyped` | `Typed`, `Held` | |
| | `EventsActOnce` | `ActsOnce` | |
| | `OnlyUsersAreRecorded` | `AgentIsNotRecorded` | one panel |
| | `ElementsInOrder` | `ElementInOrder` | one panel |
| `DashboardProofs` | `DashboardTyped` | `Typed` | |
| | `LockExcludes` | `Excludes` | |
| | `SessionsExclude` | `OneSession` | |
| | `BrowsersAreKnown` | `NoLostBrowser` | |
| | `ReplaysAreKnown` | `ReplayIsTracked` | replay requests do not overlap |
| `RecorderProofs` | `RecorderTyped` | `Typed`, `OnTheWay` | |
| | `EdgesAlwaysFollow` | `EdgesFollowSteps` | |
| | `RecordedAtMostOnce` | `RecordedOnce` | |
| | `FirstIsRecorded` | `FirstOfItsNumberIsRecorded` | |
| `EditorProofs` | `AutoRoundsStayBounded` | `AutoRoundsBounded` | |
| | `StopHonoured` | `StopIsHonoured` | |
| | `WaitsEnd` | `NobodyWaitsForNothing` | |
| | `VersionsAreTyped` | `VersionsTyped` | |
| | `PanelsShowTheSteps` | `NoHiddenStep` | |
| | `ErrorsAreOfTheLastRun` | `ErrorsAreCurrent` | one run at a time |
| | `FixesAreProbed` | `FixedWhereProbed` | |
| `ServicesProofs` | `OrchInvariantHolds` | `OrchInv` | |
| | `OrchSuccessIsEarned` | `SuccessIsEarned` | |
| | `OrchGivesUpAtTheTop` | `GivesUpAtTheTop` | the retry budget is no smaller than the escalation threshold |
| | `OrchPathIsComplete` | `PathIsComplete` | |
| | `RankInvariantHolds` | `RankInv` | |
| | `UniqueFirst` | `UniqueComesFirst` | |
| | `RecorderGuessesBlocked` | `GuessesAreBlocked` | |
| | `TrackedAlways` | `Tracked` | |
| | `ClosedTabsStayForgotten` | `ClosedTabsAreForgotten` | |
| | `EnteredFramesAreLive` | `EntersOnlyLiveFrames` | |
| | `DialogsAreAnswered` | `DialogsHangOnlyAfterGivingUp` | |
| | `ReuseIsSeenHere` | `ReuseSeenHere` | |
| | `NothingEverDangles` | `NothingDangles` | |
| | `TrustIsAlwaysEarned` | `TrustIsEarned` | |
| | `BestRepairWins` | `StrongestWins` | |

Where a property is proved and would only repeat another in a run, no run checks
it: `TypeOK`, `RunInvariant`, `NoStepAhead`, `CompletedMeansAllSucceeded`,
`RetryBudget`, `NothingAfterTheEnd`, `SuccessIsEarned`, `PathIsComplete`,
`GuessesAreBlocked`, `ClosedTabsAreForgotten`, `EntersOnlyLiveFrames`. TLC did
agree with each before it was proved. `VersionsTyped`, `Excludes` and the types
of the panel, the capture, the recorder and the dashboard are parts of the
inductive invariants below.

None of the properties is inductive alone. The arguments:

**StepRunner.** That a step's predecessors succeeded says nothing of the loop's
index. `RunInvariant` ties them together: the steps reported as succeeded are
exactly those between the start step and the index, each of them acted, nothing
beyond the index was started, a final event is the last row and the runner is
then over, and a stage carries what was earned on the way to it (`post`: the
step acted; `act`: the attempt was approved). The log only grows by `Emit`, so
two lemmas, one for silent actions and one for events of another kind, leave one
case per action. The two counting properties need invariants over `Times`, the
number of rows of a step: `StartsCounted` (the attempts started so far are
`attempt + 1` once the step is started) and `EffectsCounted`. The refinement
needs `OutcomeRecorded`, that the last row says how the run stands, and maps each
step to `Start`, `Finish`, `Stop`, `Complete` or a stutter.

**RunSession.** One `agent run` (`MaxFresh = 1`), no other process
(`MaxOther = 0`), any number of resumes and kills, any graph; and for logs that
are loaded as a whole (`Len(log) <= EventLimit`), since beyond it the outcome is
read from an old row. `FinishedUpTo(n)`, every step in front of n is finished,
holds of the checkpoint's step, of the step a process is about to resume from
and of the runner's index. The checkpoint inherits it through what the process
reads back, so `EndIsWritten` says that the last rows describe how the runner
ended: `run_paused` names the index, `run_aborted` has the failure of the index
before it, `run_completed` comes past the last step. Finished steps stay
finished since the log only grows (`LogOnlyGrows`), which also carries the
condition on the length from the next state to this one. For the refinement,
`InOrder` says that the finished steps are the first d of the graph for some d.
A process adds at most one row in a step, and one that finishes a step or
reports the end is earned (`RowsAreEarned`): it stands behind finished steps
only. So the frontier moves by one or stays, `run_completed` comes when it is
N, and `run_resumed` reopens the execution: `Finish`, `Report`, `Reopen`, or a
stutter when a finished step is repeated.

The other three theorems are about any number of executions in which nothing
was killed (`Unkilled`). `LastBut(t, tail, i)` says that row i, of type t, is
the last of its execution but for rows of the types in `tail`; so it can speak of
an end although other processes write behind it. `EndIsTold`: a runner that is
over has left its pause, its failure or its completion as such a row.
`FailureIsNext`: a failure that is such a row is where the runner stands, or what
the checkpoint names, or what the process that opens resumes from.
`NothingFinishedAhead`: until the execution is complete, nothing is finished at
or behind that place. A pause is told apart from a completion by the very last
row only, so `PausesAreResumed` needs that nobody else writes (`Alone`); a killed
process writes no checkpoint, which is why all three exclude kills. The log only
grows, so what holds while the log is loaded as a whole can be proved from one
state to the next.

**PanelReplay.** `OneReplay` follows from the types: both handlers that start a
task cancel the tracked one first, in the same step. For the suspension,
`Counted` relates the depth to the number of tasks between suspend and restore
plus the number of handlers that validate plus the levels lost (`lost`); and
without a recording no replay is ever at the await where a level can be lost. The
order of the steps needs a list that stays as it is and no cascade that names a
step, but any number of panels, reloads and recordings. `InPlace` says that the
pass so far is a stretch of the list from `first`, and that a remembered failure
or pause is just behind it (`Reached`); `RunInPlace` does so for the task that is
not cancelled, stage by stage; `CallInPlace` that a handler which awaits has an
override of a step that is in the list. A Resume that finds nothing stopped begins
a pass, any other goes on with the one there is.

**PanelCapture.** That an event is recorded once does not depend on the number
of panels: `Once` says that there is a function `at` which gives each event its
one place (the queue, the batch or the step of one coroutine, the buffered
fills, a position among the steps); inputs, which a stop may emit again, all
count as buffered. The other two need one panel, since then the handler and the
poll take turns (`Solo`: at most one poll is not cancelled, and none while the
handler injects, arms, flushes or disarms). `ArmedForUser`: the page is armed
only while recording or while its recording is being stopped, never while the
agent acts, but for a page loaded meanwhile. `Settled`: an action of the agent that
is still in the queue, in a batch, buffered or recorded is one that the suspension
has yet to throw away, or a stray. `Line`: the steps, the buffered fills, the batch and the
queue follow one another in the order of the page's numbers, element by element
where fills are held back.

**Dashboard.** `Excludes`: those who hold the lock or wait for it are in the
queue, each once, and only its first holds it. Above that, `Sessions` adds what
an interactive session and a recorder have to be while a request is between two
awaits: a session that was adopted has its browser and nobody else is about to
close it (`Adopted`), the recorder that starts is the pointer's (`Recorded`).
`Replays`, when replay requests do not overlap: the three fields name the one
replay whose worker is at work.

**Recorder.** `OnTheWay`: what is queued, sent or held has happened, and a task
that is yet to take what arrived holds nothing. `Once`: an event that is no file
chosen is in the hand of one task, or in one step, or in a deleted one, and
once it is, its number is among those seen. `Placed`: a captured event is on its way or its number is among those
seen, and if no other event has that number it was put in a hand and went from
there into the graph. The edges are those of the list after every append,
deletion and move, whatever the list is.

**StepContext.** Every fingerprint holds the id of the main frame, which no
other session has, so a record that matches what is seen now is of this
session (`SeenNow`), and equal to it; and each record of this session has a
snapshot that was begun, or is about to be, or belongs to a page that is gone
(`RecordsBegun`).

**BrowserTools.** `Tracked` gives the types and says that what is open, and what
calls name, exists. `Closing`: a tab `tabs_close` closed is among the past, which
no page returns from, and the tab of a pending `tabs_close` is open or past.
`Listening`: a listener without a tool is on a tab where a tool gave up, by its
timeout or by the cancellation of its task.

**LlmRounds.** What a panel was asked to start, and the chances it still has
(timers and an offered "Still broken"), are no more than the attempts it heard
of: each chance comes with an attempt, each round uses up a chance. `NextRound`
starts one only while fewer than `MaxAuto` attempts were heard of.
That a panel does not wait in vain is `Awaits`: beside the above, a round that
is being served has attempts left (`Served`), and the attempts a panel still
expects are at most those that some round of Assist is still to make
(`Expects`). A broadcast reaches every panel in one step, so a round that ends
has told all of them.

**PanelVersions.** `Announces`: a step that a panel does not show is in a message
on its way to it, or in a deletion on its way from it. A panel deletes from its
own list at once, and the announcements that follow may bring a deleted step back;
an induction over the messages under way shows what the panel will show when it
has heard them all.

**ForceFix.** What was found is what passed (`FoundPassed`), and `Select` takes
the first of the passes with the greatest score; that there is one is proved by
induction over the list.

**InteractiveReplay.** `History`: a session has a graph while its browser is open
or closes, nothing is known of a session that has not started or of an id nobody
gave out (`Unstarted`, `FreshIsUnused`), and an upload is among the errors of
its session exactly if its last run failed and it is not being run again
(`ErrorsFollow`). `Probes`: a fix that got past the page found a
selector of its step there, in its own session.

**Memory.** `References`: what a client has read and is about to write is among
what is stored, and nothing stored is taken away. `Validations`: the row, and
each row a client has read, was earned by the successes saved so far, whose
number never decreases; so a client that overwrites another's row with an older
one still writes an earned row.

**Orchestrator.** `OrchInv` adds to the types that a review follows a success
only, and that a loop that goes on has escalated as soon as it had to: its
rounds without progress are fewer than the threshold, unless no larger context
is left (`EscalatedInTime`).

**LocatorRank.** `RankInv` says of each candidate at hand, or found usable, what
its confidence can be made of: which pass probed it, what it matched and where
that came from. The two theorems then compare the products of the weights, which
are integers in 1/10000.

Two tools recur. A list of any length is reasoned about by the least-number
principle: a statement that fails for some length fails for a least one. The
recursive definitions are functions inside a LET, so the prover can unfold them
once (`ListFacts`: `LeastNat`, what `Keep` keeps, what insertion adds). And an
invariant is stated over parts of the state which few actions touch, with one
lemma for all actions that leave them alone.

Only model-checked are the liveness properties, which are beyond the prover
(it has neither fairness nor ENABLED): `RunEnds`, `ProcessEnds`, `ReplayEnds`,
`PendingIsFlushed`, `RequestsEnd`. The runs that end in a violation are
counterexamples and need no proof.

## 5. What is not modelled

- The JSONL copy of the event log, and writes that fail. A saved row is durable.
- Two processes of one run at the same time, which nothing in the code prevents.
- The tracing that a cancelled `take_trace` leaves started.
- What a precondition, a tool, a selector or a page *is*: only whether it
  succeeds, raises, or matches.
- `agent fix --step-id` and its validation browser; load and save of the graph
  in `resume` as two actions, which would need the database's locking.
- Pick mode, uploads and settings of the panel: one request and one assignment
  each. The upload fix of the panel (`healing/upload_fix.py`) is not reachable,
  as the functions of `panel.html` that would call it (2042, 3029) are not
  defined.
- Tabs opened while the panel records; pop-ups of the recorder.
- The classifier's words and the URL rules of `policy/`: `HardSteps` is their
  verdict.
- Prompts, parsing of answers and providers of language models.
- Code generation (`export/_ported/codegen.py`), telemetry, reports,
  benchmarks, storage engine, configuration, human test sessions, smoke
  scripts: text, aggregation and I/O on what is already decided.
- Tracing, screenshots, and the reading of console and network lists.

Two abstractions that cross modules: the panel modules each have their own step
list, and `StepRunner` takes the context of a step as one outcome although
`StepContext` has its detail.

## 6. What could come next

1. `PanelCapture` with tabs opened while recording, composed with the step list
   and the suspend depth of `PanelReplay`, and refined to a list of steps in
   order.
2. `StepContext` in place of `Prepare` of `StepRunner`; a failing event sink in
   place of `Emit`.
3. `RunSession`: load and save of the graph in `resume` as two actions, with a
   property on fixes.
4. Proofs: `CaptureComesBack` with recordings, by counting the levels they take;
   `ElementInOrder` with two panels for the events of one poll; the contract of a
   whole dashboard (one browser, given back) as an abstract specification that
   `Dashboard` refines.
