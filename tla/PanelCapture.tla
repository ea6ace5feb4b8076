---------------------------- MODULE PanelCapture ----------------------------
(***************************************************************************)
(* Auto-recording of the panel: the capture script in the page (recorder/  *)
(* recorder.py) queues what happens there, a polling coroutine of          *)
(* cli/panel_cmd.py drains the queue and turns events into steps, and the  *)
(* handlers that start, stop and suspend capturing run beside it.          *)
(*                                                                         *)
(* A coroutine is where it awaits: the page, the locator engine that ranks *)
(* candidates for a step, or the panels that are told of one.  It always   *)
(* finds a locator.  An event names its element by the script's semantic   *)
(* key, the tag with a test id, id, name or text (recorder.py:122-124);    *)
(* elements that agree in these share one key.  Keyboard keys other than   *)
(* the five that are recorded are left out.  One page: tabs opened during  *)
(* a recording are not modelled.                                           *)
(***************************************************************************)
EXTENDS Naturals, Sequences, SequencesExt, FiniteSets

CONSTANTS
    Keys,         \* semantic keys of the elements of the page
    Panels,       \* connected panels, one message at a time each
    Polls,        \* bound: polling coroutines that exist at the same time
    NoPoll,
    NoKey,
    MaxActs,      \* bound: clicks, inputs and keys on the page
    MaxLoads,     \* bound: page loads
    MaxCalls      \* bound: messages of the panels

ASSUME CaptureAssumption ==
    /\ NoPoll \notin Polls
    /\ NoKey \notin Keys
    /\ Panels \cap Polls = {}
    /\ MaxActs \in Nat /\ MaxLoads \in Nat /\ MaxCalls \in Nat

VARIABLES
    installed,    \* the capture script is in the page and in every later one
    armed,        \* window.__agentRecorderArmed
    queue,        \* window.__agentRecorderQueue
    injected,     \* self._recorder_injected
    recording,    \* self._recording_active
    pollTask,     \* self._record_poll_task
    pending,      \* self._pending_fills: the last input for each key
    lastClick,    \* self._last_click_key
    depth,        \* self._capture_suspend_depth
    co,           \* the coroutines: polls and message handlers
    steps,        \* the steps that were recorded, as the events they stand for
    used,         \* how much of each bound is used up
    reloaded,     \* observed: a page was loaded, and nobody disarmed it yet
    strays        \* observed: what such a page caught of the agent's actions, when
                  \* the suspension ended

pageVars == <<installed, armed, queue>>
stateVars == <<injected, recording, pollTask, pending, lastClick, depth>>
seen == <<reloaded, strays>>
vars == <<pageVars, stateVars, co, steps, used, seen>>

Kinds == {"click", "input", "press"}
EventRecord == [id : 1..MaxActs, kind : Kinds, key : Keys,
                by : {"user", "agent"}]
NoEvent == [id |-> 0]

\* batch: drained events not yet processed.  fills: copied from pending, not
\* yet emitted.  step: being ranked.  after: where to go on then.
Over == [pc |-> "idle", batch |-> <<>>, fills |-> <<>>, step |-> NoEvent,
         after |-> "idle", cancelled |-> FALSE]

Init ==
    /\ installed = FALSE /\ armed = FALSE /\ queue = <<>>
    /\ injected = FALSE /\ recording = FALSE
    /\ pollTask = NoPoll
    /\ pending = <<>>
    /\ lastClick = NoKey
    /\ depth = 0
    /\ co = [w \in Panels \cup Polls |-> Over]
    /\ steps = <<>>
    /\ used = [acts |-> 0, loads |-> 0, calls |-> 0]
    /\ reloaded = FALSE /\ strays = {}

Goes(w, pc) == co' = [co EXCEPT ![w].pc = pc]

Called(p) ==
    /\ co[p].pc = "idle"
    /\ used.calls < MaxCalls
    /\ used' = [used EXCEPT !.calls = @ + 1]

-----------------------------------------------------------------------------
(***************************************************************************)
(* The page.                                                               *)
(***************************************************************************)
\* The listeners of the script.  What happens on a page that is not armed
\* leaves no trace.
Act(by) ==
    /\ installed /\ armed
    /\ used.acts < MaxActs
    /\ used' = [used EXCEPT !.acts = @ + 1]
    /\ \E kind \in Kinds, k \in Keys :
         queue' = Append(queue, [id |-> used'.acts, kind |-> kind,
                                 key |-> k, by |-> by])
    /\ UNCHANGED <<installed, armed, stateVars, co, steps, seen>>

UserActs == Act("user")

AgentActs(p) == co[p].pc = "acting" /\ Act("agent")

\* A page load runs the capture script anew: an empty queue, armed.
Load ==
    /\ used.loads < MaxLoads
    /\ used' = [used EXCEPT !.loads = @ + 1]
    /\ queue' = <<>>
    /\ armed' = installed
    /\ reloaded' = TRUE
    /\ UNCHANGED <<installed, stateVars, co, steps, strays>>

-----------------------------------------------------------------------------
(***************************************************************************)
(* Emitting steps: _emit_step_from_target and _flush_pending_fills.        *)
(***************************************************************************)
\* The coroutine awaits the ranking of locators for one step.
Emitting(c, step, after) ==
    [c EXCEPT !.pc = "ranking", !.step = step, !.after = after]

\* The step is appended; then the panels are told.
Ranked(w) ==
    /\ co[w].pc = "ranking" /\ ~co[w].cancelled
    /\ steps' = Append(steps, co[w].step)
    /\ co' = [co EXCEPT ![w].pc = co[w].after, ![w].step = NoEvent]
    /\ UNCHANGED <<pageVars, stateVars, used, seen>>

\* The fills are copied; pending is cleared when all of them are emitted.
Flushing(c, fills) ==
    Emitting([c EXCEPT !.fills = Tail(fills)], Head(fills), "flushing")

\* Head of the polling loop.
Again(c) == IF recording THEN [c EXCEPT !.pc = "sleeping"] ELSE Over

FlushMore(w) ==
    /\ co[w].pc = "flushing" /\ ~co[w].cancelled
    /\ co[w].fills # <<>>
    /\ co' = [co EXCEPT ![w] = Flushing(@, @.fills)]
    /\ UNCHANGED <<pageVars, stateVars, steps, used, seen>>

Flushed(w) ==
    /\ co[w].pc = "flushing" /\ ~co[w].cancelled
    /\ co[w].fills = <<>>
    /\ pending' = <<>>
    /\ IF w \in Polls
         THEN co' = [co EXCEPT ![w] = Again(@)] /\ lastClick' = NoKey
         ELSE Goes(w, "disarming") /\ UNCHANGED lastClick
    /\ UNCHANGED <<pageVars, injected, recording, pollTask, depth, steps, used,
                   seen>>

-----------------------------------------------------------------------------
(***************************************************************************)
(* The poll: _auto_record_poll and _process_capture_event.                 *)
(***************************************************************************)
Begin(q) ==
    /\ co[q].pc = "created" /\ ~co[q].cancelled
    /\ co' = [co EXCEPT ![q] = Again(@)]
    /\ UNCHANGED <<pageVars, stateVars, steps, used, seen>>

\* Bug variant of Drain: the queue is read and not emptied.
Peek(q) ==
    /\ co[q].pc = "sleeping" /\ ~co[q].cancelled
    /\ co' = [co EXCEPT ![q].pc = "taking", ![q].batch = queue]
    /\ UNCHANGED <<pageVars, stateVars, steps, used, seen>>

\* The page empties its queue; its answer is on the way.
Drain(q) ==
    /\ co[q].pc = "sleeping" /\ ~co[q].cancelled
    /\ co' = [co EXCEPT ![q].pc = "taking", ![q].batch = queue]
    /\ queue' = <<>>
    /\ UNCHANGED <<installed, armed, stateVars, steps, used, seen>>

\* A navigation takes the page away before it answers: the events are lost
\* and the poll goes on with its next turn.
DrainRaises(q) ==
    /\ co[q].pc = "sleeping" /\ ~co[q].cancelled
    /\ queue # <<>>
    /\ queue' = <<>>
    /\ co' = [co EXCEPT ![q] = Again(@)]
    /\ UNCHANGED <<installed, armed, stateVars, steps, used, seen>>

\* The buffered input of an element, found by its key.
HasFill(fills, e) == \E i \in DOMAIN fills : fills[i].key = e
PlaceOf(fills, e) == CHOOSE i \in DOMAIN fills : fills[i].key = e

\* Assigning a key of a dictionary that has it keeps its place.
Put(fills, x) ==
    IF HasFill(fills, x.key) THEN [fills EXCEPT ![PlaceOf(fills, x.key)] = x]
    ELSE Append(fills, x)

\* The inputs among the first n events are buffered.
Buffered(fills, events, n) ==
    LET after[i \in 0..n] ==
            IF i = 0 THEN fills
            ELSE IF events[i].kind = "input" THEN Put(after[i - 1], events[i])
            ELSE after[i - 1]
    IN  after[n]

\* Event i of a batch is dealt with without an await: an input is buffered, a
\* second click on the same element is skipped if no fill comes before it.
IsQuiet(batch, i) ==
    \/ batch[i].kind = "input"
    \/ /\ batch[i].kind = "click" /\ batch[i].key = lastClick
       /\ ~HasFill(Buffered(pending, batch, i - 1), batch[i].key)

\* How many events are dealt with before the next await.  All, if capturing
\* is suspended.
QuietPrefix(batch) ==
    IF depth > 0 THEN Len(batch)
    ELSE CHOOSE n \in 0..Len(batch) :
            /\ \A i \in 1..n : IsQuiet(batch, i)
            /\ n = Len(batch) \/ ~IsQuiet(batch, n + 1)

Remaining(batch) == SubSeq(batch, QuietPrefix(batch) + 1, Len(batch))
Fills(batch) == IF depth > 0 THEN pending
                ELSE Buffered(pending, batch, QuietPrefix(batch))

\* The event itself, once a fill of its element is out of the way.
EmitOwn(c, x) == Emitting([c EXCEPT !.batch = Tail(@)], x, "taking")

\* The batch is through: what is buffered is flushed.
BatchEnds(q, rest, fills) ==
    /\ rest = <<>>
    /\ pending' = fills
    /\ LET c == [co[q] EXCEPT !.batch = <<>>] IN
         co' = [co EXCEPT ![q] = IF fills = <<>> THEN Again(c)
                                 ELSE Flushing(c, fills)]
    /\ lastClick' = IF fills = <<>> THEN NoKey ELSE lastClick

\* A fill of the element comes before the click or key on it.
FillComesFirst(q, rest, fills) ==
    /\ rest # <<>> /\ HasFill(fills, rest[1].key)
    /\ LET i == PlaceOf(fills, rest[1].key) IN
         /\ pending' = RemoveAt(fills, i)
         /\ co' = [co EXCEPT
                     ![q] = Emitting([@ EXCEPT !.batch = rest], fills[i], "own")]
    /\ UNCHANGED lastClick

EventComesOut(q, rest, fills) ==
    /\ rest # <<>>
    /\ pending' = fills
    /\ co' = [co EXCEPT ![q] = EmitOwn([@ EXCEPT !.batch = rest], rest[1])]
    /\ lastClick' = IF rest[1].kind = "click" THEN rest[1].key ELSE NoKey

\* Bug variant of Process: the fill of a clicked element is not looked at.
ProcessInPlace(q) ==
    /\ co[q].pc = "taking" /\ ~co[q].cancelled
    /\ LET rest == Remaining(co[q].batch)  fills == Fills(co[q].batch) IN
         BatchEnds(q, rest, fills) \/ EventComesOut(q, rest, fills)
    /\ UNCHANGED <<pageVars, injected, recording, pollTask, depth, steps, used,
                   seen>>

\* The answer is here, or the panels were told of the last step: go on up to
\* the next await.
Process(q) ==
    /\ co[q].pc = "taking" /\ ~co[q].cancelled
    /\ LET rest == Remaining(co[q].batch)  fills == Fills(co[q].batch) IN
         \/ BatchEnds(q, rest, fills)
         \/ FillComesFirst(q, rest, fills)
         \/ /\ ~(rest # <<>> /\ HasFill(fills, rest[1].key))
            /\ EventComesOut(q, rest, fills)
    /\ UNCHANGED <<pageVars, injected, recording, pollTask, depth, steps, used,
                   seen>>

\* The fill that came first is out: the click or key itself.
ProcessOwn(q) ==
    /\ co[q].pc = "own" /\ ~co[q].cancelled
    /\ LET x == Head(co[q].batch) IN
         IF x.kind = "click" /\ x.key = lastClick
           THEN /\ co' = [co EXCEPT ![q].pc = "taking", ![q].batch = Tail(@)]
                /\ UNCHANGED lastClick
           ELSE /\ co' = [co EXCEPT ![q] = EmitOwn(@, x)]
                /\ lastClick' = IF x.kind = "click" THEN x.key ELSE NoKey
    /\ UNCHANGED <<pageVars, injected, recording, pollTask, pending, depth,
                   steps, used, seen>>

\* CancelledError at the await; what was drained is gone.
Unwind(q) ==
    /\ co[q].cancelled
    /\ co' = [co EXCEPT ![q] = Over]
    /\ UNCHANGED <<pageVars, stateVars, steps, used, seen>>

PollStep(q) ==
    \/ Begin(q) \/ Drain(q) \/ DrainRaises(q) \/ Process(q) \/ ProcessOwn(q)
    \/ Ranked(q) \/ FlushMore(q) \/ Flushed(q) \/ Unwind(q)

-----------------------------------------------------------------------------
(***************************************************************************)
(* The message handlers.                                                   *)
(***************************************************************************)
\* handle_start_recording returns at once if a recording is going on.
Start(p) ==
    /\ ~recording
    /\ Called(p)
    /\ recording' = TRUE
    /\ injected' = TRUE
    /\ Goes(p, IF injected THEN "arming" ELSE "injecting")
    /\ UNCHANGED <<pageVars, pollTask, pending, lastClick, depth, steps, seen>>

Inject(p) ==
    /\ co[p].pc = "injecting"
    /\ installed' = TRUE
    /\ armed' = TRUE
    /\ queue' = <<>>
    /\ Goes(p, "arming")
    /\ UNCHANGED <<stateVars, steps, used, seen>>

\* Armed, and a new poll: also if the recording was stopped meanwhile.
Arm(p) ==
    /\ co[p].pc = "arming"
    /\ armed' = TRUE
    /\ \E q \in Polls :
        /\ co[q] = Over
        /\ pollTask' = q
        /\ co' = [co EXCEPT ![q].pc = "created", ![p] = Over]
    /\ UNCHANGED <<installed, queue, injected, recording, pending, lastClick,
                   depth, steps, used, seen>>

Cancelled == IF pollTask = NoPoll \/ co[pollTask] = Over THEN co
             ELSE [co EXCEPT ![pollTask].cancelled = TRUE]

StopWithoutFlush(p) ==
    /\ Called(p)
    /\ recording' = FALSE
    /\ pollTask' = NoPoll
    /\ co' = [Cancelled EXCEPT ![p].pc = "disarming"]
    /\ UNCHANGED <<pageVars, injected, pending, lastClick, depth, steps, seen>>

\* handle_stop_recording: the poll is cancelled, not waited for.  It does not
\* ask whether a recording is going on.
Stop(p) ==
    /\ Called(p)
    /\ recording' = FALSE
    /\ pollTask' = NoPoll
    /\ co' = [Cancelled EXCEPT
                ![p] = IF pending = <<>> THEN [@ EXCEPT !.pc = "disarming"]
                       ELSE Flushing(@, pending)]
    /\ UNCHANGED <<pageVars, injected, pending, lastClick, depth, steps, seen>>

Disarm(p) ==
    /\ co[p].pc = "disarming"
    /\ armed' = FALSE
    /\ reloaded' = FALSE
    /\ co' = [co EXCEPT ![p] = Over]
    /\ UNCHANGED <<installed, queue, stateVars, steps, used, strays>>

\* _suspend_auto_capture.  The agent acts for a handler: the validation of a
\* step.  A replay is PanelReplay's matter; its button stops the recording.
Suspend(p) ==
    /\ Called(p)
    /\ depth' = depth + 1
    /\ IF depth = 0
         THEN pending' = <<>> /\ lastClick' = NoKey
         ELSE UNCHANGED <<pending, lastClick>>
    /\ Goes(p, IF depth = 0 /\ recording THEN "suspending" ELSE "acting")
    /\ UNCHANGED <<pageVars, injected, recording, pollTask, steps, seen>>

\* Bug variant of Suspended: the page stays armed.
SuspendedArmed(p) ==
    /\ co[p].pc = "suspending"
    /\ Goes(p, "acting")
    /\ UNCHANGED <<pageVars, stateVars, steps, used, seen>>

Suspended(p) ==
    /\ co[p].pc = "suspending"
    /\ armed' = FALSE
    /\ reloaded' = FALSE
    /\ Goes(p, "acting")
    /\ UNCHANGED <<installed, queue, stateVars, steps, used, strays>>

\* The agent's actions that were captured and are not dealt with yet.
Caught ==
    LET waiting == ToSet(queue) \cup UNION {ToSet(co[w].batch) : w \in Polls} IN
    {x.id : x \in {x \in waiting : x.by = "agent"}}

\* _resume_auto_capture
Resume(p) ==
    /\ co[p].pc = "acting"
    /\ depth' = IF depth > 0 THEN depth - 1 ELSE depth
    /\ strays' = IF depth' = 0 /\ reloaded THEN strays \cup Caught ELSE strays
    /\ Goes(p, IF depth' = 0 /\ recording THEN "restoring" ELSE "idle")
    /\ UNCHANGED <<pageVars, injected, recording, pollTask, pending, lastClick,
                   steps, used, reloaded>>

Restore(p) ==
    /\ co[p].pc = "restoring"
    /\ queue' = <<>>
    /\ armed' = TRUE
    /\ Goes(p, "idle")
    /\ UNCHANGED <<installed, stateVars, steps, used, seen>>

HandlerStep(p) ==
    \/ Inject(p) \/ Arm(p) \/ Disarm(p) \/ Suspended(p) \/ Resume(p)
    \/ Restore(p) \/ Ranked(p) \/ FlushMore(p) \/ Flushed(p)

Next ==
    \/ UserActs \/ Load
    \/ \E q \in Polls : PollStep(q)
    \/ \E p \in Panels :
          Start(p) \/ Stop(p) \/ Suspend(p) \/ AgentActs(p) \/ HandlerStep(p)

Spec == Init /\ [][Next]_vars

\* The event loop runs whatever is ready; the page and the locator engine are
\* taken to answer, and an action of the agent to return or to raise.
FairSpec ==
    /\ Spec
    /\ \A q \in Polls : WF_vars(PollStep(q))
    /\ \A p \in Panels : WF_vars(HandlerStep(p))

-----------------------------------------------------------------------------
(***************************************************************************)
(* Properties.                                                             *)
(***************************************************************************)
\* A click or key becomes at most one step, also if the recording is stopped
\* in the middle of a batch (panel_cmd.py:1687-1695).
ActsOnce ==
    \A i, j \in DOMAIN steps :
        steps[i].id = steps[j].id /\ steps[i].kind # "input" => i = j

\* What was done to elements of one key, hence what was done to one element, is
\* recorded in the order in which it was done, across batches, buffered fills
\* and a stop in the middle of a flush (panel_cmd.py:1715-1751).  It needs one
\* panel.
ElementInOrder ==
    \A i, j \in DOMAIN steps :
        i < j /\ steps[i].key = steps[j].key => steps[i].id <= steps[j].id

\* What the agent does on the page is not recorded, also if it happens while a
\* drained batch is on its way (panel_cmd.py:1708, 2379-2403).  The exceptions
\* are the strays: a page loaded during the suspension arms itself, and what it
\* caught is recorded if the poll takes it before the resume throws the queue
\* away.  An action caught and dropped during the suspension never comes back,
\* and without such a load none is caught.  It needs one panel.
AgentIsNotRecorded ==
    \A i \in DOMAIN steps : steps[i].by = "agent" => steps[i].id \in strays

\* A buffered fill does not stay behind: it is recorded, or dropped when
\* capturing is suspended (panel_cmd.py:1630-1634, 1698).
PendingIsFlushed == pending # <<>> ~> pending = <<>>

=============================================================================
