------------------------------ MODULE Recorder ------------------------------
(***************************************************************************)
(* recorder/recorder.py: what the user does in the page becomes a step     *)
(* graph.  The page script numbers each event, queues it, and also sends   *)
(* it through a binding.  The poll drains the queue; the poll, each        *)
(* binding call and stop() take what has arrived and build a locator for   *)
(* each event before they append its step, so they interleave.  A click on *)
(* a file input also raises a file chooser, which is a task of its own.    *)
(* The operator mode and the wording of intents are left out.              *)
(***************************************************************************)
EXTENDS Naturals, Sequences, FiniteSets, SequencesExt

CONSTANTS MaxEvents, MaxDocs, MaxControls,  \* bounds of a behaviour
          Kinds,       \* what the user does: a subset of {"click", "fill", "file"}
          Elements, ArmedStart, None

ASSUME RecorderAssumption ==
    /\ {MaxEvents, MaxDocs, MaxControls} \subseteq Nat /\ MaxDocs > 0 /\ ArmedStart \in BOOLEAN
    /\ Kinds \subseteq {"click", "fill", "file"}

Events == 1..MaxEvents
Docs == 1..MaxDocs
Poll == 0
Stopping == MaxEvents + 1
Drainers == {Poll, Stopping}
Tasks == Drainers \cup Events           \* an event: the task of its binding call

VARIABLES main, frame, loaded,  \* the documents of page and of a child frame (0: none); how many were loaded
          counter, pageArmed,   \* __agentRecorderSeq and __agentRecorderArmed of each document
          events,    \* what happened: its document, number, kind and element
          queue,     \* __agentRecorderQueue of the main document
          calls,     \* binding calls under way to Python
          armed, controls, pending,  \* _recording_armed, how many controls came, _pending_upload_paths
          seen,                 \* _seen_sequences
          at, answer,           \* where poll and stop are, and what the page answered them
          hand, taken,          \* the events a task has still to build; the paths it resolved for the first
          chooser, panel, skip, \* file choosers, whose panel is shown, the 1.5 s window after one
          steps, edges, made,   \* the graph, and how many step ids were made
          gone,                 \* the events whose steps were deleted
          artifact              \* stepgraph.json

page == <<main, frame, loaded, counter, pageArmed, events, queue>>
graph == <<steps, edges, made, gone, artifact>>
choosers == <<chooser, panel, skip>>
vars == <<page, calls, armed, controls, pending, seen, at, answer, hand, taken, choosers, graph>>

NoChooser == [at |-> "none", paths |-> 0]

Init ==
    /\ main = 1 /\ frame = 0 /\ loaded = 1
    /\ counter = [d \in Docs |-> 0]
    /\ pageArmed = [d \in Docs |-> IF d = 1 THEN ArmedStart ELSE TRUE]
    /\ events = <<>> /\ queue = <<>> /\ calls = {}
    /\ armed = ArmedStart /\ controls = 0 /\ pending = 0
    /\ seen = {}
    /\ at = [d \in Drainers |-> IF d = Poll THEN "sleep" ELSE "none"] /\ answer = [d \in Drainers |-> {}]
    /\ hand = [t \in Tasks |-> <<>>] /\ taken = [t \in Tasks |-> 0]
    /\ chooser = [e \in Events |-> NoChooser] /\ panel = 0 /\ skip = FALSE
    /\ steps = <<>> /\ edges = {} /\ made = 0 /\ gone = {} /\ artifact = None

Open == at[Stopping] # "closed"

-----------------------------------------------------------------------------
(* The page. *)

\* Every document starts with number 0, an empty queue, and armed.
Load(d) == loaded < MaxDocs /\ loaded' = d /\ d = loaded + 1

Navigate ==
    /\ Open /\ Load(loaded + 1) /\ main' = loaded + 1 /\ frame' = 0 /\ queue' = <<>>
    /\ UNCHANGED <<counter, pageArmed, events, calls, armed, controls, pending, seen, at, answer, hand, taken, choosers, graph>>

OpenFrame ==
    /\ Open /\ Load(loaded + 1) /\ frame = 0 /\ frame' = loaded + 1
    /\ UNCHANGED <<main, counter, pageArmed, events, queue, calls, armed, controls, pending, seen, at, answer, hand, taken, choosers, graph>>

\* emitCapture: into the document's queue, of which only the main one is drained,
\* and through the binding.  A file input raises a file chooser as well.
Act(d, kind, el) ==
    LET e == Len(events) + 1 IN
    /\ Open /\ d \in {main, frame} \ {0} /\ e \in Events
    /\ pageArmed[d] \/ kind = "file"
    /\ counter' = [counter EXCEPT ![d] = IF pageArmed[d] THEN @ + 1 ELSE @]
    /\ events' = Append(events, [doc |-> d, seq |-> counter'[d], kind |-> kind, el |-> el])
    /\ queue' = IF d = main /\ pageArmed[d] THEN Append(queue, e) ELSE queue
    /\ calls' = IF pageArmed[d] THEN calls \cup {e} ELSE calls
    /\ chooser' = [chooser EXCEPT ![e].at = IF kind = "file" THEN "raised" ELSE @]
    /\ UNCHANGED <<main, frame, loaded, pageArmed, armed, controls, pending, seen, at, answer, hand, taken, panel, skip, graph>>

-----------------------------------------------------------------------------
(* The graph. *)

StepIds == {steps[i].id : i \in DOMAIN steps}
Linear(list) == {<<list[i].id, list[i + 1].id>> : i \in 1..(Len(list) - 1)}
Sources(list) == UNION {list[i].from : i \in DOMAIN list}

NewStep(kind, el, from, paths) == [id |-> made + 1, kind |-> kind, el |-> el, from |-> from, paths |-> paths]

\* _append_step: one edge from the step before.
Appended(s) ==
    /\ steps' = Append(steps, s) /\ made' = s.id
    /\ edges' = edges \cup {<<steps[i].id, s.id>> : i \in {Len(steps)} \ {0}}

\* A fill goes into the last step if that fills the same element.
Coalesces(s) == steps # <<>> /\ s.kind = "fill" /\ Last(steps).kind = "fill" /\ Last(steps).el = s.el /\ s.el # "none"

Record(s) ==
    IF Coalesces(s) THEN /\ steps' = [steps EXCEPT ![Len(steps)].from = @ \cup s.from]
                         /\ UNCHANGED <<edges, made>>
    ELSE Appended(s)

-----------------------------------------------------------------------------
(* Arriving events. *)

\* What is seen is known by its number alone.
New(list) == {e \in list : events[e].seq \notin seen}

\* sorted(new_sequences); of the same number, in the order they came.
Before(e, f) == events[e].seq < events[f].seq \/ (events[e].seq = events[f].seq /\ e < f)

InOrder(set) ==
    CHOOSE list \in [1..Cardinality(set) -> set] :
        Range(list) = set /\ \A i, j \in DOMAIN list : i < j => Before(list[i], list[j])

\* Whatever comes within the window is skipped.
ConsideredNone(list) == IF skip THEN <<>> ELSE list

\* No upload is recorded from a capture for 1.5 s after its chooser recorded it.
Considered(list) ==
    IF ~skip THEN list
    ELSE LET kept == {i \in DOMAIN list : events[list[i]].kind # "file"} IN
         IF kept = {} THEN <<>> ELSE SubSeq(list, CHOOSE i \in kept : \A j \in kept : i <= j, Len(list))

\* Nothing is awaited between the ingestion and the processing, so the task takes
\* what it brought: _captures_by_seq is empty before and after.
IngestAll(t, list) ==
    /\ seen' = seen \cup {events[e].seq : e \in list}
    /\ hand' = [hand EXCEPT ![t] = Considered(InOrder(list))]

\* Without looking at what was seen.
ReceiveAgain(e) ==
    /\ Open /\ e \in calls /\ calls' = calls \ {e} /\ IngestAll(e, {e})
    /\ UNCHANGED <<page, armed, controls, pending, at, answer, taken, choosers, graph>>

\* _on_capture_binding
Receive(e) ==
    /\ Open /\ e \in calls /\ calls' = calls \ {e} /\ IngestAll(e, New({e}))
    /\ UNCHANGED <<page, armed, controls, pending, at, answer, taken, choosers, graph>>

\* _flush_inpage_queue: the page hands over its queue; the answer may be lost.
Drain(d) ==
    /\ at[d] = IF d = Poll THEN "sleep" ELSE "asked"
    /\ queue' = <<>>
    /\ \E got \in {Range(queue), {}} : answer' = [answer EXCEPT ![d] = got]
    /\ at' = [at EXCEPT ![d] = "answered"]
    /\ UNCHANGED <<main, frame, loaded, counter, pageArmed, events, calls, armed, controls, pending, seen, hand, taken, choosers, graph>>

Flushed(d) ==
    /\ at[d] = "answered" /\ at' = [at EXCEPT ![d] = "work"]
    /\ answer' = [answer EXCEPT ![d] = {}] /\ IngestAll(d, New(answer[d]))
    /\ UNCHANGED <<page, calls, armed, controls, pending, taken, choosers, graph>>

\* The poll sleeps again.
PollDone ==
    /\ at[Poll] = "work" /\ hand[Poll] = <<>> /\ at' = [at EXCEPT ![Poll] = "sleep"]
    /\ UNCHANGED <<page, calls, armed, controls, pending, seen, answer, hand, taken, choosers, graph>>

-----------------------------------------------------------------------------
(* Building the locator of the first event in hand, then its step. *)

Next1(t) == hand' = [hand EXCEPT ![t] = Considered(Tail(@))]
Head1(t) == events[Head(hand[t])]

\* A click or fill gets a step even if its locator failed: one without target.
Built(t) ==
    /\ hand[t] # <<>> /\ Head1(t).kind \in {"click", "fill"}
    /\ \E el \in {Head1(t).el, "none"} : Record(NewStep(Head1(t).kind, el, {Head(hand[t])}, 0))
    /\ Next1(t)
    /\ UNCHANGED <<page, calls, armed, controls, pending, seen, at, answer, taken, choosers, gone, artifact>>

\* A picked element whose locator failed has no step.
PickBuilt(t) ==
    /\ hand[t] # <<>> /\ Head1(t).kind = "pick" /\ Next1(t)
    /\ Appended(NewStep("pick", Head1(t).el, {Head(hand[t])}, 0)) \/ UNCHANGED <<steps, edges, made>>
    /\ UNCHANGED <<page, calls, armed, controls, pending, seen, at, answer, taken, choosers, gone, artifact>>

Upload(t, paths) == Appended(NewStep("upload", Head1(t).el, {Head(hand[t])}, paths))

\* With paths the files are set in the page first; without, a placeholder is
\* recorded; without a locator, nothing.
UploadBuilt(t) ==
    /\ hand[t] # <<>> /\ Head1(t).kind = "file" /\ taken[t] = 0
    /\ \/ pending = 0 /\ Upload(t, 0) /\ Next1(t) /\ UNCHANGED <<taken, pending>>
       \/ pending # 0 /\ taken' = [taken EXCEPT ![t] = pending] /\ pending' = 0 /\ UNCHANGED <<hand, graph>>
       \/ Next1(t) /\ UNCHANGED <<taken, pending, graph>>
    /\ UNCHANGED <<page, calls, armed, controls, seen, at, answer, choosers, gone, artifact>>

Uploaded(t) ==
    /\ taken[t] # 0 /\ Upload(t, taken[t]) /\ Next1(t) /\ taken' = [taken EXCEPT ![t] = 0]
    /\ UNCHANGED <<page, calls, armed, controls, pending, seen, at, answer, choosers, gone, artifact>>

\* Building raises: the refresh of the HUD after an append, say.  What the task had
\* in hand is lost; the poll never runs again, and stop() only closes the browser.
\* A binding call has one event, and is over after it anyway.
Dies(d) ==
    /\ at[d] = "work" /\ at' = [at EXCEPT ![d] = IF d = Poll THEN "dead" ELSE "ended"]
    /\ hand' = [hand EXCEPT ![d] = <<>>] /\ taken' = [taken EXCEPT ![d] = 0]
    /\ UNCHANGED <<page, calls, armed, controls, pending, seen, answer, choosers, graph>>

-----------------------------------------------------------------------------
(* The file chooser.  Paths come from those pending, from a file given at  *)
(* the start, or from a panel in the page; disarmed, it is only dismissed. *)

Chooser(e, place) == chooser' = [chooser EXCEPT ![e].at = place]

ChooserHandled(e) ==
    /\ chooser[e].at = "raised"
    /\ \/ (at[Stopping] # "none" \/ ~armed) /\ Chooser(e, "none") /\ UNCHANGED <<pending, panel>>
       \/ /\ at[Stopping] = "none" /\ armed /\ pending # 0 /\ pending' = 0
          /\ chooser' = [chooser EXCEPT ![e] = [at |-> "set", paths |-> pending]] /\ UNCHANGED panel
       \/ /\ at[Stopping] = "none" /\ armed /\ pending = 0 /\ UNCHANGED pending
          /\ \/ Chooser(e, "set") /\ UNCHANGED panel
             \/ Chooser(e, "panel") /\ panel' = e
    /\ UNCHANGED <<page, calls, armed, controls, seen, at, answer, hand, taken, skip, graph>>

\* Only the last panel shown is answered.
PanelAnswered ==
    /\ panel # 0 /\ panel' = 0 /\ \E place \in {"set", "none"} : Chooser(panel, place)
    /\ UNCHANGED <<page, calls, armed, controls, pending, seen, at, answer, hand, taken, skip, graph>>

\* After 120 s; whichever panel is shown goes.
PanelTimesOut(e) ==
    /\ chooser[e].at = "panel" /\ Chooser(e, "none") /\ panel' = 0
    /\ UNCHANGED <<page, calls, armed, controls, pending, seen, at, answer, hand, taken, skip, graph>>

\* Setting the files or building the locator may fail.
ChooserRecorded(e) ==
    /\ chooser[e].at = "set" /\ chooser' = [chooser EXCEPT ![e] = NoChooser]
    /\ \/ Appended(NewStep("upload", events[e].el, {e}, chooser[e].paths)) /\ skip' = TRUE
       \/ UNCHANGED <<steps, edges, made, skip>>
    /\ UNCHANGED <<page, calls, armed, controls, pending, seen, at, answer, hand, taken, panel, gone, artifact>>

SkipEnds ==
    /\ skip /\ skip' = FALSE
    /\ UNCHANGED <<page, calls, armed, controls, pending, seen, at, answer, hand, taken, chooser, panel, graph>>

-----------------------------------------------------------------------------
(* Controls of the dashboard or the HUD.  Each ends by telling the main    *)
(* document whether it is armed.                                           *)

Control ==
    /\ at[Stopping] = "none" /\ controls < MaxControls /\ controls' = controls + 1
    /\ pageArmed' = [pageArmed EXCEPT ![main] = armed']
    /\ UNCHANGED <<main, frame, loaded, queue, calls, seen, at, answer, taken, choosers, artifact>>

ToggleArm == armed' = ~armed /\ UNCHANGED <<counter, events, pending, hand, steps, edges, made, gone>> /\ Control

SetPending ==
    /\ pending' = controls + 1 /\ UNCHANGED <<armed, counter, events, hand, steps, edges, made, gone>> /\ Control

CancelPick == pending' = 0 /\ UNCHANGED <<armed, counter, events, hand, steps, edges, made, gone>> /\ Control

\* begin_pick and the click it waits for; the click takes a number of the page.
Pick(el) ==
    LET e == Len(events) + 1 IN
    /\ e \in Events /\ UNCHANGED <<armed, pending, steps, edges, made, gone>> /\ Control
    /\ counter' = [counter EXCEPT ![main] = @ + 1]
    /\ events' = Append(events, [doc |-> main, seq |-> counter'[main], kind |-> "pick", el |-> el])
    /\ hand' = [hand EXCEPT ![e] = <<e>>]

\* add_navigate, add_assert_url, ...: a step that stands for no event.
AddStep ==
    /\ Appended(NewStep("added", "none", {}, 0)) /\ UNCHANGED <<armed, pending, counter, events, hand, gone>> /\ Control

\* The edges of the step go, and no others are made.
DeleteUnlinked(i) ==
    /\ i \in DOMAIN steps /\ steps' = RemoveAt(steps, i)
    /\ edges' = {x \in edges : steps[i].id \notin {x[1], x[2]}}
    /\ gone' = gone \cup steps[i].from
    /\ UNCHANGED <<armed, pending, counter, events, hand, made>> /\ Control

DeleteStep(i) ==
    /\ i \in DOMAIN steps /\ steps' = RemoveAt(steps, i) /\ edges' = Linear(steps')
    /\ gone' = gone \cup steps[i].from
    /\ UNCHANGED <<armed, pending, counter, events, hand, made>> /\ Control

MoveStep(i) ==
    /\ i \in 1..(Len(steps) - 1)
    /\ steps' = [steps EXCEPT ![i] = steps[i + 1], ![i + 1] = steps[i]] /\ edges' = Linear(steps')
    /\ UNCHANGED <<armed, pending, counter, events, hand, made, gone>> /\ Control

-----------------------------------------------------------------------------
(* stop(): flush, process, cancel the poll, write, close the browser.      *)

Stop ==
    /\ at[Stopping] = "none" /\ at' = [at EXCEPT ![Stopping] = "asked"]
    /\ panel' = 0 /\ chooser' = IF panel = 0 THEN chooser ELSE [chooser EXCEPT ![panel] = NoChooser]
    /\ UNCHANGED <<page, calls, armed, controls, pending, seen, answer, hand, taken, skip, graph>>

\* A poll that died raises again when stop() waits for it, before anything is written.
Write ==
    /\ at[Stopping] = "work" /\ hand[Stopping] = <<>>
    /\ at' = [d \in Drainers |-> IF d = Poll THEN "off" ELSE "ended"] /\ hand' = [hand EXCEPT ![Poll] = <<>>]
    /\ answer' = [answer EXCEPT ![Poll] = {}] /\ taken' = [taken EXCEPT ![Poll] = 0]
    /\ artifact' = IF at[Poll] = "dead" THEN artifact ELSE [steps |-> steps, edges |-> edges]
    /\ UNCHANGED <<page, calls, armed, controls, pending, seen, choosers, steps, edges, made, gone>>

\* With the browser everything that waits for it ends.
Close ==
    /\ at[Stopping] = "ended" /\ at' = [at EXCEPT ![Stopping] = "closed"]
    /\ calls' = {} /\ hand' = [t \in Tasks |-> <<>>] /\ taken' = [t \in Tasks |-> 0]
    /\ chooser' = [e \in Events |-> NoChooser] /\ panel' = 0 /\ skip' = FALSE
    /\ UNCHANGED <<page, armed, controls, pending, seen, answer, graph>>

-----------------------------------------------------------------------------
Page == Navigate \/ OpenFrame \/ \E d \in Docs, kind \in Kinds, el \in Elements : Act(d, kind, el)
Arriving == PollDone \/ (\E e \in Events : Receive(e)) \/ \E d \in Drainers : Drain(d) \/ Flushed(d)
Building == \E t \in Tasks : Built(t) \/ PickBuilt(t) \/ UploadBuilt(t) \/ Uploaded(t)
Choosing == PanelAnswered \/ SkipEnds \/ \E e \in Events : ChooserHandled(e) \/ PanelTimesOut(e) \/ ChooserRecorded(e)
Controls == ToggleArm \/ SetPending \/ CancelPick \/ AddStep
            \/ (\E el \in Elements : Pick(el)) \/ \E i \in DOMAIN steps : DeleteStep(i) \/ MoveStep(i)
Ending == Stop \/ Write \/ Close \/ \E d \in Drainers : Dies(d)

Next == Page \/ Arriving \/ Building \/ Choosing \/ Controls \/ Ending
Spec == Init /\ [][Next]_vars

-----------------------------------------------------------------------------
(* Properties. *)

\* An event comes through the queue and through its binding call, to tasks that
\* interleave; it becomes part of one step, once, and does not come back when
\* that step is deleted (_ingest_capture, _process_new_sequences).
RecordedOnce ==
    \A e \in DOMAIN events : events[e].kind # "file" =>
        Cardinality({i \in DOMAIN steps : e \in steps[i].from}) + (IF e \in gone THEN 1 ELSE 0) <= 1

\* However appending tasks, deletions and moves interleave, the edges join the
\* steps in their order, also in the file that is written.
EdgesFollowSteps ==
    /\ edges = Linear(steps)
    /\ artifact # None => artifact.edges = Linear(artifact.steps)

\* Nothing is under way.
Quiet == at[Stopping] = "none" /\ at[Poll] = "sleep" /\ calls = {} /\ queue = <<>> /\ \A t \in Tasks : hand[t] = <<>>

Recorded(e) == e \in gone \cup Sources(steps)
Captured(e) == events[e].kind \in {"click", "fill"}

\* Whatever is lost on the way, and whichever task takes it, an event whose number
\* no other document has used is recorded when nothing is under way.
FirstOfItsNumberIsRecorded ==
    Quiet => \A e \in DOMAIN events :
        Captured(e) /\ (\A f \in DOMAIN events : f # e => events[f].seq # events[e].seq) => Recorded(e)

\* "For each captured action: build LocatorBundle, create Step, append to
\* in-memory Step Graph" (plan/playwright_agent_build_plan_163c1e12.plan.md:277).
EveryCaptureIsRecorded == Quiet => \A e \in DOMAIN events : Captured(e) => Recorded(e)

=============================================================================
