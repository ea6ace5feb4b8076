----------------------------- MODULE BrowserTools -----------------------------
(***************************************************************************)
(* What a browser session knows of its tabs and frames, and the tools that *)
(* act on them.  Source: execution/browser.py, execution/tools.py.         *)
(*                                                                         *)
(* Callers share one ToolRuntime (a replay and the validation of a         *)
(* locator, say) and take turns whenever a tool waits for the browser.     *)
(* The main frame of a tab is the tab itself.  A frame is an object: it is *)
(* attached once, and keeps its parent.  What an action does to the page,  *)
(* and the selectors, are left out.                                        *)
(***************************************************************************)
EXTENDS Integers, FiniteSets

CONSTANTS
    Tabs, Frames,    \* pages, and the frames inside them
    Parent,          \* the frame, or tab, that a frame is in
    TabOf,           \* the tab of a frame
    Callers,
    Replays,         \* the callers whose task a stop, a resume or a next replay cancels
    NoTab,
    MaxCalls, MaxDialogs     \* bounds

ASSUME FramesAssumption ==
    /\ Parent \in [Frames -> Tabs \cup Frames] /\ TabOf \in [Frames -> Tabs]
    /\ \A f \in Frames : Parent[f] \in Frames => TabOf[Parent[f]] = TabOf[f]
    /\ \A f \in Frames : Parent[f] \in Tabs => TabOf[f] = Parent[f]
    /\ Replays \subseteq Callers
    /\ Tabs \cap Frames = {} /\ NoTab \notin Tabs \cup Frames
    /\ MaxCalls \in Nat /\ MaxDialogs \in Nat

VARIABLES
    tabs, frames,    \* _tabs_by_id; _frames_by_id without the main frames
    past,            \* pages and frames that were closed or detached
    active,          \* last of _active_frame_paths of each tab, NoTab when absent
    selected,        \* _selected_tab_id
    instrumented,    \* _instrumented_tabs, with the console and network lists
    call,            \* the tool each caller is in, and where it waits
    dialog,          \* tabs with a dialog that nobody answered yet
    stale,           \* tabs with a dialog listener whose tool gave up
    forgotten,       \* tabs that tabs_close closed
    gaveUp,          \* tabs on which a dialog_handle timed out or was cancelled
    calls, dialogs

browserVars == <<tabs, frames, past, active, selected, instrumented, call,
                 dialog, stale, forgotten, gaveUp, calls, dialogs>>

tracking == <<tabs, frames, past>>
context == <<active, selected, instrumented>>
talking == <<dialog, stale, gaveUp, dialogs>>

NoCall == [tool |-> "none", tab |-> NoTab, frame |-> NoTab]

BrowserInit ==
    /\ tabs = {} /\ frames = {} /\ past = {}
    /\ active = [t \in Tabs |-> NoTab] /\ selected = NoTab /\ instrumented = {}
    /\ call = [c \in Callers |-> NoCall]
    /\ dialog = {} /\ stale = {} /\ forgotten = {} /\ gaveUp = {}
    /\ calls = 0 /\ dialogs = 0

-----------------------------------------------------------------------------
(* Events of the browser. *)

\* A page opens, with the frames its document has at that time.
RegisterPage(t) ==
    /\ t \notin tabs \cup past
    /\ tabs' = tabs \cup {t}
    /\ \E there \in SUBSET {f \in Frames \ past : TabOf[f] = t} :
         /\ \A f \in there : Parent[f] \in there \cup {t}
         /\ frames' = frames \cup there
    /\ UNCHANGED <<past, context, call, talking, forgotten, calls>>

FrameAttached(f) ==
    /\ f \notin frames \cup past /\ Parent[f] \in tabs \cup frames
    /\ frames' = frames \cup {f}
    /\ UNCHANGED <<tabs, past, context, call, talking, forgotten, calls>>

Around[f \in Frames] == {f} \cup IF Parent[f] \in Frames THEN Around[Parent[f]] ELSE {}

Below(f) == {g \in frames : f \in Around[g]}

\* A frame goes with the frames inside it (_drop_frame).
FrameDetached(f) ==
    /\ f \in frames
    /\ frames' = frames \ Below(f) /\ past' = past \cup Below(f)
    /\ UNCHANGED <<tabs, context, call, talking, forgotten, calls>>

FramesOf(t) == {f \in frames : TabOf[f] = t}

DropTabs(T) ==
    /\ tabs' = tabs \ T
    /\ frames' = {f \in frames : TabOf[f] \notin T}
    /\ past' = past \cup T \cup UNION {FramesOf(t) : t \in T}
    /\ dialog' = dialog \ T /\ stale' = stale \ T

PageClosed(t) ==
    /\ t \in tabs /\ DropTabs({t})
    /\ UNCHANGED <<context, call, forgotten, gaveUp, calls, dialogs>>

\* The context closes, or BrowserSession.stop: every page goes.
ContextClosed ==
    /\ tabs # {} /\ DropTabs(tabs)
    /\ UNCHANGED <<context, call, forgotten, gaveUp, calls, dialogs>>

Waiting(t) == {c \in Callers : call[c].tool = "dialog_handle" /\ call[c].tab = t}

\* The page asks something.  Without a listener the browser dismisses it; a
\* listener whose tool gave up takes it and does nothing.  Listeners go after
\* one dialog (page.once).
DialogOpens(t) ==
    /\ t \in tabs \ dialog /\ dialogs < MaxDialogs /\ dialogs' = dialogs + 1
    /\ IF Waiting(t) = {} /\ t \notin stale THEN UNCHANGED <<dialog, stale, call>>
       ELSE /\ dialog' = dialog \cup {t} /\ stale' = stale \ {t}
            /\ call' = [c \in Callers |-> IF c \in Waiting(t)
                                          THEN [tool |-> "dialog_answer", tab |-> t, frame |-> t]
                                          ELSE call[c]]
    /\ UNCHANGED <<tracking, context, forgotten, gaveUp, calls>>

PageEvents ==
    \/ \E t \in Tabs : RegisterPage(t) \/ PageClosed(t) \/ DialogOpens(t)
    \/ \E f \in Frames : FrameAttached(f) \/ FrameDetached(f)
    \/ ContextClosed

-----------------------------------------------------------------------------
(* A tool begins: the tab must be known, and is observed from now on.      *)

Begin(c) == /\ call[c] = NoCall /\ calls < MaxCalls /\ calls' = calls + 1

Observe(t) == t \in tabs /\ instrumented' = instrumented \cup {t}

Wait(c, tool, t, f) == call' = [call EXCEPT ![c] = [tool |-> tool, tab |-> t, frame |-> f]]

Return(c) == call' = [call EXCEPT ![c] = NoCall]

\* _current_frame_path: the frame entered last while it is there, else the page.
\* What it finds is kept as the frame entered last.
Current(t) == IF active[t] \in tabs \cup frames THEN active[t]
              ELSE IF t \in tabs THEN t ELSE NoTab

\* _resolve_target_locator: a selector is looked up in the current frame; a ref of a
\* snapshot in the frame the snapshot saw it in, which must be there.
OnTarget(c, tool, t) ==
    /\ Observe(t)
    /\ \/ /\ active' = [active EXCEPT ![t] = Current(t)]
          /\ Wait(c, tool, t, Current(t))
       \/ /\ UNCHANGED active
          /\ \E f \in {t} \cup FramesOf(t) : Wait(c, tool, t, f)
    /\ UNCHANGED <<tracking, selected, talking, forgotten>>

\* click, fill, type, press, check, uncheck and select act on their target.
Interact(c, t) == Begin(c) /\ OnTarget(c, "interact", t)

\* hover, focus and drag, whose two targets are looked up without a wait in between.
Point(c, t) == Begin(c) /\ OnTarget(c, "interact", t)

\* wait_for with a target.
WaitFor(c, t) == Begin(c) /\ OnTarget(c, "interact", t)

\* assert_value, assert_checked and the other assertions about a target.
AssertTarget(c, t) == Begin(c) /\ OnTarget(c, "interact", t)

\* assert_url answers at once, assert_title when the page has told its title.
AssertPage(c, t) ==
    /\ Begin(c) /\ Observe(t)
    /\ active' = [active EXCEPT ![t] = Current(t)]
    /\ UNCHANGED call \/ Wait(c, "interact", t, t)
    /\ UNCHANGED <<tracking, selected, talking, forgotten>>

\* A screenshot looks up the current frame even when it is of the page or of a ref.
Screenshot(c, t) ==
    /\ Begin(c) /\ Observe(t)
    /\ active' = [active EXCEPT ![t] = Current(t)]
    /\ \E f \in {t, Current(t)} \cup FramesOf(t) : Wait(c, "interact", t, f)
    /\ UNCHANGED <<tracking, selected, talking, forgotten>>

\* An upload looks its target up again for every selector it tries.
Upload(c, t) == Begin(c) /\ OnTarget(c, "upload", t)

UploadAgain(c) ==
    /\ call[c].tool = "upload" /\ calls < MaxCalls /\ calls' = calls + 1
    /\ OnTarget(c, "upload", call[c].tab)

\* It acted, saw what it asserts, or raised.
Acted(c) ==
    /\ call[c].tool \in {"interact", "upload"} /\ Return(c)
    /\ UNCHANGED <<tracking, context, talking, forgotten, calls>>

\* navigate, navigate_back, wait_timeout, wait_for without a target: the page
\* itself, and the current frame is looked up when it is done, unless it raised.
OnPage(c, t) ==
    /\ Begin(c) /\ Observe(t) /\ Wait(c, "page", t, t)
    /\ UNCHANGED <<tracking, active, selected, talking, forgotten>>

OnPageDone(c) ==
    /\ call[c].tool = "page" /\ Return(c)
    /\ active' \in {active, [active EXCEPT ![call[c].tab] = Current(call[c].tab)]}
    /\ UNCHANGED <<tracking, selected, instrumented, talking, forgotten, calls>>

\* console_messages and network_requests answer at once with what they noted.
ReadLog(c, t) ==
    /\ Begin(c) /\ Observe(t)
    /\ UNCHANGED <<tracking, active, selected, call, talking, forgotten>>

\* tabs_list waits for the title of every known page, and notes nothing.
TabsList(c) ==
    /\ Begin(c) /\ Wait(c, "tabs_list", NoTab, NoTab)
    /\ UNCHANGED <<tracking, context, talking, forgotten>>

TabsListed(c) ==
    /\ call[c].tool = "tabs_list" /\ Return(c)
    /\ UNCHANGED <<tracking, context, talking, forgotten, calls>>

\* take_trace records the context of the tab, which it does not observe.
TakeTrace(c, t) ==
    /\ Begin(c) /\ t \in tabs /\ Wait(c, "trace", t, t)
    /\ UNCHANGED <<tracking, context, talking, forgotten>>

TraceTaken(c) ==
    /\ call[c].tool = "trace" /\ Return(c)
    /\ UNCHANGED <<tracking, context, talking, forgotten, calls>>

\* frame_enter with a selector of the host element.
FrameEnter(c, t) ==
    /\ Begin(c) /\ Observe(t)
    /\ active' = [active EXCEPT ![t] = Current(t)]
    /\ \E f \in frames : Parent[f] = Current(t) /\ Wait(c, "frame_enter", t, f)
    /\ UNCHANGED <<tracking, selected, talking, forgotten>>

FrameEntered(c) ==
    /\ call[c].tool = "frame_enter" /\ Return(c)
    /\ active' = IF call[c].frame \in frames
                 THEN [active EXCEPT ![call[c].tab] = call[c].frame] ELSE active
    /\ UNCHANGED <<tracking, selected, instrumented, talking, forgotten, calls>>

\* frame_enter with the id of a frame, of whatever tab.
FrameEnterById(c, t) ==
    /\ Begin(c) /\ Observe(t)
    /\ \E f \in tabs \cup frames : active' = [active EXCEPT ![t] = f]
    /\ UNCHANGED <<tracking, selected, call, talking, forgotten>>

FrameExit(c, t) ==
    /\ Begin(c) /\ Observe(t)
    /\ active' = [active EXCEPT ![t] =
         IF @ \in Frames /\ Parent[@] \in tabs \cup frames THEN Parent[@] ELSE t]
    /\ UNCHANGED <<tracking, selected, call, talking, forgotten>>

TabsSelect(c, t) ==
    /\ Begin(c) /\ Observe(t)
    /\ selected' = t /\ active' = [active EXCEPT ![t] = t]
    /\ UNCHANGED <<tracking, call, talking, forgotten>>

Forget(t) ==
    /\ IF selected # t THEN UNCHANGED selected
       ELSE selected' \in (IF tabs = {} THEN {NoTab} ELSE tabs)
    /\ instrumented' = instrumented \ {t}
    /\ active' = [active EXCEPT ![t] = NoTab]
    /\ forgotten' = forgotten \cup {t}

TabsClose(c, t) ==
    /\ Begin(c) /\ t \in tabs /\ Wait(c, "tabs_close", t, t)
    /\ UNCHANGED <<tracking, context, talking, forgotten>>

\* The page is closed: its close event came before the answer.
TabsClosed(c) ==
    /\ call[c].tool = "tabs_close" /\ call[c].tab \notin tabs
    /\ Return(c) /\ Forget(call[c].tab)
    /\ UNCHANGED <<tracking, talking, calls>>

\* The browser does not close it.
TabsCloseFails(c) ==
    /\ call[c].tool = "tabs_close" /\ Return(c)
    /\ UNCHANGED <<tracking, context, talking, forgotten, calls>>

DialogHandle(c, t) ==
    /\ Begin(c) /\ Observe(t)
    /\ active' = [active EXCEPT ![t] = Current(t)]
    /\ Wait(c, "dialog_handle", t, t)
    /\ UNCHANGED <<tracking, selected, talking, forgotten>>

\* A bug: the listener stays after the dialog it was waiting for.
DialogAnsweredStays(c) ==
    /\ call[c].tool = "dialog_answer" /\ Return(c)
    /\ dialog' = dialog \ {call[c].tab}
    /\ stale' = stale \cup ({call[c].tab} \cap tabs)
    /\ UNCHANGED <<tracking, context, gaveUp, forgotten, calls, dialogs>>

\* Accepted or dismissed; raises when another caller did that, or the tab is gone.
DialogAnswered(c) ==
    /\ call[c].tool = "dialog_answer" /\ Return(c)
    /\ dialog' = dialog \ {call[c].tab}
    /\ UNCHANGED <<tracking, context, stale, gaveUp, forgotten, calls, dialogs>>

\* No dialog came in time; the listener stays on the page.
DialogTimesOut(c) ==
    /\ call[c].tool = "dialog_handle" /\ Return(c)
    /\ stale' = stale \cup ({call[c].tab} \cap tabs) /\ gaveUp' = gaveUp \cup {call[c].tab}
    /\ UNCHANGED <<tracking, context, dialog, forgotten, calls, dialogs>>

\* The panel's replay is a task that a stop, a resume or the next replay cancels, in
\* whatever tool it waits.  In dialog_handle it leaves its listener on the page, or
\* the dialog it was about to answer, which the browser may yet have been told of.
Cancelled(c) ==
    /\ c \in Replays /\ call[c] # NoCall /\ Return(c)
    /\ LET t == call[c].tab IN
       CASE call[c].tool = "dialog_handle" ->
              /\ stale' = stale \cup ({t} \cap tabs) /\ gaveUp' = gaveUp \cup {t}
              /\ UNCHANGED dialog
         [] call[c].tool = "dialog_answer" ->
              /\ dialog' \in {dialog, dialog \ {t}} /\ gaveUp' = gaveUp \cup {t}
              /\ UNCHANGED stale
         [] OTHER -> UNCHANGED <<dialog, stale, gaveUp>>
    /\ UNCHANGED <<tracking, context, forgotten, calls, dialogs>>

ToolBegins(c, t) ==
    \/ Interact(c, t) \/ Point(c, t) \/ WaitFor(c, t) \/ AssertTarget(c, t)
    \/ AssertPage(c, t) \/ Screenshot(c, t) \/ Upload(c, t) \/ OnPage(c, t)
    \/ ReadLog(c, t) \/ TabsList(c) \/ TakeTrace(c, t) \/ FrameEnter(c, t)
    \/ FrameEnterById(c, t) \/ FrameExit(c, t) \/ TabsSelect(c, t) \/ TabsClose(c, t)
    \/ DialogHandle(c, t)

ToolGoesOn(c) ==
    \/ UploadAgain(c) \/ Acted(c) \/ OnPageDone(c) \/ TabsListed(c) \/ TraceTaken(c)
    \/ FrameEntered(c) \/ TabsClosed(c) \/ TabsCloseFails(c) \/ DialogAnswered(c)
    \/ DialogTimesOut(c) \/ Cancelled(c)

BrowserNext ==
    PageEvents \/ \E c \in Callers : ToolGoesOn(c) \/ \E t \in Tabs : ToolBegins(c, t)

BrowserSpec == BrowserInit /\ [][BrowserNext]_browserVars

-----------------------------------------------------------------------------
(* A tab that tabs_close closed is not selected any more, and its messages *)
(* are not kept, although other callers may use it, or select it, until    *)
(* the browser has closed it (tabs_close forgets it after the await).      *)
ClosedTabsAreForgotten == \A t \in forgotten : t \notin instrumented /\ selected # t

(* A frame becomes the current one only while it is attached, whatever the *)
(* page did while frame_enter waited for it.                               *)
EntersOnlyLiveFrames ==
    [][\A t \in Tabs : active'[t] # active[t] /\ active'[t] \in Frames
                         => active'[t] \in frames']_browserVars

(* A dialog blocks a page for good only where a dialog_handle gave up, by  *)
(* its timeout or because its replay was cancelled, and left its listener  *)
(* or the dialog itself.  A listener goes with the dialog it took, so a    *)
(* tool that came to its end never swallows a later dialog.                *)
DialogsHangOnlyAfterGivingUp ==
    \A t \in dialog : t \in gaveUp
                      \/ \E c \in Callers : call[c].tool = "dialog_answer" /\ call[c].tab = t
=============================================================================
