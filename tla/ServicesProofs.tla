---------------------------- MODULE ServicesProofs -----------------------------
(*****************************************************************************)
(* What is proved of the parts a step is carried out and repaired with.      *)
(* They share no state: each has its own specification, its own invariants   *)
(* and its own section here, in the order of the components.                 *)
(*****************************************************************************)
EXTENDS BrowserTools, StepContext, LocatorRank, ForceFix, Memory, Orchestrator, ListFacts

-----------------------------------------------------------------------------
(*****************************************************************************)
(* BrowserTools, for every set of tabs, every tree of frames, any number of  *)
(* callers and of calls.                                                     *)
(*****************************************************************************)

Tools == {"none", "interact", "upload", "page", "tabs_list", "trace", "frame_enter",
          "tabs_close", "dialog_handle", "dialog_answer"}

Calls == [tool : Tools, tab : Tabs \cup {NoTab}, frame : Tabs \cup Frames \cup {NoTab}]

Tracked ==
    /\ tabs \subseteq Tabs /\ frames \subseteq Frames /\ past \subseteq Tabs \cup Frames
    /\ active \in [Tabs -> Tabs \cup Frames \cup {NoTab}]
    /\ call \in [Callers -> Calls]

\* What closes stays closed; what tabs_close is about was there.
Closing ==
    /\ tabs \cap past = {} /\ forgotten \subseteq past \cap Tabs
    /\ \A c \in Callers : call[c].tool = "tabs_close" => call[c].tab \in tabs \cup past

\* A listener outlives its tool only where the tool gave up.
Listening == stale \subseteq gaveUp /\ DialogsHangOnlyAfterGivingUp

-----------------------------------------------------------------------------

LEMMA CurrentIsThere ==
    ASSUME NEW t \in Tabs, Tracked
    PROVE  /\ Current(t) \in tabs \cup frames \cup {NoTab}
           /\ Current(t) \in Frames => Current(t) \in frames
    BY FramesAssumption DEF Current, Tracked

LEMMA FrameKept ==
    ASSUME NEW f \in Frames
    PROVE  Below(f) \subseteq frames
    BY DEF Below

(* A step keeps what is tracked. *)
LEMMA TrackedStep == Tracked /\ [BrowserNext]_browserVars => Tracked'
<1> SUFFICES ASSUME Tracked, [BrowserNext]_browserVars PROVE Tracked' OBVIOUS
<1> USE FramesAssumption DEF Tracked, Calls, Tools
<1>1. CASE UNCHANGED browserVars BY <1>1 DEF browserVars
<1>2. CASE PageEvents
  <2>1. ASSUME NEW t \in Tabs, RegisterPage(t) PROVE Tracked'
      BY <2>1 DEF RegisterPage, context, talking
  <2>2. ASSUME NEW t \in Tabs, PageClosed(t) PROVE Tracked'
      BY <2>2 DEF PageClosed, DropTabs, FramesOf, context
  <2>3. ASSUME NEW t \in Tabs, DialogOpens(t) PROVE Tracked'
    <3>1. UNCHANGED <<tabs, frames, past, active>>
        BY <2>3 DEF DialogOpens, tracking, context
    <3>2. call' \in [Callers -> Calls] BY <2>3 DEF DialogOpens
    <3> QED BY <3>1, <3>2
  <2>4. ASSUME NEW f \in Frames, FrameAttached(f) PROVE Tracked'
      BY <2>4 DEF FrameAttached, context, talking
  <2>5. ASSUME NEW f \in Frames, FrameDetached(f) PROVE Tracked'
      BY <2>5, FrameKept DEF FrameDetached, context, talking
  <2>6. CASE ContextClosed
      BY <2>6 DEF ContextClosed, DropTabs, FramesOf, context
  <2> QED BY <1>2, <2>1, <2>2, <2>3, <2>4, <2>5, <2>6 DEF PageEvents
<1>3. ASSUME NEW c \in Callers, NEW t \in Tabs, ToolBegins(c, t) PROVE Tracked'
  <2> USE CurrentIsThere
  <2>1. CASE Interact(c, t) \/ Point(c, t) \/ WaitFor(c, t) \/ AssertTarget(c, t)
             \/ Upload(c, t)
      BY <2>1 DEF Interact, Point, WaitFor, AssertTarget, Upload, OnTarget, FramesOf, Wait,
                  tracking
  <2>2. CASE OnPage(c, t) BY <2>2 DEF OnPage, Wait, tracking
  <2>9. CASE AssertPage(c, t) BY <2>9 DEF AssertPage, Wait, tracking
  <2>12. CASE Screenshot(c, t) BY <2>12 DEF Screenshot, FramesOf, Wait, tracking
  <2>10. CASE ReadLog(c, t) \/ TabsList(c)
      BY <2>10 DEF ReadLog, TabsList, Wait, tracking, context
  <2>11. CASE TakeTrace(c, t) BY <2>11 DEF TakeTrace, Wait, tracking, context
  <2>3. CASE FrameEnter(c, t) BY <2>3 DEF FrameEnter, Wait, tracking
  <2>4. CASE FrameEnterById(c, t) BY <2>4 DEF FrameEnterById, tracking
  <2>5. CASE FrameExit(c, t) BY <2>5 DEF FrameExit, tracking
  <2>6. CASE TabsSelect(c, t) BY <2>6 DEF TabsSelect, tracking
  <2>7. CASE TabsClose(c, t) BY <2>7 DEF TabsClose, Wait, tracking, context
  <2>8. CASE DialogHandle(c, t) BY <2>8 DEF DialogHandle, Wait, tracking
  <2> QED BY <1>3, <2>1, <2>2, <2>3, <2>4, <2>5, <2>6, <2>7, <2>8, <2>9, <2>10, <2>11,
              <2>12 DEF ToolBegins
<1>4. ASSUME NEW c \in Callers, ToolGoesOn(c) PROVE Tracked'
  <2> USE CurrentIsThere DEF Return, NoCall
  <2>1. CASE UploadAgain(c)
    <3>1. call[c].tab \in Tabs BY <2>1 DEF UploadAgain, OnTarget, Observe
    <3> QED BY <2>1, <3>1 DEF UploadAgain, OnTarget, FramesOf, Wait, tracking
  <2>2. CASE Acted(c) \/ TabsListed(c) BY <2>2 DEF Acted, TabsListed, tracking, context
  <2>3. CASE OnPageDone(c) 
    <3>1. active' \in [Tabs -> Tabs \cup Frames \cup {NoTab}]
      <4>1. CASE call[c].tab \in Tabs BY <2>3, <4>1 DEF OnPageDone
      <4>2. CASE call[c].tab \notin Tabs BY <2>3, <4>2 DEF OnPageDone
      <4> QED BY <4>1, <4>2
    <3> QED BY <2>3, <3>1 DEF OnPageDone, tracking
  <2>4. CASE FrameEntered(c) BY <2>4 DEF FrameEntered, tracking
  <2>5. CASE TabsClosed(c) BY <2>5 DEF TabsClosed, Forget, tracking
  <2>6. CASE TabsCloseFails(c) BY <2>6 DEF TabsCloseFails, tracking, context
  <2>7. CASE DialogAnswered(c) BY <2>7 DEF DialogAnswered, tracking, context
  <2>8. CASE DialogTimesOut(c) BY <2>8 DEF DialogTimesOut, tracking, context
  <2>9. CASE TraceTaken(c) BY <2>9 DEF TraceTaken, tracking, context
  <2>10. CASE Cancelled(c) BY <2>10 DEF Cancelled, tracking, context
  <2> QED BY <1>4, <2>1, <2>2, <2>3, <2>4, <2>5, <2>6, <2>7, <2>8, <2>9, <2>10
          DEF ToolGoesOn
<1> QED BY <1>1, <1>2, <1>3, <1>4 DEF BrowserNext

(* A step keeps what is known of closed tabs. *)
LEMMA ClosingStep ==
    Tracked /\ Closing /\ [BrowserNext]_browserVars => Closing'
<1> SUFFICES ASSUME Tracked, Closing, [BrowserNext]_browserVars PROVE Closing' OBVIOUS
<1> USE FramesAssumption DEF Closing
<1>1. CASE UNCHANGED browserVars BY <1>1 DEF browserVars
<1>2. CASE PageEvents
  <2>1. ASSUME NEW t \in Tabs, RegisterPage(t) PROVE Closing'
      BY <2>1 DEF RegisterPage
  <2>2. ASSUME NEW t \in Tabs, PageClosed(t) PROVE Closing'
      BY <2>2 DEF PageClosed, DropTabs, FramesOf, Tracked
  <2>3. ASSUME NEW t \in Tabs, DialogOpens(t) PROVE Closing'
    <3>1. UNCHANGED <<tabs, past, forgotten>> BY <2>3 DEF DialogOpens, tracking
    <3>2. ASSUME NEW c \in Callers, call'[c].tool = "tabs_close"
          PROVE  call[c].tool = "tabs_close" /\ call'[c].tab = call[c].tab
        BY <2>3, <3>2 DEF DialogOpens, Tracked, Calls
    <3> QED BY <3>1, <3>2
  <2>4. ASSUME NEW f \in Frames, FrameAttached(f) PROVE Closing'
      BY <2>4 DEF FrameAttached
  <2>5. ASSUME NEW f \in Frames, FrameDetached(f) PROVE Closing'
      BY <2>5, FrameKept DEF FrameDetached, Tracked
  <2>6. CASE ContextClosed
      BY <2>6 DEF ContextClosed, DropTabs, FramesOf, Tracked
  <2> QED BY <1>2, <2>1, <2>2, <2>3, <2>4, <2>5, <2>6 DEF PageEvents
<1>3. ASSUME NEW c \in Callers, NEW t \in Tabs, ToolBegins(c, t) PROVE Closing'
  <2>1. UNCHANGED <<tabs, past, forgotten>>
      BY <1>3 DEF ToolBegins, OnTarget, Interact, Point, WaitFor, AssertTarget, AssertPage, Screenshot,
                  Upload, OnPage, ReadLog,
                  TabsList, TakeTrace, FrameEnter, FrameEnterById, FrameExit,
                  TabsSelect, TabsClose, DialogHandle, tracking
  <2>2. \/ UNCHANGED call
        \/ \E tool \in Tools \ {"tabs_close"}, u \in Tabs \cup {NoTab},
              f \in Tabs \cup Frames \cup {NoTab} : Wait(c, tool, u, f)
        \/ t \in tabs /\ Wait(c, "tabs_close", t, t)
    <3> USE CurrentIsThere DEF Tools, Tracked
    <3>1. CASE Interact(c, t) \/ Point(c, t) \/ WaitFor(c, t) \/ AssertTarget(c, t)
               \/ Upload(c, t)
        BY <3>1 DEF Interact, Point, WaitFor, AssertTarget, Upload, OnTarget, FramesOf
    <3>2. CASE OnPage(c, t) BY <3>2 DEF OnPage
    <3>3. CASE FrameEnter(c, t) BY <3>3 DEF FrameEnter
    <3>4. CASE DialogHandle(c, t) BY <3>4 DEF DialogHandle
    <3>5. CASE TabsClose(c, t) BY <3>5 DEF TabsClose
    <3>6. CASE FrameEnterById(c, t) \/ FrameExit(c, t) \/ TabsSelect(c, t)
               \/ ReadLog(c, t)
        BY <3>6 DEF FrameEnterById, FrameExit, TabsSelect, ReadLog
    <3>7. CASE AssertPage(c, t) BY <3>7 DEF AssertPage
    <3>9. CASE Screenshot(c, t) BY <3>9 DEF Screenshot, FramesOf
    <3>10. CASE TabsList(c) BY <3>10 DEF TabsList
    <3>8. CASE TakeTrace(c, t) BY <3>8 DEF TakeTrace
    <3> QED BY <1>3, <3>1, <3>2, <3>3, <3>4, <3>5, <3>6, <3>7, <3>8,
                <3>9, <3>10 DEF ToolBegins
  <2> QED BY <2>1, <2>2 DEF Wait, Tracked, Tools, Calls
<1>4. ASSUME NEW c \in Callers, ToolGoesOn(c) PROVE Closing'
  <2>1. UNCHANGED <<tabs, past>>
      BY <1>4 DEF ToolGoesOn, UploadAgain, OnTarget, Acted, OnPageDone, TabsListed,
                  TraceTaken, FrameEntered, Cancelled, TabsClosed,
                  TabsCloseFails, DialogAnswered, DialogTimesOut, tracking
  <2>2. \A d \in Callers : call'[d].tool = "tabs_close" => call'[d] = call[d]
      BY <1>4 DEF ToolGoesOn, UploadAgain, OnTarget, Acted, OnPageDone, TabsListed,
                  TraceTaken, FrameEntered, Cancelled, TabsClosed,
                  TabsCloseFails, DialogAnswered, DialogTimesOut, Return, NoCall, Wait,
                  Tracked, Calls
  <2>3. forgotten' \subseteq past \cap Tabs
    <3>1. CASE TabsClosed(c) BY <3>1 DEF TabsClosed, Forget, Tracked, Calls
    <3>2. CASE ~TabsClosed(c)
        BY <1>4, <3>2 DEF ToolGoesOn, UploadAgain, OnTarget, Acted, OnPageDone, TabsListed,
                  TraceTaken, FrameEntered, Cancelled,
                          TabsCloseFails, DialogAnswered, DialogTimesOut
    <3> QED BY <3>1, <3>2
  <2> QED BY <2>1, <2>2, <2>3
<1> QED BY <1>1, <1>2, <1>3, <1>4 DEF BrowserNext

(* Only the close of a tab, a tool that observes a tab, and tabs_select     *)
(* touch what ClosedTabsAreForgotten speaks of.                             *)
LEMMA ForgottenStep ==
    /\ Tracked /\ Closing /\ ClosedTabsAreForgotten /\ [BrowserNext]_browserVars
    => ClosedTabsAreForgotten'
<1> SUFFICES ASSUME Tracked, Closing, ClosedTabsAreForgotten, [BrowserNext]_browserVars
             PROVE  ClosedTabsAreForgotten'
    OBVIOUS
<1> USE FramesAssumption DEF ClosedTabsAreForgotten
<1>1. CASE UNCHANGED <<instrumented, selected, forgotten>> BY <1>1
<1>2. CASE UNCHANGED forgotten /\ (\E t \in tabs :
              /\ instrumented' = instrumented \cup {t}
              /\ selected' \in {t, selected})
    BY <1>2 DEF Closing
<1>3. ASSUME NEW c \in Callers, TabsClosed(c) PROVE ClosedTabsAreForgotten'
  <2>1. call[c].tab \in Tabs /\ call[c].tab \notin tabs
      BY <1>3 DEF TabsClosed, Closing, Tracked, Calls
  <2> QED BY <1>3, <2>1 DEF TabsClosed, Forget, Closing, Tracked
<1>4. CASE UNCHANGED browserVars BY <1>1, <1>4 DEF browserVars
<1>5. CASE PageEvents
    BY <1>1, <1>5 DEF PageEvents, RegisterPage, PageClosed, DialogOpens, FrameAttached,
                      FrameDetached, ContextClosed, context
<1>6. ASSUME NEW c \in Callers, NEW t \in Tabs, ToolBegins(c, t)
      PROVE  ClosedTabsAreForgotten'
  <2>1. CASE TabsClose(c, t) \/ TabsList(c) \/ TakeTrace(c, t)
      BY <1>1, <2>1 DEF TabsClose, TabsList, TakeTrace, context
  <2>2. CASE ~(TabsClose(c, t) \/ TabsList(c) \/ TakeTrace(c, t))
      BY <1>2, <1>6, <2>2 DEF ToolBegins, OnTarget, Interact, Point, WaitFor, AssertTarget, AssertPage, Screenshot,
                  Upload, OnPage, ReadLog,
                  TabsList, TakeTrace, FrameEnter, FrameEnterById,
                              FrameExit, TabsSelect, DialogHandle, Observe
  <2> QED BY <2>1, <2>2
<1>7. ASSUME NEW c \in Callers, ToolGoesOn(c), ~TabsClosed(c)
      PROVE  ClosedTabsAreForgotten'
    BY <1>1, <1>2, <1>7 DEF ToolGoesOn, UploadAgain, OnTarget, Acted, OnPageDone, TabsListed,
                  TraceTaken, FrameEntered, Cancelled,
                            TabsCloseFails, DialogAnswered, DialogTimesOut, Observe, context
<1> QED BY <1>3, <1>4, <1>5, <1>6, <1>7 DEF BrowserNext

(* A tab that tabs_close closed is neither selected nor observed again,    *)
(* whatever other callers do with it until the browser has closed it.      *)
THEOREM ClosedTabsStayForgotten == BrowserSpec => []ClosedTabsAreForgotten
<1>1. BrowserInit => Tracked /\ Closing /\ ClosedTabsAreForgotten
    BY FramesAssumption
    DEF BrowserInit, Tracked, Closing, ClosedTabsAreForgotten, Calls, Tools, NoCall
<1>2. Tracked /\ Closing /\ ClosedTabsAreForgotten /\ [BrowserNext]_browserVars
      => (Tracked /\ Closing /\ ClosedTabsAreForgotten)'
    BY TrackedStep, ClosingStep, ForgottenStep
<1> QED BY <1>1, <1>2, PTL DEF BrowserSpec

(* The type invariant of the browser session. *)
THEOREM TrackedAlways == BrowserSpec => []Tracked
<1>1. BrowserInit => Tracked
    BY FramesAssumption DEF BrowserInit, Tracked, Calls, Tools, NoCall
<1> QED BY <1>1, TrackedStep, PTL DEF BrowserSpec

(* frame_enter, frame_exit and every tool that looks for its target leave  *)
(* a tab with a current frame only if that frame is attached at the time.  *)
THEOREM EnteredFramesAreLive == BrowserSpec => EntersOnlyLiveFrames
<1> DEFINE Live == \A t \in Tabs : active'[t] # active[t] /\ active'[t] \in Frames
                                     => active'[t] \in frames'
<1>1. ASSUME Tracked, [BrowserNext]_browserVars PROVE Live
  <2> USE <1>1, FramesAssumption DEF Tracked
  <2>1. CASE UNCHANGED active BY <2>1
  <2>2. CASE PageEvents \/ UNCHANGED browserVars
      BY <2>1, <2>2 DEF PageEvents, RegisterPage, PageClosed, DialogOpens, FrameAttached,
                        FrameDetached, ContextClosed, context, browserVars
  <2>3. ASSUME NEW u \in Tabs, NEW f \in tabs \cup frames \cup {NoTab}, UNCHANGED frames,
               active' = [active EXCEPT ![u] = f]
        PROVE  Live
    <3>1. f \in Frames => f \in frames BY <2>3
    <3>2. \A t \in Tabs : active'[t] = IF t = u THEN f ELSE active[t] BY <2>3
    <3> QED BY <2>3, <3>1, <3>2
  <2>4. ASSUME NEW u \in Tabs, UNCHANGED frames, active' = [active EXCEPT ![u] = Current(u)]
        PROVE  Live
      BY <2>3, <2>4, CurrentIsThere
  <2>5. ASSUME NEW c \in Callers, NEW t \in Tabs, ToolBegins(c, t) PROVE Live
    <3>1. UNCHANGED frames
        BY <2>5 DEF ToolBegins, OnTarget, Interact, Point, WaitFor, AssertTarget, AssertPage, Screenshot,
                  Upload, OnPage, ReadLog,
                  TabsList, TakeTrace, FrameEnter, FrameEnterById, FrameExit,
                    TabsSelect, TabsClose, DialogHandle, tracking
    <3>2. CASE AssertPage(c, t) \/ Screenshot(c, t) \/ FrameEnter(c, t) \/ DialogHandle(c, t)
        BY <2>4, <3>1, <3>2 DEF AssertPage, Screenshot, FrameEnter, DialogHandle
    <3>8. CASE Interact(c, t) \/ Point(c, t) \/ WaitFor(c, t) \/ AssertTarget(c, t)
               \/ Upload(c, t)
        BY <2>1, <2>4, <3>1, <3>8
           DEF Interact, Point, WaitFor, AssertTarget, Upload, OnTarget
    <3>3. CASE OnPage(c, t) \/ TabsClose(c, t) BY <2>1, <3>3 DEF OnPage, TabsClose, context
    <3>7. CASE ReadLog(c, t) \/ TabsList(c) \/ TakeTrace(c, t)
        BY <2>1, <3>7 DEF ReadLog, TabsList, TakeTrace, context
    <3>4. CASE FrameEnterById(c, t) BY <2>3, <3>1, <3>4 DEF FrameEnterById
    <3>5. CASE FrameExit(c, t)
      <4>1. PICK f \in tabs \cup frames : active' = [active EXCEPT ![t] = f]
        <5> DEFINE g == IF active[t] \in Frames /\ Parent[active[t]] \in tabs \cup frames
                        THEN Parent[active[t]] ELSE t
        <5>1. g \in tabs \cup frames BY <3>5 DEF FrameExit, Observe
        <5>2. active' = [active EXCEPT ![t] = g] BY <3>5 DEF FrameExit
        <5> QED BY <5>1, <5>2
      <4> QED BY <2>3, <3>1, <4>1
    <3>6. CASE TabsSelect(c, t) BY <2>3, <3>1, <3>6 DEF TabsSelect, Observe
    <3> QED BY <2>5, <3>2, <3>3, <3>4, <3>5, <3>6, <3>7, <3>8 DEF ToolBegins
  <2>6. ASSUME NEW c \in Callers, ToolGoesOn(c) PROVE Live
    <3>1. UNCHANGED frames
        BY <2>6 DEF ToolGoesOn, UploadAgain, OnTarget, Acted, OnPageDone, TabsListed,
                  TraceTaken, FrameEntered, Cancelled, TabsClosed,
                    TabsCloseFails, DialogAnswered, DialogTimesOut, tracking
    <3>2. \/ UNCHANGED active
          \/ \E f \in tabs \cup frames \cup {NoTab} :
                active' = [active EXCEPT ![call[c].tab] = f]
      <4>1. call[c].tab \in Tabs \cup {NoTab} BY <2>6 DEF Calls
      <4>2. CASE call[c].tab = NoTab
        <5>1. \A f : [active EXCEPT ![call[c].tab] = f] = active BY <4>2, <2>6
        <5> QED BY <2>6, <5>1
            DEF ToolGoesOn, UploadAgain, OnTarget, Acted, OnPageDone, TabsListed,
                  TraceTaken, FrameEntered, Cancelled, TabsClosed,
                TabsCloseFails, DialogAnswered, DialogTimesOut, Forget, context
      <4>3. CASE call[c].tab \in Tabs
        <5>1. Current(call[c].tab) \in tabs \cup frames \cup {NoTab} BY <4>3, CurrentIsThere
        <5> QED BY <2>6, <5>1
            DEF ToolGoesOn, UploadAgain, OnTarget, Acted, OnPageDone, TabsListed,
                  TraceTaken, FrameEntered, Cancelled, TabsClosed,
                TabsCloseFails, DialogAnswered, DialogTimesOut, Forget, context
      <4> QED BY <4>1, <4>2, <4>3
    <3>3. CASE call[c].tab \in Tabs BY <2>1, <2>3, <3>1, <3>2, <3>3
    <3>4. CASE call[c].tab \notin Tabs
      <4>1. \A f : [active EXCEPT ![call[c].tab] = f] = active BY <3>4
      <4> QED BY <2>1, <2>6, <3>2, <4>1
    <3> QED BY <3>3, <3>4
  <2> QED BY <2>2, <2>5, <2>6 DEF BrowserNext
<1>2. Tracked /\ [BrowserNext]_browserVars => [Live]_browserVars BY <1>1
<1> QED BY <1>2, TrackedAlways, PTL DEF BrowserSpec, EntersOnlyLiveFrames

(* Who answers a dialog goes on answering it, unless it returns or is cancelled. *)
LEMMA AnswersGoOn ==
    ASSUME Tracked, NEW c \in Callers, ToolGoesOn(c) \/ \E t \in Tabs : ToolBegins(c, t)
    PROVE  /\ \A d \in Callers \ {c} : call'[d] = call[d]
           /\ call[c].tool = "dialog_answer" => DialogAnswered(c) \/ Cancelled(c)
    BY DEF ToolGoesOn, UploadAgain, OnTarget, Acted, OnPageDone, TabsListed,
                  TraceTaken, FrameEntered, Cancelled, TabsClosed,
           TabsCloseFails, DialogAnswered, DialogTimesOut, Return, Wait, NoCall, Begin,
           ToolBegins, OnTarget, Interact, Point, WaitFor, AssertTarget, AssertPage, Screenshot,
                  Upload, OnPage, ReadLog,
                  TabsList, TakeTrace, FrameEnter, FrameEnterById, FrameExit,
           TabsSelect, TabsClose, DialogHandle, Tracked, Calls

LEMMA ListeningStep == Tracked /\ Listening /\ [BrowserNext]_browserVars => Listening'
<1> SUFFICES ASSUME Tracked, Listening, [BrowserNext]_browserVars PROVE Listening'
    OBVIOUS
<1> USE FramesAssumption DEF Listening, DialogsHangOnlyAfterGivingUp
<1>1. CASE UNCHANGED <<call, dialog, stale, gaveUp>> BY <1>1
<1>2. CASE UNCHANGED browserVars BY <1>1, <1>2 DEF browserVars
<1>3. CASE PageEvents
  <2>1. ASSUME NEW t \in Tabs, RegisterPage(t) PROVE Listening'
      BY <1>1, <2>1 DEF RegisterPage, talking
  <2>2. ASSUME NEW t \in Tabs, PageClosed(t) PROVE Listening'
      BY <2>2 DEF PageClosed, DropTabs
  <2>3. ASSUME NEW t \in Tabs, DialogOpens(t) PROVE Listening'
    <3>1. CASE Waiting(t) = {} /\ t \notin stale BY <1>1, <2>3, <3>1 DEF DialogOpens
    <3>2. CASE ~(Waiting(t) = {} /\ t \notin stale)
      <4>1. /\ dialog' = dialog \cup {t} /\ stale' = stale \ {t} /\ gaveUp' = gaveUp
            /\ \A c \in Callers : call[c].tool = "dialog_answer" => call'[c] = call[c]
            /\ \A c \in Waiting(t) : call'[c].tool = "dialog_answer" /\ call'[c].tab = t
          BY <2>3, <3>2 DEF DialogOpens, Waiting
      <4>2. Waiting(t) \subseteq Callers BY DEF Waiting
      <4>3. t \in gaveUp' \/ \E c \in Callers :
                               call'[c].tool = "dialog_answer" /\ call'[c].tab = t
          BY <3>2, <4>1, <4>2
      <4> QED BY <4>1, <4>3
    <3> QED BY <3>1, <3>2
  <2>4. ASSUME NEW f \in Frames, FrameAttached(f) PROVE Listening'
      BY <1>1, <2>4 DEF FrameAttached, talking
  <2>5. ASSUME NEW f \in Frames, FrameDetached(f) PROVE Listening'
      BY <1>1, <2>5 DEF FrameDetached, talking
  <2>6. CASE ContextClosed BY <2>6 DEF ContextClosed, DropTabs
  <2> QED BY <1>3, <2>1, <2>2, <2>3, <2>4, <2>5, <2>6 DEF PageEvents
<1>4. ASSUME NEW c \in Callers, NEW t \in Tabs, ToolBegins(c, t) PROVE Listening'
  <2>1. UNCHANGED <<dialog, stale, gaveUp>>
      BY <1>4 DEF ToolBegins, OnTarget, Interact, Point, WaitFor, AssertTarget, AssertPage, Screenshot,
                  Upload, OnPage, ReadLog,
                  TabsList, TakeTrace, FrameEnter, FrameEnterById, FrameExit,
                  TabsSelect, TabsClose, DialogHandle, talking
  <2>2. call[c].tool # "dialog_answer"
      BY <1>4 DEF ToolBegins, OnTarget, Interact, Point, WaitFor, AssertTarget, AssertPage, Screenshot,
                  Upload, OnPage, ReadLog,
                  TabsList, TakeTrace, FrameEnter, FrameEnterById, FrameExit,
                  TabsSelect, TabsClose, DialogHandle, Begin, NoCall
  <2> QED BY <1>4, <2>1, <2>2, AnswersGoOn
<1>5. ASSUME NEW c \in Callers, ToolGoesOn(c) PROVE Listening'
  <2>1. CASE DialogAnswered(c) BY <1>5, <2>1, AnswersGoOn DEF DialogAnswered
  <2>3. CASE Cancelled(c)
    <3>1. CASE call[c].tool = "dialog_answer"
        BY <1>5, <2>3, <3>1, AnswersGoOn DEF Cancelled
    <3>2. CASE call[c].tool # "dialog_answer"
      <4>1. dialog' = dialog /\ stale' \subseteq gaveUp' /\ gaveUp \subseteq gaveUp'
          BY <2>3, <3>2 DEF Cancelled
      <4> QED BY <1>5, <3>2, <4>1, AnswersGoOn
    <3> QED BY <3>1, <3>2
  <2>2. CASE ~DialogAnswered(c) /\ ~Cancelled(c)
    <3>1. /\ dialog' = dialog
          /\ stale' \subseteq gaveUp' /\ gaveUp \subseteq gaveUp'
        BY <1>5, <2>2 DEF ToolGoesOn, UploadAgain, OnTarget, Acted, OnPageDone, TabsListed,
                  TraceTaken, FrameEntered, Cancelled,
                          TabsClosed, TabsCloseFails, DialogTimesOut, talking
    <3> QED BY <1>5, <2>2, <3>1, AnswersGoOn
  <2> QED BY <2>1, <2>2, <2>3
<1> QED BY <1>2, <1>3, <1>4, <1>5 DEF BrowserNext

(* A dialog that stays open without anybody answering it is on a tab where  *)
(* a dialog_handle timed out, or was cancelled with the replay it was in.   *)
THEOREM DialogsAreAnswered == BrowserSpec => []DialogsHangOnlyAfterGivingUp
<1>1. BrowserInit => Listening
    BY DEF BrowserInit, Listening, DialogsHangOnlyAfterGivingUp
<1>2. Tracked /\ Listening /\ [BrowserNext]_browserVars => Listening' BY ListeningStep
<1>3. Listening => DialogsHangOnlyAfterGivingUp BY DEF Listening
<1> QED BY <1>1, <1>2, <1>3, TrackedAlways, PTL DEF BrowserSpec

-----------------------------------------------------------------------------
(*****************************************************************************)
(* StepContext, for every set of steps and addresses, and any number of      *)
(* attempts, processes and changes of the page.                              *)
(*****************************************************************************)

\* A fingerprint, and the attempt at hand, are the records they are built as.
Formed(f) == f = [route |-> f.route, frames |-> f.frames, modal |-> f.modal,
                  scope |-> f.scope]

FormedLook(l) ==
    /\ l = [stage |-> l.stage, step |-> l.step, try |-> l.try, stale |-> l.stale,
            seen |-> l.seen]
    /\ Formed(l.seen)

\* The ids in a fingerprint are of this browser session or an earlier one.
Dated(f, n) == \A x \in f.frames : x.id[1] \in Int /\ x.id[1] <= n

\* A fingerprint taken in session n has the id of that session's main frame.
Has(f, n) == \E x \in f.frames : x.id = <<n, 0>>

Looking == look.stage \notin {"idle", "failed"}

Shapes ==
    /\ session \in Int
    /\ record \in [StepsOfRun -> {record[s] : s \in StepsOfRun}]
    /\ \A s \in StepsOfRun : Formed(record[s]) /\ Dated(record[s], session)
    /\ FormedLook(look) /\ Dated(look.seen, session)
    /\ Looking => look.step \in StepsOfRun

\* What was compared is of this session.
SeenNow == look.stage \in {"modal", "scope", "decide", "reuse", "capture", "capturing"}
           => Has(look.seen, session)

\* A record of this session stands for a snapshot that was begun, unless that is
\* the very next thing to do, or the tab went before it was done.
RecordsBegun ==
    \A s \in StepsOfRun : Has(record[s], session) =>
        \/ <<s, record[s]>> \in begun
        \/ look.stage = "capture" /\ look.step = s /\ look.seen = record[s]
        \/ page.gone /\ look.stage \in {"route", "failed"}

ContextInvariant == Shapes /\ SeenNow /\ RecordsBegun /\ ReuseSeenHere

-----------------------------------------------------------------------------

LEMMA EmptyFormed == Formed(NoRecord) /\ FormedLook(NoLook)
    BY DEF Formed, FormedLook, NoRecord, NoLook

LEMMA EmptyDated ==
    ASSUME NEW n
    PROVE  Dated(NoRecord, n) /\ ~Has(NoRecord, n)
    BY DEF Dated, Has, NoRecord

(* A fingerprint that matches another is the same fingerprint: nothing but  *)
(* what is compared is in it.                                               *)
LEMMA MatchIsEquality ==
    ASSUME NEW f, NEW g, Formed(f), Formed(g), Matches(f, g)
    PROVE  f = g
    BY Zenon DEF Formed, Matches

LEMMA FrameHashIsNew ==
    ASSUME NEW f, f.frames = FrameHash, session \in Int
    PROVE  Dated(f, session) /\ Has(f, session)
<1>1. \A x \in FrameHash : x.id \in {<<session, 0>>, <<session, page.child>>}
    BY DEF FrameHash
<1>2. \A x \in FrameHash : x.id[1] = session BY <1>1
<1> DEFINE main == [id |-> <<session, 0>>, url |-> page.url]
<1>3. main \in FrameHash /\ main.id = <<session, 0>> BY DEF FrameHash
<1> QED BY <1>2, <1>3 DEF Dated, Has

(* An attempt that raised leaves a fresh one, or the end of the step.       *)
LEMMA AttemptFailsShape ==
    ASSUME FormedLook(look), NEW gone, AttemptFails(gone)
    PROVE  /\ FormedLook(look') /\ Dated(look'.seen, session)
           /\ look'.stage \in {"route", "failed"}
           /\ look'.stage = "route" => look'.step = look.step
<1>1. CASE look.try < MaxTries
  <2>1. look' = [look EXCEPT !.stage = "route", !.try = @ + 1, !.stale = gone,
                             !.seen = NoRecord]
      BY <1>1 DEF AttemptFails
  <2>2. FormedLook(look') BY <2>1, EmptyFormed DEF FormedLook
  <2>3. look'.seen = NoRecord /\ look'.stage = "route" /\ look'.step = look.step
      BY <2>1 DEF FormedLook
  <2> QED BY <2>2, <2>3, EmptyDated
<1>2. CASE ~(look.try < MaxTries)
  <2>1. look' = [NoLook EXCEPT !.stage = "failed"] BY <1>2 DEF AttemptFails
  <2>2. look'.seen = NoRecord /\ look'.stage = "failed" BY <2>1 DEF NoLook
  <2>3. FormedLook(look') BY <2>1, EmptyFormed DEF FormedLook
  <2> QED BY <2>2, <2>3, EmptyDated
<1> QED BY <1>1, <1>2

(* Where only the attempt moves, and not to a decision, what is known of    *)
(* the records stays known.                                                 *)
LEMMA AttemptOnly ==
    ASSUME ContextInvariant, UNCHANGED <<session, record, begun>>,
           page.gone => page'.gone,
           FormedLook(look'), Dated(look'.seen, session),
           look'.stage \notin {"idle", "failed"} => look'.step \in StepsOfRun,
           SeenNow', look'.stage # "reuse",
           \/ look.stage # "capture" /\ (page.gone /\ look.stage \in {"route", "failed"}
                                         => look'.stage \in {"route", "failed"})
           \/ look.stage = "capture" /\ page'.gone /\ look'.stage \in {"route", "failed"}
    PROVE  ContextInvariant'
<1>1. Shapes' BY DEF ContextInvariant, Shapes, Looking
<1>2. RecordsBegun' BY DEF ContextInvariant, RecordsBegun
<1>3. ReuseSeenHere' BY DEF ReuseSeenHere
<1> QED BY <1>1, <1>2, <1>3 DEF ContextInvariant

LEMMA ContextStep ==
    ContextInvariant /\ [ContextNext]_contextVars => ContextInvariant'
<1> SUFFICES ASSUME ContextInvariant, [ContextNext]_contextVars PROVE ContextInvariant'
    OBVIOUS
<1> USE ContextAssumption
<1>0. FormedLook(look) /\ Dated(look.seen, session) /\ (Looking => look.step \in StepsOfRun)
    BY DEF ContextInvariant, Shapes
<1>1. CASE UNCHANGED contextVars
    BY <1>1 DEF contextVars, ContextInvariant, Shapes, Looking, SeenNow, RecordsBegun,
                ReuseSeenHere
<1>2. CASE PageChanges
  <2>1. ~page.gone /\ UNCHANGED <<session, record, begun, look>> BY <1>2 DEF PageChanges
  <2> QED BY <2>1
      DEF ContextInvariant, Shapes, Looking, SeenNow, RecordsBegun, ReuseSeenHere
<1>3. CASE EndSession
  <2>1. /\ session' = session + 1 /\ session \in Int /\ UNCHANGED record /\ look' = NoLook
        /\ look'.stage = "idle" /\ look'.seen = NoRecord
      BY <1>3 DEF EndSession, NoLook, ContextInvariant, Shapes
  <2>2. ASSUME NEW s \in StepsOfRun
        PROVE  Dated(record[s], session') /\ ~Has(record[s], session')
    <3>1. Dated(record[s], session) BY DEF ContextInvariant, Shapes
    <3>2. \A x \in record[s].frames : x.id[1] \in Int /\ x.id[1] < session'
        BY <2>1, <3>1 DEF Dated
    <3>3. Dated(record[s], session') BY <2>1, <3>2 DEF Dated
    <3>4. ASSUME NEW x \in record[s].frames, x.id = <<session', 0>> PROVE FALSE
      <4>1. x.id[1] = session' BY <3>4
      <4> QED BY <2>1, <3>2, <4>1
    <3> QED BY <3>3, <3>4 DEF Has
  <2>3. Shapes'
      BY <2>1, <2>2, EmptyFormed, EmptyDated DEF ContextInvariant, Shapes, Looking
  <2>4. SeenNow' /\ RecordsBegun' /\ ReuseSeenHere'
      BY <2>1, <2>2 DEF SeenNow, RecordsBegun, ReuseSeenHere
  <2> QED BY <2>3, <2>4 DEF ContextInvariant
<1>4. CASE TabIsGone
  <2>1. /\ page.gone /\ UNCHANGED <<session, page, record, begun>>
        /\ look.step \in StepsOfRun
        /\ look.stage \in {"route", "modal", "scope", "capture"}
      BY <1>0, <1>4 DEF TabIsGone, Looking
  <2>2. /\ FormedLook(look') /\ Dated(look'.seen, session)
        /\ look'.stage \in {"route", "failed"}
        /\ look'.stage = "route" => look'.step = look.step
      BY <1>0, <1>4, AttemptFailsShape DEF TabIsGone
  <2>3. SeenNow' BY <2>2 DEF SeenNow
  <2> QED BY <2>1, <2>2, <2>3, AttemptOnly
<1>5. CASE LookAtRoute
  <2>1. ~page.gone /\ look.stage = "route" /\ look.step \in StepsOfRun
        /\ UNCHANGED <<session, page, record, begun>>
      BY <1>0, <1>5 DEF LookAtRoute, Looking
  <2>2. /\ look'.stage = "modal" /\ look'.step = look.step
        /\ look'.seen.frames = FrameHash
      BY <1>0, <1>5 DEF LookAtRoute, FormedLook, Formed
  <2>3. FormedLook(look') BY <1>0, <1>5 DEF LookAtRoute, FormedLook, Formed
  <2>4. session \in Int BY DEF ContextInvariant, Shapes
  <2>5. Dated(look'.seen, session) /\ Has(look'.seen, session)
      BY <2>2, <2>4, FrameHashIsNew
  <2>6. SeenNow' BY <2>1, <2>5 DEF SeenNow
  <2> QED BY <2>1, <2>2, <2>3, <2>5, <2>6, AttemptOnly
<1>6. CASE LookAtModal
  <2>1. ~page.gone /\ look.stage = "modal" /\ look.step \in StepsOfRun
        /\ UNCHANGED <<session, page, record, begun>>
      BY <1>0, <1>6 DEF LookAtModal, Looking
  <2>2. /\ look'.stage = "scope" /\ look'.step = look.step
        /\ look'.seen.frames = look.seen.frames
      BY <1>0, <1>6 DEF LookAtModal, FormedLook, Formed
  <2>3. FormedLook(look') BY <1>0, <1>6 DEF LookAtModal, FormedLook, Formed
  <2>4. Dated(look'.seen, session) BY <1>0, <2>2 DEF Dated
  <2>5. SeenNow' BY <2>1, <2>2 DEF ContextInvariant, SeenNow, Has
  <2> QED BY <2>1, <2>2, <2>3, <2>4, <2>5, AttemptOnly
<1>7. CASE LookAtScope
  <2>1. look.stage = "scope" /\ look.step \in StepsOfRun
        /\ UNCHANGED <<session, page, record, begun>>
      BY <1>0, <1>7 DEF LookAtScope, Looking
  <2>2. /\ look'.stage = "decide" /\ look'.step = look.step
        /\ look'.seen.frames = look.seen.frames
      BY <1>0, <1>7 DEF LookAtScope, FormedLook, Formed
  <2>3. FormedLook(look') BY <1>0, <1>7 DEF LookAtScope, FormedLook, Formed
  <2>4. Dated(look'.seen, session) BY <1>0, <2>2 DEF Dated
  <2>5. SeenNow' BY <2>1, <2>2 DEF ContextInvariant, SeenNow, Has
  <2> QED BY <2>1, <2>2, <2>3, <2>4, <2>5, AttemptOnly
<1>8. CASE Decide
  <2> DEFINE s == look.step
             last == record[s]
             same == last # NoRecord /\ ~look.stale /\ Matches(look.seen, last)
  <2>1. /\ look.stage = "decide" /\ s \in StepsOfRun
        /\ UNCHANGED <<session, page, begun>>
        /\ record' = [record EXCEPT ![s] = look.seen]
        /\ look' = [look EXCEPT !.stage = IF same THEN "reuse" ELSE "capture"]
      BY <1>0, <1>8 DEF Decide, SaveRecord, Looking
  <2>2. look'.seen = look.seen /\ look'.step = s /\ FormedLook(look')
      BY <1>0, <2>1 DEF FormedLook
  <2>3. look'.stage = "capture" \/ (look'.stage = "reuse" /\ Matches(look.seen, last))
      BY <1>0, <2>1 DEF FormedLook
  <2>4. Has(look.seen, session) BY <2>1 DEF ContextInvariant, SeenNow
  <2>5. /\ record'[s] = look.seen /\ \A r \in StepsOfRun \ {s} : record'[r] = record[r]
        /\ record' \in [StepsOfRun -> {record'[r] : r \in StepsOfRun}]
      BY <2>1 DEF ContextInvariant, Shapes
  <2>6. Shapes'
    <3>1. \A r \in StepsOfRun : Formed(record'[r]) /\ Dated(record'[r], session)
        BY <1>0, <2>1, <2>5 DEF ContextInvariant, Shapes, FormedLook
    <3> QED BY <1>0, <2>1, <2>2, <2>5, <3>1 DEF ContextInvariant, Shapes, Looking
  <2>7. SeenNow' BY <2>1, <2>2, <2>4 DEF SeenNow
  <2>8. look'.stage = "reuse" => <<s, look.seen>> \in begun
    <3>1. SUFFICES ASSUME look'.stage = "reuse" PROVE <<s, look.seen>> \in begun
        OBVIOUS
    <3>2. Formed(look.seen) /\ Formed(last)
        BY <1>0, <2>1 DEF ContextInvariant, Shapes, FormedLook
    <3>3. look.seen = last BY <2>3, <3>1, <3>2, MatchIsEquality
    <3> QED BY <2>1, <2>4, <3>3 DEF ContextInvariant, RecordsBegun
  <2>9. RecordsBegun'
    <3>1. ASSUME NEW r \in StepsOfRun \ {s}, Has(record[r], session)
          PROVE  <<r, record[r]>> \in begun
        BY <2>1, <3>1 DEF ContextInvariant, RecordsBegun
    <3> QED BY <2>1, <2>2, <2>3, <2>5, <2>8, <3>1 DEF RecordsBegun
  <2>10. ReuseSeenHere' BY <2>1, <2>2, <2>8 DEF ReuseSeenHere
  <2> QED BY <2>6, <2>7, <2>9, <2>10 DEF ContextInvariant
<1>9. CASE CaptureBegins
  <2>1. /\ look.stage = "capture" /\ ~page.gone /\ look.step \in StepsOfRun
        /\ UNCHANGED <<session, page, record>>
        /\ begun' = begun \cup {<<look.step, look.seen>>}
        /\ look' = [look EXCEPT !.stage = "capturing"]
      BY <1>0, <1>9 DEF CaptureBegins, Looking
  <2>2. look'.seen = look.seen /\ look'.step = look.step /\ FormedLook(look')
        /\ look'.stage = "capturing"
      BY <1>0, <2>1 DEF FormedLook
  <2>3. Shapes' BY <1>0, <2>1, <2>2 DEF ContextInvariant, Shapes, Looking
  <2>4. SeenNow' BY <2>1, <2>2 DEF ContextInvariant, SeenNow
  <2>5. RecordsBegun' BY <2>1, <2>2 DEF ContextInvariant, RecordsBegun
  <2>6. ReuseSeenHere' BY <2>2 DEF ReuseSeenHere
  <2> QED BY <2>3, <2>4, <2>5, <2>6 DEF ContextInvariant
<1>10. CASE Captured
  <2>1. /\ look.stage = "capturing" /\ look.step \in StepsOfRun
        /\ UNCHANGED <<session, page, record, begun>>
        /\ look' = [look EXCEPT !.stage = "act"]
      BY <1>0, <1>10 DEF Captured, Looking
  <2>2. look'.seen = look.seen /\ look'.step = look.step /\ FormedLook(look')
        /\ look'.stage = "act"
      BY <1>0, <2>1 DEF FormedLook
  <2>3. SeenNow' BY <2>2 DEF SeenNow
  <2> QED BY <1>0, <2>1, <2>2, <2>3, AttemptOnly
<1>11. CASE CaptureBreaks \/ ActFails
  <2>1. /\ look.stage \in {"capturing", "reuse", "act"} /\ look.step \in StepsOfRun
        /\ UNCHANGED <<session, page, record, begun>>
      BY <1>0, <1>11 DEF CaptureBreaks, ActFails, Looking
  <2>2. /\ FormedLook(look') /\ Dated(look'.seen, session)
        /\ look'.stage \in {"route", "failed"}
        /\ look'.stage = "route" => look'.step = look.step
      BY <1>0, <1>11, AttemptFailsShape DEF CaptureBreaks, ActFails
  <2>3. SeenNow' BY <2>2 DEF SeenNow
  <2> QED BY <2>1, <2>2, <2>3, AttemptOnly
<1>12. CASE ActPasses
  <2>1. /\ look.stage \in {"reuse", "act"} /\ look' = NoLook
        /\ UNCHANGED <<session, page, record, begun>>
      BY <1>12 DEF ActPasses
  <2>2. look'.stage = "idle" /\ look'.seen = NoRecord BY <2>1 DEF NoLook
  <2>3. SeenNow' BY <2>2 DEF SeenNow
  <2> QED BY <2>1, <2>2, <2>3, EmptyFormed, EmptyDated, AttemptOnly
<1>13. ASSUME NEW s \in StepsOfRun, BeginStep(s) PROVE ContextInvariant'
  <2>1. /\ look.stage = "idle" /\ UNCHANGED <<session, page, record, begun>>
        /\ look' = [NoLook EXCEPT !.stage = "route", !.step = s, !.try = 1]
      BY <1>13 DEF BeginStep
  <2>2. look'.stage = "route" /\ look'.step = s /\ look'.seen = NoRecord
      BY <2>1 DEF NoLook
  <2>3. FormedLook(look') BY <2>1, EmptyFormed DEF FormedLook
  <2>4. SeenNow' BY <2>2 DEF SeenNow
  <2> QED BY <2>1, <2>2, <2>3, <2>4, EmptyDated, AttemptOnly
<1> QED BY <1>1, <1>2, <1>3, <1>4, <1>5, <1>6, <1>7, <1>8, <1>9, <1>10, <1>11, <1>12,
           <1>13 DEF ContextNext

(* The old context is used only where this browser session began a          *)
(* snapshot of what it sees: the id of the session's main frame is in every *)
(* fingerprint, so a record that matches was made in this session, and a    *)
(* record of this session was followed by its snapshot unless the tab is    *)
(* gone, when nothing matches any more.                                     *)
THEOREM ReuseIsSeenHere == ContextSpec => []ReuseSeenHere
<1>1. ContextInit => ContextInvariant
  <2> SUFFICES ASSUME ContextInit PROVE ContextInvariant OBVIOUS
  <2>1. /\ session = 1 /\ record = [s \in StepsOfRun |-> NoRecord] /\ look = NoLook
        /\ look.stage = "idle" /\ look.seen = NoRecord
      BY DEF ContextInit, NoLook
  <2>2. \A s \in StepsOfRun : record[s] = NoRecord BY <2>1
  <2>3. Shapes BY <2>1, <2>2, EmptyFormed, EmptyDated DEF Shapes, Looking
  <2>4. SeenNow /\ RecordsBegun /\ ReuseSeenHere
      BY <2>1, <2>2, EmptyDated DEF SeenNow, RecordsBegun, ReuseSeenHere
  <2> QED BY <2>3, <2>4 DEF ContextInvariant
<1>2. ContextInvariant => ReuseSeenHere BY DEF ContextInvariant
<1> QED BY <1>1, <1>2, ContextStep, PTL DEF ContextSpec

-----------------------------------------------------------------------------
(*****************************************************************************)
(* LocatorRank, for every description of an element and for pages of every   *)
(* size, however they change: the weights of the confidence keep a selector  *)
(* that needs nth=0 behind one that matches a single element, and every      *)
(* guess of the recorder below the threshold of the export.                  *)
(*****************************************************************************)

\* A candidate with what is known of it.
Counted(c) ==
    /\ DOMAIN c = {"row", "total", "at", "visible", "actionable", "found"}
    /\ c.total \in Nat \ {0} /\ c.at \in Nat /\ c.visible \in Nat

\* As it is probed: no more is shown than was looked at.
ProbeOK(p) ==
    /\ Counted(p) /\ p.visible <= p.at /\ p.at <= p.total
    /\ stage = "forced" => p.visible = 0

\* As it is ranked: what was found is what was counted.
Usable(c) ==
    /\ Counted(c) /\ c.found \in Finds
    /\ c.visible <= c.total
    /\ c.found = "one" => c.visible = 1
    /\ c.found = "first" => c.visible > 1
    /\ IsForced(c) => c.visible = 0

MadeOK ==
    \/ made = NoStep
    \/ /\ made.kind = "ranked" /\ made.primary \in valid
       /\ made.pass = "rank" => First(made.primary) /\ (\A c \in valid : ~IsForced(c))
       /\ builder = "recorder" => made.confidence = Confidence(made.primary)
    \/ made.kind = "xpath" /\ made.confidence = XPathTrust(builder)
    \/ made.kind = "dropped"

RankInv ==
    /\ builder \in {"recorder", "panel"}
    /\ stage \in Sweeps \cup {"nothing", "done"}
    /\ onPage \in [Candidates -> Contents] /\ todo \subseteq Candidates
    /\ probe = NoProbe \/ ProbeOK(probe)
    /\ \A c \in valid : Usable(c)
    /\ stage = "rank" => \A c \in valid : ~IsForced(c)
    /\ made # NoStep => stage = "done"
    /\ MadeOK

-----------------------------------------------------------------------------
(* The weights.                                                            *)

LEMMA UniquenessBounds ==
    ASSUME NEW t, t \in Nat, t # 0
    PROVE  /\ Uniqueness(t) \in Int /\ 960 <= Uniqueness(t) /\ Uniqueness(t) <= 3200
           /\ t = 1 => Uniqueness(t) = 3200
           /\ t # 1 => Uniqueness(t) <= 2176
BY DEF Uniqueness

LEMMA ActionabilityBounds ==
    ASSUME NEW v, NEW a, v \in Nat
    PROVE  /\ Actionability(v, a) \in Int
           /\ 240 <= Actionability(v, a) /\ Actionability(v, a) <= 2400
           /\ v = 0 => Actionability(v, a) <= 480
           /\ v = 1 => Actionability(v, a) >= 2040
           /\ v > 1 => Actionability(v, a) <= 1560
BY DEF Actionability

LEMMA StabilityBounds ==
    ASSUME NEW s
    PROVE  Stability(s) \in Int /\ 900 <= Stability(s) /\ Stability(s) <= 1920
BY DEF Stability, StableBy

LEMMA Found ==
    ASSUME NEW c, Usable(c)
    PROVE  /\ c.total \in Nat \ {0} /\ c.visible \in Nat /\ c.visible <= c.total
           /\ IsForced(c) => c.visible = 0
           /\ ~IsForced(c) => c.visible >= 1 /\ (UsedFirst(c) <=> c.visible > 1)
<1>1. c.total \in Nat \ {0} /\ c.visible \in Nat /\ c.visible <= c.total
  BY DEF Usable, Counted
<1>2. IsForced(c) => c.visible = 0
  BY DEF Usable
<1>3. ASSUME ~IsForced(c) PROVE c.visible >= 1 /\ (UsedFirst(c) <=> c.visible > 1)
  <2>1. c.found = "one" \/ c.found = "first"
    BY <1>3 DEF Usable, Finds, IsForced
  <2>2. CASE c.found = "one"
    <3>1. c.visible = 1 /\ ~UsedFirst(c)
      BY <2>2 DEF Usable, UsedFirst
    <3> QED
      BY <3>1
  <2>3. CASE c.found = "first"
    <3>1. c.visible > 1 /\ UsedFirst(c)
      BY <2>3 DEF Usable, UsedFirst
    <3> QED
      BY <3>1, <1>1
  <2> QED
    BY <2>1, <2>2, <2>3
<1> QED
  BY <1>1, <1>2, <1>3

\* A candidate that matched one element scores at least 7340, one of several at
\* most 6256, a forced one at most 6000.
LEMMA Scores ==
    ASSUME NEW c, Usable(c)
    PROVE  /\ Confidence(c) \in Int
           /\ ~IsForced(c) /\ c.total = 1 => Confidence(c) >= 7340
           /\ ~IsForced(c) /\ UsedFirst(c) => Confidence(c) <= 6256
           /\ IsForced(c) => Confidence(c) <= 6000
<1> DEFINE u == Uniqueness(c.total)
           v == Actionability(c.visible, c.actionable)
           s == Stability(c.row.strategy)
<1>1. c.total \in Nat /\ c.total # 0 /\ c.visible \in Nat
  BY Found
<1>2. /\ u \in Int /\ 960 <= u /\ u <= 3200 /\ (c.total = 1 => u = 3200) /\ (c.total # 1 => u <= 2176)
  BY <1>1, UniquenessBounds
<1>3. /\ v \in Int /\ 240 <= v /\ v <= 2400 /\ (c.visible = 0 => v <= 480)
      /\ (c.visible = 1 => v >= 2040) /\ (c.visible > 1 => v <= 1560)
  BY <1>1, ActionabilityBounds
<1>4. s \in Int /\ 900 <= s /\ s <= 1920
  BY StabilityBounds
<1>5. Confidence(c) = u + v + s + 1200 - (IF IsForced(c) THEN 800 ELSE 0)
                                       - (IF UsedFirst(c) THEN 600 ELSE 0)
  BY DEF Confidence
<1>6. /\ c.visible <= c.total
      /\ IsForced(c) => c.visible = 0
      /\ ~IsForced(c) => c.visible >= 1 /\ (UsedFirst(c) <=> c.visible > 1)
  BY Found
<1> HIDE DEF u, v, s
<1>7. Confidence(c) \in Int
  BY <1>1, <1>2, <1>3, <1>4, <1>5
<1>8. ASSUME ~IsForced(c), c.total = 1 PROVE Confidence(c) >= 7340
  BY <1>1, <1>2, <1>3, <1>4, <1>5, <1>6, <1>8
<1>9. ASSUME ~IsForced(c), UsedFirst(c) PROVE Confidence(c) <= 6256
  BY <1>1, <1>2, <1>3, <1>4, <1>5, <1>6, <1>9
<1>10. ASSUME IsForced(c) PROVE Confidence(c) <= 6000
  BY <1>1, <1>2, <1>3, <1>4, <1>5, <1>6, <1>10
<1> QED
  BY <1>7, <1>8, <1>9, <1>10

-----------------------------------------------------------------------------
LEMMA RankInitial == RankInit => RankInv
BY DEF RankInit, RankInv, MadeOK, Sweeps

\* The steps of a probe, and what they leave in place.
LEMMA ProbeSteps ==
    ASSUME RankInv, Count \/ LookAtElement \/ Probed \/ Forced
    PROVE  RankInv'
<1> USE RankAssumption DEF RankAssumption, Sweeps
<1>1. /\ builder' = builder /\ stage' = stage /\ made' = made /\ made = NoStep
      /\ onPage' = onPage /\ Candidates' = Candidates
  BY DEF RankInv, Count, LookAtElement, Probed, Forced, Goes, Candidates
<1>2. MadeOK' /\ (made' # NoStep => stage' = "done")
  BY <1>1 DEF MadeOK
<1>3. CASE Count
  <2>1. PICK row \in todo :
          /\ todo' = todo \ {row}
          /\ LET total == Len(onPage[row])
             IN  Goes(IF total = 0 THEN NoProbe
                      ELSE [NoProbe EXCEPT !.row = row, !.total = total], valid)
    BY <1>3 DEF Count
  <2>2. row \in Rows /\ onPage[row] \in Seq(Elements)
    BY DEF RankInv, Candidates
  <2>3. Len(onPage[row]) \in Nat
    BY <2>2
  <2>4. valid' = valid /\ todo' \subseteq Candidates
    BY <2>1 DEF Goes, RankInv
  <2>5. probe' = NoProbe \/ ProbeOK(probe)'
    <3> DEFINE total == Len(onPage[row])
    <3>1. CASE total = 0
      BY <2>1, <3>1 DEF Goes
    <3>2. CASE total # 0
      <4>1. probe' = [row |-> row, total |-> total, at |-> 0, visible |-> 0,
                      actionable |-> FALSE, found |-> "unknown"]
        BY <2>1, <3>2 DEF Goes, NoProbe
      <4>2. total \in Nat \ {0}
        BY <2>3, <3>2
      <4> HIDE DEF total
      <4> QED
        BY <4>1, <4>2, <1>1 DEF ProbeOK, Counted
    <3> QED
      BY <3>1, <3>2
  <2> QED
    BY <1>1, <1>2, <2>4, <2>5 DEF RankInv
<1>4. CASE LookAtElement
  <2>1. ProbeOK(probe) /\ stage # "forced"
    BY <1>4 DEF LookAtElement, RankInv
  <2> DEFINE one == IF VisibleNow(probe.at + 1) THEN 1 ELSE 0
  <2>2. probe' = [probe EXCEPT !.at = @ + 1, !.visible = @ + one]
        /\ valid' = valid /\ todo' = todo /\ probe.at < probe.total
    BY <1>4 DEF LookAtElement, Goes
  <2>3. one \in 0..1
    OBVIOUS
  <2> HIDE DEF one
  <2>4. /\ DOMAIN probe' = DOMAIN probe
        /\ probe'.at = probe.at + 1 /\ probe'.visible = probe.visible + one
        /\ probe'.total = probe.total
    BY <2>1, <2>2 DEF ProbeOK, Counted
  <2>5. ProbeOK(probe)'
    BY <2>1, <2>2, <2>3, <2>4, <1>1 DEF ProbeOK, Counted
  <2> QED
    BY <1>1, <1>2, <2>2, <2>5 DEF RankInv
<1>5. CASE Probed
  <2>1. ProbeOK(probe) /\ stage # "forced"
    BY <1>5 DEF Probed, RankInv
  <2>2. probe' = NoProbe /\ todo' = todo
    BY <1>5 DEF Probed, Goes
  <2>3. \A c \in valid' : c \in valid \/ (Usable(c) /\ ~IsForced(c))
    <3>1. CASE valid' = valid
      BY <3>1
    <3>2. ASSUME NEW a \in BOOLEAN, probe.visible = 1 \/ probe.visible > 1,
                 valid' = valid \cup {[probe EXCEPT !.at = 0, !.actionable = a,
                            !.found = IF probe.visible = 1 THEN "one" ELSE "first"]}
          PROVE  \A c \in valid' : c \in valid \/ (Usable(c) /\ ~IsForced(c))
      <4> DEFINE c == [probe EXCEPT !.at = 0, !.actionable = a,
                            !.found = IF probe.visible = 1 THEN "one" ELSE "first"]
      <4>1. /\ DOMAIN c = DOMAIN probe /\ c.at = 0
            /\ c.visible = probe.visible /\ c.total = probe.total
            /\ c.found = IF probe.visible = 1 THEN "one" ELSE "first"
        BY <2>1 DEF ProbeOK, Counted
      <4> HIDE DEF c
      <4>2. Usable(c) /\ ~IsForced(c)
        BY <2>1, <3>2, <4>1 DEF ProbeOK, Usable, Counted, IsForced, Finds
      <4> QED
        BY <3>2, <4>2 DEF c
    <3> QED
      BY <1>5, <3>1, <3>2 DEF Probed, Goes
  <2> QED
    BY <1>1, <1>2, <2>2, <2>3 DEF RankInv
<1>6. CASE Forced
  <2>1. ProbeOK(probe) /\ stage = "forced" /\ probe' = NoProbe /\ todo' = {}
    BY <1>6 DEF Forced, RankInv, Goes
  <2>2. PICK a \in BOOLEAN :
          valid' = {[probe EXCEPT !.actionable = a, !.found =
                        IF probe.total = 1 THEN "forced" ELSE "forced first"]}
    BY <1>6 DEF Forced, Goes
  <2> DEFINE c == [probe EXCEPT !.actionable = a, !.found =
                        IF probe.total = 1 THEN "forced" ELSE "forced first"]
  <2>3. /\ DOMAIN c = DOMAIN probe /\ c.at = probe.at
        /\ c.visible = probe.visible /\ c.total = probe.total
        /\ c.found = IF probe.total = 1 THEN "forced" ELSE "forced first"
    BY <2>1 DEF ProbeOK, Counted
  <2>4. valid' = {c}
    BY <2>2
  <2> HIDE DEF c
  <2>5. Usable(c)
    <3>1. Counted(probe) /\ probe.visible = 0 /\ probe.total \in Nat
      BY <2>1 DEF ProbeOK, Counted
    <3>2. Counted(c)
      BY <2>3, <3>1 DEF Counted
    <3>3. c.visible = 0 /\ c.total \in Nat
      BY <2>3, <3>1
    <3>4. c.found = "forced" \/ c.found = "forced first"
      BY <2>3
    <3> QED
      <4>1. c.visible <= c.total
        BY <3>3
      <4>2. c.found \in Finds /\ c.found # "one" /\ c.found # "first"
        BY <3>4 DEF Finds
      <4> QED
        BY <3>2, <3>3, <4>1, <4>2 DEF Usable
  <2> QED
    BY <1>1, <1>2, <2>1, <2>4, <2>5 DEF RankInv
<1> QED
  BY <1>3, <1>4, <1>5, <1>6

\* The passes and what is made at the end.
LEMMA CallSteps ==
    ASSUME RankInv, PageShifts \/ TryHarder \/ Raises \/ Recorded \/ Emitted \/ FallBack
    PROVE  RankInv'
<1> USE DEF Sweeps
<1>1. target' = target /\ Candidates' = Candidates /\ builder' = builder
  BY DEF PageShifts, TryHarder, Raises, Recorded, Emitted, FallBack, Makes, Candidates
<1>2. CASE PageShifts
  <2>1. onPage' \in [Candidates -> Contents]
    BY <1>2 DEF PageShifts, RankInv
  <2> QED
    BY <1>1, <1>2, <2>1 DEF PageShifts, RankInv, ProbeOK, MadeOK, First, Before
<1>3. CASE TryHarder \/ Raises
  <2>1. /\ made' = made /\ made = NoStep /\ onPage' = onPage /\ probe' = NoProbe
        /\ valid' = {} /\ todo' \subseteq Candidates
        /\ stage' \in Sweeps \cup {"nothing"}
    BY <1>3 DEF TryHarder, Raises, PassEnds, RankInv
  <2> QED
    BY <1>1, <2>1 DEF RankInv, MadeOK
<1>4. CASE Recorded \/ Emitted
  <2>1. PICK c \in valid :
          /\ made'.kind = "ranked" /\ made'.primary = c
          /\ made'.pass = stage
          /\ stage = "rank" => First(c)
          /\ builder = "recorder" => made'.confidence = Confidence(c)
    BY <1>4 DEF Recorded, Emitted, Makes
  <2>2. /\ stage' = "done" /\ valid' = valid /\ onPage' = onPage /\ todo' = todo
        /\ probe' = NoProbe
    BY <1>4 DEF Recorded, Emitted, Makes, PassEnds
  <2>3. First(c)' <=> First(c)
    BY <2>2 DEF First
  <2>4. MadeOK'
    BY <1>1, <2>1, <2>2, <2>3 DEF MadeOK, RankInv
  <2> QED
    BY <1>1, <2>2, <2>4 DEF RankInv
<1>5. CASE FallBack
  <2>1. /\ stage' = "done" /\ valid' = valid /\ onPage' = onPage /\ todo' = todo
        /\ probe' = probe /\ stage = "nothing"
    BY <1>5 DEF FallBack, Makes
  <2>2. MadeOK'
    BY <1>1, <1>5 DEF FallBack, Makes, MadeOK, XPathTrust
  <2>3. probe' = NoProbe \/ ProbeOK(probe)'
    BY <2>1 DEF RankInv, ProbeOK
  <2> QED
    BY <1>1, <2>1, <2>2, <2>3 DEF RankInv
<1> QED
  BY <1>2, <1>3, <1>4, <1>5

LEMMA RankInductive == RankInv /\ [RankNext]_rankVars => RankInv'
<1> SUFFICES ASSUME RankInv, [RankNext]_rankVars PROVE RankInv'
  OBVIOUS
<1>1. CASE UNCHANGED rankVars
  BY <1>1 DEF rankVars, RankInv, ProbeOK, MadeOK, First, Candidates
<1>2. CASE RankNext
  BY <1>2, ProbeSteps, CallSteps DEF RankNext
<1> QED
  BY <1>1, <1>2

(* What RankInv says holds of every behaviour: probes count no more than   *)
(* they looked at, usable candidates are what their flags say, and the step *)
(* made is the first of its ranking.                                       *)
THEOREM RankInvariantHolds == RankSpec => []RankInv
BY RankInitial, RankInductive, PTL DEF RankSpec

LEMMA UniqueFirstFromInv == RankInv => UniqueComesFirst
<1> SUFFICES ASSUME RankInv, made.kind = "ranked", made.pass = "rank",
                    UsedFirst(made.primary), NEW d \in valid, d.total = 1
             PROVE  FALSE
  BY DEF UniqueComesFirst
<1> DEFINE c == made.primary
<1>1. c \in valid /\ First(c) /\ ~IsForced(c) /\ ~IsForced(d)
  BY DEF RankInv, MadeOK, NoStep
<1>2. Usable(c) /\ Usable(d)
  BY <1>1 DEF RankInv
<1>3. c # d
  BY <1>1, <1>2, Found
<1>4. Before(c, d)
  BY <1>1, <1>3 DEF First
<1>5. /\ Confidence(c) \in Int /\ Confidence(d) \in Int
      /\ Confidence(c) <= 6256 /\ Confidence(d) >= 7340
  BY <1>1, <1>2, Scores
<1> QED
  BY <1>4, <1>5 DEF Before

(* The first of a ranking needs nth=0 only if no candidate matched a single *)
(* element (score_candidate, rank_candidates).                             *)
THEOREM UniqueFirst == RankSpec => []UniqueComesFirst
BY RankInvariantHolds, UniqueFirstFromInv, PTL

LEMMA BlockedFromInv == RankInv => GuessesAreBlocked
<1> SUFFICES ASSUME RankInv, builder = "recorder", IsGuess(made)
             PROVE  Gate(made.confidence) = "block"
  BY DEF GuessesAreBlocked
<1>1. CASE made.kind = "ranked" /\ made.primary.found # "one"
  <2> DEFINE c == made.primary
  <2>1. c \in valid /\ c.found # "one" /\ made.confidence = Confidence(c)
    BY <1>1 DEF RankInv, MadeOK, NoStep
  <2>2. Usable(c)
    BY <2>1 DEF RankInv
  <2> HIDE DEF c
  <2>3. IsForced(c) \/ UsedFirst(c)
    BY <2>1, <2>2 DEF Usable, Finds, IsForced, UsedFirst
  <2>4. Confidence(c) \in Int /\ Confidence(c) < 7000
    BY <2>2, <2>3, Scores
  <2> QED
    BY <2>1, <2>4 DEF Gate
<1>2. CASE made.kind = "xpath"
  <2>1. made.confidence = 2000
    BY <1>2 DEF RankInv, MadeOK, NoStep, XPathTrust
  <2> QED
    BY <2>1 DEF Gate
<1> QED
  BY <1>1, <1>2 DEF IsGuess

(* No guess of the recorder passes the confidence gate of the export,      *)
(* whatever the page did while it was ranked.                              *)
THEOREM RecorderGuessesBlocked == RankSpec => []GuessesAreBlocked
BY RankInvariantHolds, BlockedFromInv, PTL

-----------------------------------------------------------------------------
(*****************************************************************************)
(* ForceFix, for every set of selectors, every score, every page and every   *)
(* length of the lists that are probed: what the cascade writes is the       *)
(* strongest of what it found.                                               *)
(*****************************************************************************)

Proposed == [stage : 1..4, sel : Selectors]

\* What is best of the first i candidates.
BestUpTo(list, n, g) ==
    g = [i \in 1..n |->
            IF i > 1 /\ ~Stronger(g[i - 1], list[i]) THEN g[i - 1] ELSE list[i]]

LEMMA BestExists ==
    ASSUME NEW list, NEW len \in Nat
    PROVE  \E g : BestUpTo(list, len, g)
<1> DEFINE Good(n, g) == BestUpTo(list, n, g)
           Bad == {n \in Nat : ~\E g : Good(n, g)}
<1>1. Good(0, [i \in 1..0 |-> <<>>]) BY DEF BestUpTo
<1>2. ASSUME NEW n \in Nat, NEW h, Good(n, h) PROVE \E g : Good(n + 1, g)
  <2> DEFINE e == IF n > 0 /\ ~Stronger(h[n], list[n + 1]) THEN h[n] ELSE list[n + 1]
             g == [i \in 1..(n + 1) |-> IF i = n + 1 THEN e ELSE h[i]]
  <2>1. ASSUME NEW i \in 1..(n + 1)
        PROVE  g[i] = IF i > 1 /\ ~Stronger(g[i - 1], list[i]) THEN g[i - 1] ELSE list[i]
    <3>1. CASE i = n + 1
      <4>1. g[i] = e BY <3>1
      <4>2. n > 0 => g[i - 1] = h[n] BY <3>1
      <4> HIDE DEF g
      <4> QED BY <3>1, <4>1, <4>2
    <3>2. CASE i # n + 1
      <4>1. i \in 1..n /\ g[i] = h[i] /\ (i > 1 => g[i - 1] = h[i - 1]) BY <3>2
      <4>2. h[i] = IF i > 1 /\ ~Stronger(h[i - 1], list[i]) THEN h[i - 1] ELSE list[i]
          BY <4>1, <1>2 DEF BestUpTo
      <4> HIDE DEF g
      <4> QED BY <4>1, <4>2
    <3> QED BY <3>1, <3>2
  <2>2. Good(n + 1, g) BY <2>1 DEF BestUpTo
  <2> QED BY <2>2
<1> HIDE DEF Good
<1>3. Bad = {}
  <2> SUFFICES ASSUME Bad # {} PROVE FALSE OBVIOUS
  <2>0. Bad \in SUBSET Nat OBVIOUS
  <2>1. PICK n \in Bad : \A m \in Bad : n <= m BY <2>0, LeastNat
  <2>2. n # 0 BY <1>1, <2>1
  <2>3. n - 1 \in Nat /\ n - 1 \notin Bad BY <2>0, <2>1, <2>2
  <2>4. PICK h : Good(n - 1, h) BY <2>3
  <2>5. \E g : Good((n - 1) + 1, g) BY <1>2, <2>3, <2>4
  <2> QED BY <2>0, <2>1, <2>5
<1> QED BY <1>3 DEF Good

\* No candidate of a list is stronger than the one that is chosen.
LEMMA BestIsBest ==
    ASSUME NEW list \in Seq(Proposed), list # <<>>
    PROVE  Best(list) \in Range(list) /\ \A c \in Range(list) : ~Stronger(Best(list), c)
<1> DEFINE n == Len(list)
           g == CHOOSE f : BestUpTo(list, n, f)
<1>1. n \in Nat /\ n > 0 OBVIOUS
<1>2. BestUpTo(list, n, g) BY <1>1, BestExists
<1>3. Best(list) = g[n] BY Zenon DEF Best, BestUpTo
<1>4. \A i \in 1..n : list[i] \in Proposed /\ list[i] \in Range(list) BY DEF Range
<1>5. \A c, d, e \in Proposed : ~Stronger(d, c) /\ Stronger(d, e) => ~Stronger(e, c)
  <2>1. \A c \in Proposed : Score[c.sel] \in Int /\ c.stage \in Int BY CascadeAssumption DEF Proposed
  <2> QED BY <2>1 DEF Stronger
<1>6. \A c \in Proposed : ~Stronger(c, c)
  <2>1. \A c \in Proposed : Score[c.sel] \in Int /\ c.stage \in Int BY CascadeAssumption DEF Proposed
  <2> QED BY <2>1 DEF Stronger
<1> HIDE DEF g, n
<1> DEFINE Good(i) == /\ g[i] \in Proposed /\ \E j \in 1..i : g[i] = list[j]
                      /\ \A j \in 1..i : ~Stronger(g[i], list[j])
           Bad == {i \in 1..n : ~Good(i)}
<1>7. ASSUME NEW i \in 1..n, i = 1 \/ Good(i - 1) PROVE Good(i)
  <2>1. g[i] = IF i > 1 /\ ~Stronger(g[i - 1], list[i]) THEN g[i - 1] ELSE list[i]
      BY <1>2 DEF BestUpTo
  <2>2. CASE i = 1
    <3>1. g[i] = list[i] /\ 1..i = {i} BY <2>1, <2>2
    <3> QED BY <1>4, <1>6, <3>1
  <2>3. CASE i # 1
    <3>1. i > 1 /\ Good(i - 1) /\ 1..i = 1..(i - 1) \cup {i} /\ list[i] \in Proposed
        BY <1>1, <1>4, <1>7, <2>3
    <3>2. CASE Stronger(g[i - 1], list[i])
      <4>1. g[i] = list[i] BY <2>1, <3>2
      <4>2. \A j \in 1..(i - 1) : list[j] \in Proposed BY <1>1, <1>4
      <4>3. \A j \in 1..(i - 1) : ~Stronger(list[i], list[j]) BY <1>5, <3>1, <3>2, <4>2
      <4> QED BY <1>6, <3>1, <4>1, <4>3
    <3>3. CASE ~Stronger(g[i - 1], list[i])
      <4>1. g[i] = g[i - 1] BY <2>1, <3>1, <3>3
      <4> QED BY <3>1, <3>3, <4>1
    <3> QED BY <3>2, <3>3
  <2> QED BY <2>2, <2>3
<1> HIDE DEF Good
<1>8. Bad = {}
  <2> SUFFICES ASSUME Bad # {} PROVE FALSE OBVIOUS
  <2>0. Bad \in SUBSET Nat BY <1>1
  <2>1. PICK i \in Bad : \A m \in Bad : i <= m BY <2>0, LeastNat
  <2>2. i = 1 \/ (i - 1 \in 1..n /\ i - 1 \notin Bad) BY <1>1, <2>1
  <2> QED BY <1>7, <2>1, <2>2
<1>9. Good(n) BY <1>1, <1>8
<1>10. DOMAIN list = 1..n BY DEF n
<1> QED BY <1>3, <1>9, <1>10 DEF Good, Range

\* Each selector of a list comes with the first of the stages that it has there.
LEMMA FirstStagesKeep ==
    ASSUME NEW list \in Seq(Proposed)
    PROVE  /\ FirstStages(list) \in Seq(Proposed)
           /\ Range(FirstStages(list)) \subseteq Range(list)
           /\ \A c \in Range(list) : \E d \in Range(FirstStages(list)) :
                d.sel = c.sel /\ d.stage <= c.stage
<1> DEFINE T == {c \in Range(list) : ~\E d \in Range(list) : d.sel = c.sel /\ d.stage < c.stage}
<1>1. FirstStages(list) \in Seq(Proposed) /\ Range(FirstStages(list)) = Range(list) \cap T
    BY KeepRange DEF FirstStages
<1>2. \A c \in Range(list) : c \in Proposed BY DEF Range
<1>3. ASSUME NEW c \in Range(list)
      PROVE  \E d \in T : d.sel = c.sel /\ d.stage <= c.stage
  <2> DEFINE stages == {n \in Nat : \E d \in Range(list) : d.sel = c.sel /\ d.stage = n}
  <2>1. c.stage \in stages BY <1>2 DEF Proposed
  <2>2. stages \in SUBSET Nat /\ stages # {} BY <2>1
  <2>3. PICK n \in stages : \A m \in stages : n <= m BY <2>2, LeastNat
  <2>4. PICK d \in Range(list) : d.sel = c.sel /\ d.stage = n BY <2>3
  <2>5. d.stage <= c.stage BY <2>1, <2>3, <2>4
  <2>6. ~\E e \in Range(list) : e.sel = d.sel /\ e.stage < d.stage
    <3> SUFFICES ASSUME NEW e \in Range(list), e.sel = d.sel, e.stage < d.stage PROVE FALSE
        OBVIOUS
    <3>1. e.stage \in Nat BY <1>2 DEF Proposed
    <3>2. e.stage \in stages BY <2>4, <3>1
    <3>3. n <= e.stage /\ n \in Nat BY <2>3, <3>2
    <3> QED BY <2>4, <3>1, <3>3
  <2> QED BY <2>4, <2>5, <2>6
<1> HIDE DEF T
<1>4. T \subseteq Range(list) BY DEF T
<1> QED BY <1>1, <1>3, <1>4

-----------------------------------------------------------------------------
CascadeTyped ==
    /\ toProbe \in Seq(Proposed) /\ passes \in Seq(Proposed) /\ modelAsked \in BOOLEAN
    /\ found \subseteq Proposed /\ result \in Proposed \cup {NoResult, NotRepaired}

\* What is found is what passed, until the model answers.
FoundPassed ==
    /\ result = NoResult => found = Range(passes)
    /\ modelAsked => passes = <<>>

CascadeInv == CascadeTyped /\ FoundPassed /\ StrongestWins

LEMMA FoundAreResults == NoResult \notin Proposed /\ NotRepaired \notin Proposed /\ NoResult # NotRepaired
<1>1. NoResult.stage = 0 /\ NotRepaired.stage = -1 BY DEF NoResult, NotRepaired
<1>2. \A c \in Proposed : c.stage \in 1..4 BY DEF Proposed
<1> QED BY <1>1, <1>2

LEMMA ProposalsFound ==
    ASSUME NEW k \in 1..4, NEW list \in Lists \cup Primary
    PROVE  Proposals(k, list) \in Seq(Proposed)
<1>1. PICK n \in Nat : list \in [1..n -> Selectors]
  <2>1. CASE list \in Lists BY <2>1, CascadeAssumption DEF Lists
  <2>2. CASE list = <<>>
    <3>1. list \in [1..0 -> Selectors] BY <2>2
    <3> QED BY <3>1
  <2>3. ASSUME NEW s \in Selectors, list = <<s, s>> PROVE \E n \in Nat : list \in [1..n -> Selectors]
    <3>1. list \in [1..2 -> Selectors] BY <2>3
    <3> QED BY <3>1
  <2> QED BY <2>1, <2>2, <2>3 DEF Primary
<1>2. DOMAIN list = 1..n BY <1>1
<1>3. \A i \in 1..n : Candidate(k, list[i]) \in Proposed BY <1>1 DEF Candidate, Proposed
<1> DEFINE new == Proposals(k, list)
<1>4. new = [i \in 1..n |-> Candidate(k, list[i])] BY <1>2 DEF Proposals
<1> HIDE DEF new
<1>5. new \in [1..n -> Proposed] BY <1>3, <1>4
<1> QED BY <1>5 DEF new

LEMMA CascadeStart == CascadeInit => CascadeInv
<1> SUFFICES ASSUME CascadeInit PROVE CascadeInv OBVIOUS
<1>1. PICK p \in Primary, f \in Lists, a \in Alternates :
        toProbe = Proposals(1, p) \o Proposals(2, f) \o Proposals(3, a)
    BY DEF CascadeInit
<1>2. a \in Lists BY DEF Alternates
<1>3. /\ Proposals(1, p) \in Seq(Proposed) /\ Proposals(2, f) \in Seq(Proposed)
      /\ Proposals(3, a) \in Seq(Proposed)
    BY <1>2, ProposalsFound
<1>4. toProbe \in Seq(Proposed) BY <1>1, <1>3
<1>5. /\ passes = <<>> /\ found = {} /\ modelAsked = FALSE /\ result = NoResult
    BY DEF CascadeInit
<1>6. CascadeTyped
  <2>1. <<>> \in Seq(Proposed) OBVIOUS
  <2> QED BY <1>4, <1>5, <2>1 DEF CascadeTyped
<1>7. Range(<<>>) = {} BY DEF Range
<1> QED BY <1>5, <1>6, <1>7 DEF CascadeInv, FoundPassed, StrongestWins

LEMMA ProbeKeeps == CascadeInv /\ Probe => CascadeInv'
<1> SUFFICES ASSUME CascadeInv, Probe PROVE CascadeInv' OBVIOUS
<1> DEFINE c == Head(toProbe)
<1>1. /\ toProbe \in Seq(Proposed) /\ passes \in Seq(Proposed) /\ found = Range(passes) /\ c \in Proposed
      /\ Tail(toProbe) \in Seq(Proposed) /\ modelAsked = FALSE /\ result = NoResult
      /\ UNCHANGED <<modelAsked, result>>
  <2>1. toProbe \in Seq(Proposed) /\ toProbe # <<>> BY DEF CascadeInv, CascadeTyped, Probe
  <2>2. c \in Proposed /\ Tail(toProbe) \in Seq(Proposed) BY <2>1
  <2>3. modelAsked = FALSE /\ result = NoResult /\ UNCHANGED <<modelAsked, result>>
      BY DEF CascadeInv, CascadeTyped, Probe
  <2> QED BY <2>1, <2>2, <2>3 DEF CascadeInv, CascadeTyped, FoundPassed
<1>2. CASE c.sel \notin matches
  <2>1. toProbe' = Tail(toProbe) /\ UNCHANGED <<passes, found>> BY <1>2 DEF Probe
  <2> QED BY <1>1, <2>1 DEF CascadeInv, CascadeTyped, FoundPassed, StrongestWins
<1>3. CASE c.sel \in matches
  <2>1. /\ toProbe' = Keep(Tail(toProbe), {d \in Range(toProbe) : c.stage = 1 => d.stage # 1})
        /\ found' = found \cup {c}
        /\ passes' = IF Contains(passes, c) THEN passes ELSE Append(passes, c)
      BY <1>3 DEF Probe
  <2>2. toProbe' \in Seq(Proposed) BY <1>1, <2>1, KeepRange
  <2> HIDE DEF c
  <2>3. passes' \in Seq(Proposed) /\ Range(passes') = Range(passes) \cup {c}
    <3>1. CASE Contains(passes, c)
      <4>1. c \in Range(passes) BY <1>1, <3>1 DEF Contains, Range
      <4> QED BY <1>1, <2>1, <3>1, <4>1
    <3>2. CASE ~Contains(passes, c)
      <4> DEFINE all == Append(passes, c)
      <4>1. /\ all \in Seq(Proposed) /\ DOMAIN all = 1..(Len(passes) + 1) /\ DOMAIN passes = 1..Len(passes)
            /\ \A i \in 1..Len(passes) : all[i] = passes[i]
            /\ all[Len(passes) + 1] = c /\ Len(passes) \in Nat
          BY <1>1
      <4>2. passes' = all BY <2>1, <3>2
      <4> HIDE DEF all
      <4>3. 1..(Len(passes) + 1) = 1..Len(passes) \cup {Len(passes) + 1} BY <4>1
      <4> QED BY <4>1, <4>2, <4>3 DEF Range
    <3> QED BY <3>1, <3>2
  <2>4. found' \subseteq Proposed BY <1>1, <2>1 DEF CascadeInv, CascadeTyped
  <2> QED BY <1>1, <2>1, <2>2, <2>3, <2>4 DEF CascadeInv, CascadeTyped, FoundPassed, StrongestWins
<1> QED BY <1>2, <1>3

LEMMA SelectKeeps == CascadeInv /\ Select => CascadeInv'
<1> SUFFICES ASSUME CascadeInv, Select PROVE CascadeInv' OBVIOUS
<1> DEFINE list == FirstStages(passes)
<1>1. /\ passes \in Seq(Proposed) /\ passes # <<>> /\ found = Range(passes)
      /\ result' = Best(list) /\ UNCHANGED <<toProbe, passes, found, modelAsked>>
      /\ result = NoResult /\ ~modelAsked
    BY DEF CascadeInv, CascadeTyped, FoundPassed, Select
<1>2. /\ list \in Seq(Proposed) /\ Range(list) \subseteq Range(passes)
      /\ \A c \in Range(passes) : \E d \in Range(list) : d.sel = c.sel /\ d.stage <= c.stage
    BY <1>1, FirstStagesKeep
<1>3. list # <<>>
  <2>1. passes[1] \in Range(passes) BY <1>1 DEF Range
  <2>2. Range(<<>>) = {} BY DEF Range
  <2> QED BY <1>2, <2>1, <2>2
<1> HIDE DEF list
<1>4. result' \in Range(list) /\ \A c \in Range(list) : ~Stronger(result', c)
    BY <1>1, <1>2, <1>3, BestIsBest
<1>5. \A c \in Range(passes) : c \in Proposed /\ c.stage \in Int /\ Score[c.sel] \in Int
  <2>1. \A c \in Range(passes) : c \in Proposed BY <1>1 DEF Range
  <2>2. \A c \in Proposed : c.stage \in Int /\ c.sel \in Selectors BY DEF Proposed
  <2>3. \A s \in Selectors : Score[s] \in Int BY CascadeAssumption
  <2> QED BY <2>1, <2>2, <2>3
<1>6. ASSUME NEW c \in found
      PROVE  /\ Score[c.sel] <= Score[result'.sel]
             /\ Score[c.sel] = Score[result'.sel] => result'.stage <= c.stage
  <2>1. PICK d \in Range(list) : d.sel = c.sel /\ d.stage <= c.stage BY <1>1, <1>2
  <2>2. ~Stronger(result', d) BY <1>4
  <2>3. /\ c.stage \in Int /\ d.stage \in Int /\ result'.stage \in Int
        /\ Score[c.sel] \in Int /\ Score[result'.sel] \in Int
      BY <1>1, <1>2, <1>4, <1>5
  <2> QED BY <2>1, <2>2, <2>3 DEF Stronger
<1>7. result' \in found BY <1>1, <1>2, <1>4
<1>8. StrongestWins' BY <1>1, <1>6, <1>7 DEF StrongestWins
<1>9. result' \in Proposed BY <1>1, <1>5, <1>7
<1>10. result' # NoResult BY <1>9, FoundAreResults
<1>11. CascadeTyped' BY <1>1, <1>9 DEF CascadeInv, CascadeTyped
<1>12. FoundPassed' BY <1>1, <1>10 DEF CascadeInv, FoundPassed
<1> QED BY <1>8, <1>11, <1>12 DEF CascadeInv

LEMMA AnswerKeeps == CascadeInv /\ VerifyAnswer => CascadeInv'
<1> SUFFICES ASSUME CascadeInv, VerifyAnswer PROVE CascadeInv' OBVIOUS
<1> DEFINE c == Head(toProbe)
<1>1. /\ toProbe \in Seq(Proposed) /\ c \in Proposed /\ Tail(toProbe) \in Seq(Proposed)
      /\ modelAsked /\ result = NoResult /\ passes = <<>> /\ found = {}
      /\ UNCHANGED <<passes, modelAsked>>
  <2>1. Range(<<>>) = {} BY DEF Range
  <2> QED BY <2>1 DEF CascadeInv, CascadeTyped, FoundPassed, VerifyAnswer
<1>2. CASE c.sel \in matches
  <2>1. result' = c /\ found' = {c} /\ UNCHANGED toProbe BY <1>1, <1>2 DEF VerifyAnswer
  <2> HIDE DEF c
  <2>2. Score[c.sel] \in Int /\ c.stage \in Int BY <1>1, CascadeAssumption DEF Proposed
  <2>3. StrongestWins' BY <2>1, <2>2 DEF StrongestWins
  <2>4. result' # NoResult BY <1>1, <2>1, FoundAreResults
  <2> QED BY <1>1, <2>1, <2>3, <2>4 DEF CascadeInv, CascadeTyped, FoundPassed
<1>3. CASE c.sel \notin matches
  <2>1. toProbe' = Tail(toProbe) /\ UNCHANGED <<result, found>> BY <1>3 DEF VerifyAnswer
  <2> QED BY <1>1, <2>1 DEF CascadeInv, CascadeTyped, FoundPassed, StrongestWins
<1> QED BY <1>2, <1>3

LEMMA CascadeStep == CascadeInv /\ [CascadeNext]_cascadeVars => CascadeInv'
<1> SUFFICES ASSUME CascadeInv, [CascadeNext]_cascadeVars PROVE CascadeInv' OBVIOUS
<1>1. CASE PageMoves \/ UNCHANGED cascadeVars
    BY <1>1 DEF PageMoves, cascadeVars, CascadeInv, CascadeTyped, FoundPassed, StrongestWins
<1>2. CASE GiveUp \/ NoneWorked
    BY <1>2, FoundAreResults
       DEF GiveUp, NothingMatched, NoneWorked, CascadeInv, CascadeTyped, FoundPassed, StrongestWins
<1>3. CASE AskModel
  <2>1. PICK list \in Lists : toProbe' = Proposals(4, list) BY <1>3 DEF AskModel
  <2>2. toProbe' \in Seq(Proposed) BY <2>1, ProposalsFound
  <2> QED BY <1>3, <2>2
          DEF AskModel, NothingMatched, CascadeInv, CascadeTyped, FoundPassed, StrongestWins
<1> QED BY <1>1, <1>2, <1>3, ProbeKeeps, SelectKeeps, AnswerKeeps DEF CascadeNext

\* StrongestWins: for any scores, candidates and page, the repair that is reported is
\* the most stable of all that passed, the earliest of equals.
THEOREM BestRepairWins == CascadeSpec => []StrongestWins
<1>1. CascadeInv => StrongestWins BY DEF CascadeInv
<1> QED BY <1>1, CascadeStart, CascadeStep, PTL DEF CascadeSpec

-----------------------------------------------------------------------------
(*****************************************************************************)
(* Memory, for every number of clients and of calls, and every threshold of  *)
(* the policy.                                                               *)
(*****************************************************************************)

\* What a client is at rests on what it found, or wrote, before: rows R of the
\* evidence, versions H of the history, snapshots S.
Grounded(t, R, H, S) ==
    /\ t.op = "evidence" => t.id \in R
    /\ t.op = "upsert" => t.ids \subseteq R
    /\ t.op \in {"truncate", "write"} => t.version \in H
    /\ t.op = "resolve" => t.id \in S

References ==
    /\ NothingDangles
    /\ task \in [Clients -> {task[c] : c \in Clients}]
    /\ \A c \in Clients : Grounded(task[c], rows, history, snapshots)

\* After n good validations: a candidate's row of them was earned, another state
\* was reached by enough of them.
Earned(r, n) ==
    /\ r.state \in {"candidate", "trusted", "degraded", "retired"}
    /\ r.good \in Nat
    /\ r.state = "candidate" => r.good <= n
    /\ r.state # "candidate" => n >= PromoteAfter

Validations ==
    /\ successes \in Nat /\ Earned(repair, successes)
    /\ task \in [Clients -> {task[c] : c \in Clients}]
    /\ \A c \in Clients : task[c].op = "validate" => Earned(task[c].was, successes)

-----------------------------------------------------------------------------

(* What is referred to is never taken away.                                 *)
LEMMA GroundsStay ==
    ASSUME rows \subseteq rows', history \subseteq history', snapshots \subseteq snapshots',
           NEW t, Grounded(t, rows, history, snapshots)
    PROVE  Grounded(t, rows', history', snapshots')
    BY DEF Grounded

LEMMA ReferencesStep == References /\ [MemoryNext]_memoryVars => References'
<1> SUFFICES ASSUME References, [MemoryNext]_memoryVars PROVE References' OBVIOUS
<1>1. CASE UNCHANGED memoryVars
    BY <1>1 DEF memoryVars, evidenceVars, policyVars, conflictVars, References, Grounded,
                NothingDangles
<1>2. ASSUME NEW c \in Clients, NEW t, task' = [task EXCEPT ![c] = t],
             rows \subseteq rows', history \subseteq history', snapshots \subseteq snapshots',
             Grounded(t, rows', history', snapshots'), NothingDangles'
      PROVE  References'
  <2>1. /\ task' \in [Clients -> {task'[d] : d \in Clients}]
        /\ task'[c] = t /\ \A d \in Clients \ {c} : task'[d] = task[d]
      BY <1>2 DEF References
  <2>2. ASSUME NEW d \in Clients PROVE Grounded(task'[d], rows', history', snapshots')
    <3>1. CASE d = c BY <1>2, <2>1, <3>1
    <3>2. CASE d # c BY <1>2, <2>1, <3>2, GroundsStay DEF References
    <3> QED BY <3>1, <3>2
  <2> QED BY <1>2, <2>1, <2>2 DEF References
<1>3. ASSUME NEW c \in Clients, NEW t, task' = [task EXCEPT ![c] = t],
             UNCHANGED <<rows, lines, entry, history, inForce, snapshots, records>>,
             Grounded(t, rows, history, snapshots)
      PROVE  References'
  <2>1. NothingDangles' BY <1>3 DEF References, NothingDangles
  <2> QED BY <1>2, <1>3, <2>1
<1>4. ASSUME NEW R, NEW H, NEW S PROVE Grounded(NoTask, R, H, S) BY DEF Grounded, NoTask
<1>5. ASSUME NEW c \in Clients, Validate(c) PROVE References'
    BY <1>3, <1>5 DEF Validate, Call, Grounded, evidenceVars, policyVars, conflictVars
<1>6. ASSUME NEW c \in Clients, Validated(c) PROVE References'
    BY <1>3, <1>4, <1>6 DEF Validated, GoesOn, evidenceVars, policyVars, conflictVars
<1>7. ASSUME NEW c \in Clients, AppendEvidence(c) PROVE References'
  <2>1. PICK e \in EvidenceIds \ rows :
          rows' = rows \cup {e} /\ task' = [task EXCEPT ![c] = [op |-> "evidence", id |-> e]]
      BY <1>7 DEF AppendEvidence, Call
  <2>2. Grounded([op |-> "evidence", id |-> e], rows', history', snapshots')
      BY <2>1 DEF Grounded
  <2>3. NothingDangles'
      BY <1>7, <2>1 DEF AppendEvidence, References, NothingDangles, policyVars, conflictVars
  <2> QED BY <1>2, <1>7, <2>1, <2>2, <2>3 DEF AppendEvidence, policyVars, conflictVars
<1>8. ASSUME NEW c \in Clients, EvidenceLine(c) PROVE References'
  <2>1. task[c].id \in rows BY <1>8 DEF EvidenceLine, References, Grounded
  <2>2. NothingDangles'
      BY <1>8, <2>1 DEF EvidenceLine, References, NothingDangles, policyVars, conflictVars
  <2> QED BY <1>2, <1>4, <1>8, <2>2 DEF EvidenceLine, GoesOn, policyVars, conflictVars
<1>9. ASSUME NEW c \in Clients, Upsert(c) PROVE References'
    BY <1>3, <1>9 DEF Upsert, Call, Grounded, evidenceVars, policyVars, conflictVars
<1>10. ASSUME NEW c \in Clients, Upserted(c) PROVE References'
  <2>1. task[c].ids \subseteq rows BY <1>10 DEF Upserted, References, Grounded
  <2>2. NothingDangles'
      BY <1>10, <2>1 DEF Upserted, References, NothingDangles, policyVars, conflictVars
  <2> QED BY <1>2, <1>4, <1>10, <2>2 DEF Upserted, GoesOn, policyVars, conflictVars
<1>11. ASSUME NEW c \in Clients, Activate(c) PROVE References'
    BY <1>3, <1>11 DEF Activate, Call, Grounded, evidenceVars, policyVars, conflictVars
<1>12. ASSUME NEW c \in Clients, AppendHistory(c) PROVE References'
  <2>1. Grounded([op |-> "truncate", version |-> task[c].version], rows', history', snapshots')
      BY <1>12 DEF AppendHistory, Grounded
  <2>2. NothingDangles'
      BY <1>12 DEF AppendHistory, References, NothingDangles, evidenceVars, conflictVars
  <2> QED BY <1>2, <1>12, <2>1, <2>2 DEF AppendHistory, GoesOn, evidenceVars, conflictVars
<1>13. ASSUME NEW c \in Clients, Truncate(c) PROVE References'
  <2>1. Grounded([op |-> "write", version |-> task[c].version], rows', history', snapshots')
      BY <1>13 DEF Truncate, Grounded, References, evidenceVars, conflictVars
  <2>2. NothingDangles'
      BY <1>13 DEF Truncate, References, NothingDangles, evidenceVars, conflictVars
  <2> QED BY <1>2, <1>13, <2>1, <2>2 DEF Truncate, GoesOn, evidenceVars, conflictVars
<1>14. ASSUME NEW c \in Clients, Activated(c) PROVE References'
  <2>1. task[c].version \in history BY <1>14 DEF Activated, References, Grounded
  <2>2. NothingDangles'
      BY <1>14, <2>1 DEF Activated, References, NothingDangles, evidenceVars, conflictVars
  <2> QED BY <1>2, <1>4, <1>14, <2>2 DEF Activated, GoesOn, evidenceVars, conflictVars
<1>15. ASSUME NEW c \in Clients, Resolve(c) PROVE References'
  <2>1. PICK d : task' = [task EXCEPT ![c] = [op |-> "resolve", id |-> work, decision |-> d]]
      BY <1>15 DEF Resolve, Call
  <2>2. Grounded([op |-> "resolve", id |-> work, decision |-> d], rows', history', snapshots')
      BY <1>15 DEF Resolve, Grounded
  <2>3. NothingDangles'
      BY <1>15 DEF Resolve, References, NothingDangles, evidenceVars, policyVars
  <2> QED BY <1>2, <1>15, <2>1, <2>2, <2>3 DEF Resolve, evidenceVars, policyVars
<1>16. ASSUME NEW c \in Clients, Resolved(c) PROVE References'
  <2>1. task[c].id \in snapshots BY <1>16 DEF Resolved, References, Grounded
  <2>2. {r.id : r \in records'} \subseteq snapshots'
      BY <1>16, <2>1 DEF Resolved, References, NothingDangles
  <2>3. NothingDangles'
      BY <1>16, <2>2 DEF Resolved, References, NothingDangles, evidenceVars, policyVars
  <2> QED BY <1>2, <1>4, <1>16, <2>3 DEF Resolved, GoesOn, evidenceVars, policyVars
<1>17. ASSUME NEW c \in Clients, Dies(c) PROVE References'
    BY <1>3, <1>4, <1>17 DEF Dies, GoesOn, evidenceVars, policyVars, conflictVars
<1> QED BY <1>1, <1>5, <1>6, <1>7, <1>8, <1>9, <1>10, <1>11, <1>12, <1>13, <1>14, <1>15,
           <1>16, <1>17 DEF MemoryNext

(* Nothing the stores write refers to something they do not hold, wherever  *)
(* clients die between two writes: each store writes what is referred to    *)
(* before what refers to it.                                                *)
THEOREM NothingEverDangles == MemorySpec => []NothingDangles
<1>1. MemoryInit => References
    BY DEF MemoryInit, References, Grounded, NothingDangles, NoTask
<1>2. References => NothingDangles BY DEF References
<1> QED BY <1>1, <1>2, ReferencesStep, PTL DEF MemorySpec

-----------------------------------------------------------------------------

(* One more validation earns what it changes.                               *)
LEMMA AfterValidationEarned ==
    ASSUME NEW r, NEW n \in Nat, Earned(r, n), NEW ok
    PROVE  Earned(AfterValidation(r, ok), n + (IF ok THEN 1 ELSE 0))
<1> USE LifecycleAssumption
<1>1. /\ r.good \in Nat /\ PromoteAfter \in Nat \ {0}
      /\ r.state = "candidate" => r.good <= n
      /\ r.state # "candidate" => n >= PromoteAfter
    BY DEF Earned
<1> DEFINE good == IF ok THEN r.good + 1 ELSE 0
           bad == IF ok THEN 0 ELSE r.bad + 1
           next == NextState(r.state, good, bad)
           m == n + (IF ok THEN 1 ELSE 0)
<1>2. AfterValidation(r, ok) = [state |-> next, good |-> good, bad |-> bad]
    BY DEF AfterValidation
<1>3. good \in Nat /\ m \in Nat /\ m >= n BY <1>1
<1>4. r.state = "candidate" => good <= m BY <1>1
<1>5. r.state = "candidate" /\ next # "candidate" => good >= PromoteAfter BY DEF NextState
<1>6. r.state # "candidate" => m >= PromoteAfter BY <1>1, <1>3
<1>7. /\ next \in {"candidate", "trusted", "degraded", "retired"}
      /\ next = "candidate" => r.state = "candidate"
    BY DEF NextState, Earned
<1> HIDE DEF good, next, m
<1>8. /\ AfterValidation(r, ok).state = next /\ AfterValidation(r, ok).good = good
    BY <1>2
<1>9. next # "candidate" => m >= PromoteAfter BY <1>1, <1>3, <1>4, <1>5, <1>6
<1>10. Earned(AfterValidation(r, ok), m) BY <1>3, <1>4, <1>7, <1>8, <1>9 DEF Earned
<1> QED BY <1>10 DEF m

LEMMA ValidationsStep == Validations /\ [MemoryNext]_memoryVars => Validations'
<1> SUFFICES ASSUME Validations, [MemoryNext]_memoryVars PROVE Validations' OBVIOUS
<1>1. CASE UNCHANGED memoryVars BY <1>1 DEF memoryVars, Validations
<1>2. ASSUME NEW c \in Clients, NEW t, task' = [task EXCEPT ![c] = t],
             UNCHANGED <<repair, successes>>,
             t.op = "validate" => Earned(t.was, successes)
      PROVE  Validations'
  <2>1. /\ task' \in [Clients -> {task'[d] : d \in Clients}]
        /\ task'[c] = t /\ \A d \in Clients \ {c} : task'[d] = task[d]
      BY <1>2 DEF Validations
  <2> QED BY <1>2, <2>1 DEF Validations
<1>3. ASSUME NEW c \in Clients, Validate(c) PROVE Validations'
  <2>1. PICK ok \in BOOLEAN :
          task' = [task EXCEPT ![c] = [op |-> "validate", ok |-> ok, was |-> repair]]
      BY <1>3 DEF Validate, Call
  <2> DEFINE t == [op |-> "validate", ok |-> ok, was |-> repair]
  <2>2. Earned(t.was, successes) BY DEF Validations
  <2> HIDE DEF t
  <2> QED BY <1>2, <1>3, <2>1, <2>2 DEF Validate, t
<1>4. ASSUME NEW c \in Clients, Validated(c) PROVE Validations'
  <2>1. /\ task[c].op = "validate"
        /\ repair' = AfterValidation(task[c].was, task[c].ok)
        /\ successes' = successes + (IF task[c].ok THEN 1 ELSE 0)
        /\ task' = [task EXCEPT ![c] = NoTask]
      BY <1>4 DEF Validated, GoesOn
  <2>2. Earned(task[c].was, successes) /\ successes \in Nat BY <2>1 DEF Validations
  <2>3. Earned(repair', successes') BY <2>1, <2>2, AfterValidationEarned
  <2>4. successes' \in Nat /\ successes' >= successes
      BY <2>1, <2>2
  <2>5. ASSUME NEW r, Earned(r, successes) PROVE Earned(r, successes')
      BY <2>2, <2>4, <2>5, LifecycleAssumption DEF Earned
  <2>6. /\ task' \in [Clients -> {task'[d] : d \in Clients}]
        /\ task'[c] = NoTask /\ \A d \in Clients \ {c} : task'[d] = task[d]
      BY <2>1 DEF Validations
  <2>7. NoTask.op # "validate" BY DEF NoTask
  <2> QED BY <2>3, <2>4, <2>5, <2>6, <2>7 DEF Validations
<1>5. ASSUME NEW c \in Clients, AppendEvidence(c) PROVE Validations'
    BY <1>2, <1>5 DEF AppendEvidence, Call
<1>6. ASSUME NEW c \in Clients, Upsert(c) PROVE Validations'
    BY <1>2, <1>6 DEF Upsert, Call
<1>7. ASSUME NEW c \in Clients, Activate(c) PROVE Validations'
    BY <1>2, <1>7 DEF Activate, Call
<1>8. ASSUME NEW c \in Clients, Resolve(c) PROVE Validations'
    BY <1>2, <1>8 DEF Resolve, Call
<1>9. ASSUME NEW c \in Clients,
             \/ EvidenceLine(c) \/ Upserted(c) \/ Activated(c) \/ Resolved(c) \/ Dies(c)
      PROVE  Validations'
    BY <1>2, <1>9 DEF EvidenceLine, Upserted, Activated, Resolved, Dies, GoesOn, NoTask
<1>10. ASSUME NEW c \in Clients, AppendHistory(c) PROVE Validations'
    BY <1>2, <1>10 DEF AppendHistory, GoesOn
<1>11. ASSUME NEW c \in Clients, Truncate(c) PROVE Validations'
    BY <1>2, <1>11 DEF Truncate, GoesOn
<1> QED BY <1>1, <1>3, <1>4, <1>5, <1>6, <1>7, <1>8, <1>9, <1>10, <1>11 DEF MemoryNext

(* A repair that left the candidates was validated with success as often as *)
(* the policy asks, whatever row of validations each client had read: the   *)
(* row of a candidate is never longer than what was saved.                  *)
THEOREM TrustIsAlwaysEarned == MemorySpec => []TrustIsEarned
<1>1. MemoryInit => Validations
    BY LifecycleAssumption DEF MemoryInit, Validations, Earned, NewRepair, NoTask
<1>2. Validations => TrustIsEarned BY DEF Validations, Earned, TrustIsEarned
<1> QED BY <1>1, <1>2, ValidationsStep, PTL DEF MemorySpec

-----------------------------------------------------------------------------
(*****************************************************************************)
(* Orchestrator, for every budget and every range of context tiers: success  *)
(* is earned, the loop gives up for lack of progress only in the largest     *)
(* context it may use, and the escalation path is complete.                  *)
(*****************************************************************************)

OrchTypeOK ==
    /\ phase \in Phases /\ noProgress \in Nat /\ escalations \in Nat /\ tier \in Nat
    /\ round \in Nat /\ outcome \in {"none", "failed", "succeeded"}
    /\ tools \in {"none", "some", "all", "cut"}
    /\ stop \in StopReasons \cup {"none"}

\* The review is entered after a round without failure only.
ReviewFollowsSuccess ==
    phase = "review" => outcome = "succeeded" /\ tools \in {"all", "cut"}

\* A loop that goes on has either escalated as soon as it had to, or cannot.
EscalatedInTime ==
    stop = "none" /\ EscalateAfter <= MaxNoProgress =>
        \/ noProgress < EscalateAfter
        \/ tier = TopTier \/ escalations = MaxEscalations

OrchInv ==
    /\ OrchTypeOK /\ PathIsComplete
    /\ ReviewFollowsSuccess /\ EscalatedInTime
    /\ SuccessIsEarned /\ GivesUpAtTheTop

-----------------------------------------------------------------------------
LEMMA OrchInitial == OrchInit => OrchInv
<1> SUFFICES ASSUME OrchInit PROVE OrchInv
  OBVIOUS
<1> USE BudgetAssumption DEF BudgetAssumption, OrchInit
<1>1. OrchTypeOK /\ ReviewFollowsSuccess /\ SuccessIsEarned /\ GivesUpAtTheTop
  BY DEF OrchTypeOK, ReviewFollowsSuccess, SuccessIsEarned, GivesUpAtTheTop,
         Phases, StopReasons
<1>2. EscalatedInTime
  BY DEF EscalatedInTime
<1>3. PathIsComplete
  <2>1. <<FirstTier>> = [i \in 1..1 |-> FirstTier + i - 1]
    OBVIOUS
  <2> QED
    BY <2>1 DEF PathIsComplete
<1> QED
  BY <1>1, <1>2, <1>3 DEF OrchInv

\* Entering a larger context appends it to the path, and nothing else.
LEMMA EscalationExtendsPath ==
    ASSUME OrchInv, NEW idle \in Nat, MayEscalate(idle), Escalate(idle)
    PROVE  PathIsComplete' /\ tier' \in Nat /\ escalations' \in Nat
<1> USE BudgetAssumption DEF BudgetAssumption
<1>1. /\ escalations \in Nat /\ tier \in Nat
      /\ path = [i \in 1..(escalations + 1) |-> FirstTier + i - 1]
      /\ tier = FirstTier + escalations
      /\ escalations <= MaxEscalations /\ tier <= TopTier
  BY DEF OrchInv, OrchTypeOK, PathIsComplete
<1>2. path' = [i \in 1..(escalations + 2) |-> FirstTier + i - 1]
  <2>1. path \in Seq(Int) /\ Len(path) = escalations + 1
    BY <1>1
  <2>2. Append(path, tier + 1) = [i \in 1..(escalations + 2) |-> FirstTier + i - 1]
    BY <2>1, <1>1
  <2> QED
    BY <2>2 DEF Escalate
<1> QED
  BY <1>1, <1>2 DEF MayEscalate, Escalate, PathIsComplete

\* The end of a round keeps the counters and the path in step, whatever
\* phase the answer led to.
LEMMA SettleKeeps ==
    ASSUME OrchInv, NEW progress \in BOOLEAN, NEW next \in Phases,
           stop = "none", Settle(progress, next)
    PROVE  /\ PathIsComplete' /\ EscalatedInTime' /\ GivesUpAtTheTop'
           /\ noProgress' \in Nat /\ tier' \in Nat /\ escalations' \in Nat
           /\ phase' \in {next, "repair"}
           /\ stop' \in {"none", "no_progress_budget_exhausted"}
<1> USE BudgetAssumption DEF BudgetAssumption
<1> DEFINE idle == IF progress THEN 0 ELSE noProgress + 1
<1>1. /\ noProgress \in Nat /\ escalations \in Nat /\ tier \in Nat /\ idle \in Nat
      /\ tier <= TopTier /\ escalations <= MaxEscalations
  BY DEF OrchInv, OrchTypeOK, PathIsComplete
<1>2. EscalateAfter <= MaxNoProgress =>
        noProgress < EscalateAfter \/ tier = TopTier \/ escalations = MaxEscalations
  BY DEF OrchInv, EscalatedInTime
<1>3. CASE /\ idle > MaxNoProgress
           /\ stop' = "no_progress_budget_exhausted"
           /\ noProgress' = idle /\ phase' = next
           /\ UNCHANGED <<tier, path, escalations>>
  <2>1. PathIsComplete'
    BY <1>3 DEF OrchInv, PathIsComplete
  <2>2. EscalatedInTime'
    BY <1>3 DEF EscalatedInTime
  <2>3. GivesUpAtTheTop'
    BY <1>1, <1>2, <1>3 DEF GivesUpAtTheTop
  <2> QED
    BY <2>1, <2>2, <2>3, <1>1, <1>3
<1>4. CASE /\ idle <= MaxNoProgress /\ MayEscalate(idle)
           /\ Escalate(idle) /\ UNCHANGED stop
  <2>1. PathIsComplete' /\ tier' \in Nat /\ escalations' \in Nat
    BY <1>1, <1>4, EscalationExtendsPath
  <2>2. EscalatedInTime' /\ GivesUpAtTheTop'
    BY <1>4 DEF EscalatedInTime, GivesUpAtTheTop, Escalate
  <2> QED
    BY <2>1, <2>2, <1>4 DEF Escalate
<1>5. CASE /\ idle <= MaxNoProgress /\ ~MayEscalate(idle)
           /\ noProgress' = idle /\ phase' = next
           /\ UNCHANGED <<tier, path, escalations, stop>>
  <2>1. PathIsComplete'
    BY <1>5 DEF OrchInv, PathIsComplete
  <2>2. EscalatedInTime' /\ GivesUpAtTheTop'
    BY <1>1, <1>5 DEF EscalatedInTime, GivesUpAtTheTop, MayEscalate
  <2> QED
    BY <2>1, <2>2, <1>1, <1>5
<1> QED
  BY <1>3, <1>4, <1>5 DEF Settle

\* A result other than giving up changes no counter.
LEMMA EndKeeps ==
    ASSUME OrchInv, NEW reason \in StopReasons, NEW next \in Phases,
           reason # "no_progress_budget_exhausted", EndWith(reason, next)
    PROVE  /\ PathIsComplete' /\ EscalatedInTime' /\ GivesUpAtTheTop'
           /\ noProgress' \in Nat /\ tier' \in Nat /\ escalations' \in Nat
           /\ phase' = next /\ stop' = reason
BY DEF EndWith, OrchInv, OrchTypeOK, PathIsComplete, EscalatedInTime,
       GivesUpAtTheTop, StopReasons

-----------------------------------------------------------------------------
LEMMA OrchStep == OrchInv /\ [OrchNext]_orchVars => OrchInv'
<1> SUFFICES ASSUME OrchInv, [OrchNext]_orchVars PROVE OrchInv'
  OBVIOUS
<1>0. OrchTypeOK /\ ReviewFollowsSuccess
  BY DEF OrchInv
<1>1. CASE ToolsSucceed
  <2>1. stop = "none" /\ round' \in Nat /\ phase \in Phases
    BY <1>1, <1>0 DEF ToolsSucceed, Round, OrchTypeOK
  <2>2. outcome' = "succeeded" /\ tools' \in {"all", "cut"}
    BY <1>1 DEF ToolsSucceed
  <2>3. CASE Settle(TRUE, "review")
    <3>1. /\ PathIsComplete' /\ EscalatedInTime' /\ GivesUpAtTheTop'
          /\ noProgress' \in Nat /\ tier' \in Nat /\ escalations' \in Nat
          /\ phase' \in {"review", "repair"}
          /\ stop' \in {"none", "no_progress_budget_exhausted"}
      BY <2>1, <2>3, SettleKeeps DEF Phases
    <3> QED
      BY <2>1, <2>2, <3>1 DEF OrchInv, OrchTypeOK, ReviewFollowsSuccess,
         SuccessIsEarned, Phases, StopReasons
  <2>4. CASE EndWith("step_succeeded", phase)
    <3>1. /\ PathIsComplete' /\ EscalatedInTime' /\ GivesUpAtTheTop'
          /\ noProgress' \in Nat /\ tier' \in Nat /\ escalations' \in Nat
          /\ phase' = phase /\ stop' = "step_succeeded"
      BY <2>1, <2>4, EndKeeps DEF StopReasons
    <3> QED
      BY <2>1, <2>2, <3>1 DEF OrchInv, OrchTypeOK, ReviewFollowsSuccess,
         SuccessIsEarned, StopReasons
  <2> QED
    BY <1>1, <2>3, <2>4 DEF ToolsSucceed
<1>2. CASE ToolFails
  <2>1. stop = "none" /\ round' \in Nat /\ outcome' = "failed"
    BY <1>2, <1>0 DEF ToolFails, Round, OrchTypeOK
  <2>2. PICK progress \in BOOLEAN :
          /\ tools' = (IF progress THEN "some" ELSE "none")
          /\ Settle(progress, AfterFailure)
    BY <1>2 DEF ToolFails
  <2>3. AfterFailure \in {"repair", "classification"}
    BY DEF AfterFailure
  <2>4. /\ PathIsComplete' /\ EscalatedInTime' /\ GivesUpAtTheTop'
        /\ noProgress' \in Nat /\ tier' \in Nat /\ escalations' \in Nat
        /\ phase' \in {AfterFailure, "repair"}
        /\ stop' \in {"none", "no_progress_budget_exhausted"}
    BY <2>1, <2>2, <2>3, SettleKeeps DEF Phases
  <2> QED
    BY <2>1, <2>2, <2>3, <2>4 DEF OrchInv, OrchTypeOK, ReviewFollowsSuccess,
       SuccessIsEarned, Phases, StopReasons
<1>3. CASE Answers
  <2>1. /\ stop = "none" /\ round' \in Nat /\ phase \in Phases
        /\ UNCHANGED <<tools, outcome>>
    BY <1>3, <1>0 DEF Answers, Round, OrchTypeOK
  <2>2. CASE phase = "review" /\ EndWith("review_completed", phase)
    <3>1. /\ PathIsComplete' /\ EscalatedInTime' /\ GivesUpAtTheTop'
          /\ noProgress' \in Nat /\ tier' \in Nat /\ escalations' \in Nat
          /\ phase' = phase /\ stop' = "review_completed"
      BY <2>1, <2>2, EndKeeps DEF StopReasons
    <3> QED
      BY <1>0, <2>1, <2>2, <3>1 DEF OrchInv, OrchTypeOK, ReviewFollowsSuccess,
         SuccessIsEarned, StopReasons
  <2>3. ASSUME phase # "review", NEW text \in BOOLEAN,
               Settle(text, IF phase = "classification" THEN "repair" ELSE phase)
        PROVE  OrchInv'
    <3> DEFINE next == IF phase = "classification" THEN "repair" ELSE phase
    <3>1. next \in Phases \ {"review"}
      BY <2>1, <2>3 DEF Phases
    <3>2. /\ PathIsComplete' /\ EscalatedInTime' /\ GivesUpAtTheTop'
          /\ noProgress' \in Nat /\ tier' \in Nat /\ escalations' \in Nat
          /\ phase' \in {next, "repair"}
          /\ stop' \in {"none", "no_progress_budget_exhausted"}
      BY <2>1, <2>3, <3>1, SettleKeeps
    <3> HIDE DEF next
    <3> QED
      BY <1>0, <2>1, <3>1, <3>2 DEF OrchInv, OrchTypeOK, ReviewFollowsSuccess,
         SuccessIsEarned, Phases, StopReasons
  <2> QED
    BY <1>3, <2>2, <2>3 DEF Answers
<1>4. CASE ProviderRaises
  <2>1. /\ round' \in Nat /\ phase \in Phases /\ UNCHANGED <<tools, outcome>>
        /\ EndWith("raised", phase)
    BY <1>4, <1>0 DEF ProviderRaises, Round, OrchTypeOK
  <2>2. /\ PathIsComplete' /\ EscalatedInTime' /\ GivesUpAtTheTop'
        /\ noProgress' \in Nat /\ tier' \in Nat /\ escalations' \in Nat
        /\ phase' = phase /\ stop' = "raised"
    BY <2>1, EndKeeps DEF StopReasons
  <2> QED
    BY <1>0, <2>1, <2>2 DEF OrchInv, OrchTypeOK, ReviewFollowsSuccess,
       SuccessIsEarned, StopReasons
<1>5. CASE OutOfRounds
  <2>1. /\ phase \in Phases /\ UNCHANGED <<round, tools, outcome>>
        /\ EndWith("max_round_trips_exhausted", phase)
    BY <1>5, <1>0 DEF OutOfRounds, OrchTypeOK
  <2>2. /\ PathIsComplete' /\ EscalatedInTime' /\ GivesUpAtTheTop'
        /\ noProgress' \in Nat /\ tier' \in Nat /\ escalations' \in Nat
        /\ phase' = phase /\ stop' = "max_round_trips_exhausted"
    BY <2>1, EndKeeps DEF StopReasons
  <2> QED
    BY <1>0, <2>1, <2>2 DEF OrchInv, OrchTypeOK, ReviewFollowsSuccess,
       SuccessIsEarned, StopReasons
<1>6. CASE UNCHANGED orchVars
  BY <1>6 DEF orchVars, OrchInv, OrchTypeOK, PathIsComplete, ReviewFollowsSuccess,
     EscalatedInTime, SuccessIsEarned, GivesUpAtTheTop
<1> QED
  BY <1>1, <1>2, <1>3, <1>4, <1>5, <1>6 DEF OrchNext

\* The inductive invariant of run_step: counters, context, path and phase
\* agree in every reachable state.
THEOREM OrchInvariantHolds == OrchSpec => []OrchInv
<1>1. OrchInit => OrchInv
  BY OrchInitial
<1>2. OrchInv /\ [OrchNext]_orchVars => OrchInv'
  BY OrchStep
<1> QED
  BY <1>1, <1>2, PTL DEF OrchSpec

\* run_step reports success only after a round of tools without a failure.
THEOREM OrchSuccessIsEarned == OrchSpec => []SuccessIsEarned
<1>1. OrchInv => SuccessIsEarned
  BY DEF OrchInv
<1> QED
  BY <1>1, OrchInvariantHolds, PTL

\* run_step gives up for lack of progress only when no larger context is left.
THEOREM OrchGivesUpAtTheTop == OrchSpec => []GivesUpAtTheTop
<1>1. OrchInv => GivesUpAtTheTop
  BY DEF OrchInv
<1> QED
  BY <1>1, OrchInvariantHolds, PTL

\* The escalation path names every context used, in order, up to the current one.
THEOREM OrchPathIsComplete == OrchSpec => []PathIsComplete
<1>1. OrchInv => PathIsComplete
  BY DEF OrchInv
<1> QED
  BY <1>1, OrchInvariantHolds, PTL

=============================================================================
