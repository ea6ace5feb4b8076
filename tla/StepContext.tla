----------------------------- MODULE StepContext -----------------------------
(***************************************************************************)
(* What the runner does before every attempt at a step: it compares the    *)
(* page with what the step last found there and takes a new snapshot, with *)
(* new references to the elements, unless nothing changed.  The records of *)
(* a run are kept in the database and outlive the process; the references  *)
(* and the browser do not.                                                 *)
(* Source: cache/engine.py, execution/snapshot.py, storage/repos/cache.py, *)
(* execution/runner.py.                                                    *)
(*                                                                         *)
(* The page changes while it is looked at.  Its main frame gets an id when *)
(* the tab opens, so the number of the session stands for it; a child      *)
(* frame gets one when it is attached.                                     *)
(***************************************************************************)
EXTENDS Integers

CONSTANTS
    StepsOfRun,    \* ids of the steps
    Urls,          \* addresses the tab can show
    Route,         \* the template of each address
    MaxTries,      \* attempts at a step
    MaxSessions, MaxChanges      \* bounds: processes, and changes of the page

ASSUME ContextAssumption ==
    /\ DOMAIN Route = Urls /\ MaxTries \in Nat \ {0}
    /\ MaxSessions \in Nat \ {0} /\ MaxChanges \in Nat

VARIABLES
    session,     \* the browser session, a number per process
    page,        \* what the tab shows; gone when it is closed
    record,      \* latest cache record of each step
    refs,        \* _ref_bindings: none, some or all elements of the latest snapshot
    begun,       \* snapshots this session began, as <<step, fingerprint>>
    look,        \* the attempt at hand
    changes

contextVars == <<session, page, record, refs, begun, look, changes>>

NoRecord == [route |-> "none", frames |-> {}, modal |-> FALSE, scope |-> 0]
NoLook == [stage |-> "idle", step |-> "none", try |-> 0, stale |-> FALSE, seen |-> NoRecord]

\* A new tab; child counts the child frames it ever had, has says whether one is there.
NewPage == {[url |-> u, modal |-> FALSE, scope |-> 0, child |-> 0, has |-> FALSE,
             gone |-> FALSE] : u \in Urls}

ContextInit ==
    /\ session = 1 /\ page \in NewPage
    /\ record = [s \in StepsOfRun |-> NoRecord]
    /\ refs = "none" /\ begun = {} /\ look = NoLook /\ changes = 0

-----------------------------------------------------------------------------
(* The page. *)

PageChanges ==
    /\ changes < MaxChanges /\ changes' = changes + 1 /\ ~page.gone
    /\ \/ \E u \in Urls : page' = [page EXCEPT !.url = u]
       \/ page' = [page EXCEPT !.modal = ~@]
       \/ page' = [page EXCEPT !.scope = 1 - @]
       \/ ~page.has /\ page' = [page EXCEPT !.has = TRUE, !.child = @ + 1]
       \/ page.has /\ page' = [page EXCEPT !.has = FALSE]
       \/ page' = [page EXCEPT !.gone = TRUE]
    /\ UNCHANGED <<session, record, refs, begun, look>>

\* _build_frame_signature: path, id and address of every frame.
FrameHash == {[id |-> <<session, 0>>, url |-> page.url]} \cup
             (IF page.has THEN {[id |-> <<session, page.child>>, url |-> "child"]} ELSE {})

-----------------------------------------------------------------------------
(* The runner. *)

BeginStep(s) ==
    /\ look.stage = "idle"
    /\ look' = [NoLook EXCEPT !.stage = "route", !.step = s, !.try = 1]
    /\ UNCHANGED <<session, page, record, refs, begun, changes>>

\* The process ends, at a step that failed for good, or is killed.
EndSession ==
    /\ session < MaxSessions /\ session' = session + 1
    /\ page' \in NewPage /\ refs' = "none" /\ begun' = {} /\ look' = NoLook
    /\ UNCHANGED <<record, changes>>

\* The attempt raised: the next one, if there is one, knows whether a reference
\* was stale.
AttemptFails(stale) ==
    IF look.try < MaxTries
    THEN look' = [look EXCEPT !.stage = "route", !.try = @ + 1, !.stale = stale,
                              !.seen = NoRecord]
    ELSE look' = [NoLook EXCEPT !.stage = "failed"]

TabIsGone ==
    /\ look.stage \in {"route", "modal", "scope", "capture"} /\ page.gone
    /\ \E stale \in BOOLEAN : AttemptFails(stale)
    /\ UNCHANGED <<session, page, record, refs, begun, changes>>

LookAtRoute ==
    /\ look.stage = "route" /\ ~page.gone
    /\ look' = [look EXCEPT !.stage = "modal",
                            !.seen.route = Route[page.url], !.seen.frames = FrameHash]
    /\ UNCHANGED <<session, page, record, refs, begun, changes>>

LookAtModal ==
    /\ look.stage = "modal" /\ ~page.gone
    /\ look' = [look EXCEPT !.stage = "scope", !.seen.modal = page.modal]
    /\ UNCHANGED <<session, page, record, refs, begun, changes>>

\* A signature of a page that has gone is a signature as well, 2 say.
LookAtScope ==
    /\ look.stage = "scope"
    /\ look' = [look EXCEPT !.stage = "decide",
                            !.seen.scope = IF page.gone THEN 2 ELSE page.scope]
    /\ UNCHANGED <<session, page, record, refs, begun, changes>>

\* A bug: frames are compared by their addresses.
MatchesUrls(f, g) ==
    /\ f.route = g.route /\ f.modal = g.modal /\ f.scope = g.scope
    /\ {x.url : x \in f.frames} = {x.url : x \in g.frames}

Matches(f, g) == f.route = g.route /\ f.modal = g.modal /\ f.scope = g.scope
                 /\ f.frames = g.frames

\* The latest row of a step stands for it.
SaveRecord(s, f) == record' = [record EXCEPT ![s] = f]

\* The decision is recorded before it is carried out.
Decide ==
    /\ look.stage = "decide"
    /\ LET last == record[look.step]
           same == last # NoRecord /\ ~look.stale /\ Matches(look.seen, last)
       IN  look' = [look EXCEPT !.stage = IF same THEN "reuse" ELSE "capture"]
    /\ SaveRecord(look.step, look.seen)
    /\ UNCHANGED <<session, page, refs, begun, changes>>

CaptureBegins ==
    /\ look.stage = "capture" /\ ~page.gone
    /\ refs' = "none" /\ begun' = begun \cup {<<look.step, look.seen>>}
    /\ look' = [look EXCEPT !.stage = "capturing"]
    /\ UNCHANGED <<session, page, record, changes>>

Captured ==
    /\ look.stage = "capturing" /\ ~page.gone
    /\ refs' = "all" /\ look' = [look EXCEPT !.stage = "act"]
    /\ UNCHANGED <<session, page, record, begun, changes>>

\* A frame navigated or went away while its elements were listed.
CaptureBreaks ==
    /\ look.stage = "capturing"
    /\ refs' \in {"none", "some"} /\ AttemptFails(FALSE)
    /\ UNCHANGED <<session, page, record, begun, changes>>

\* The conditions and the action of the step, with a new context or the old one.
ActPasses ==
    /\ look.stage \in {"reuse", "act"} /\ look' = NoLook
    /\ UNCHANGED <<session, page, record, refs, begun, changes>>

ActFails ==
    /\ look.stage \in {"reuse", "act"}
    /\ \E stale \in BOOLEAN : AttemptFails(stale)
    /\ UNCHANGED <<session, page, record, refs, begun, changes>>

ContextNext ==
    \/ PageChanges \/ EndSession \/ TabIsGone
    \/ LookAtRoute \/ LookAtModal \/ LookAtScope \/ Decide
    \/ CaptureBegins \/ Captured \/ CaptureBreaks \/ ActPasses \/ ActFails
    \/ \E s \in StepsOfRun : BeginStep(s)

ContextSpec == ContextInit /\ [][ContextNext]_contextVars

-----------------------------------------------------------------------------
(* A step goes on with the old context only where this browser session     *)
(* began a snapshot of exactly what it sees now: the records of an earlier *)
(* process of the run never stand in for references that went with it,     *)
(* whatever the page shows again (the ids in _build_frame_signature).      *)
ReuseSeenHere == look.stage = "reuse" => <<look.step, look.seen>> \in begun
=============================================================================
