-------------------------- MODULE InteractiveReplay --------------------------
(***************************************************************************)
(* The debugger-like replay of the dashboard: ui/replay_interactive.py and *)
(* the handle_interactive_* handlers of ui/dashboard.py.  One browser, a   *)
(* step graph in memory, and requests that run, edit, fix and save it.     *)
(* Edits hold the dashboard's lock and do not await: each is one action.   *)
(* Runs, probes and element picks await outside it.  Booting and closing   *)
(* against recorder and child process are in Dashboard.                    *)
(***************************************************************************)
EXTENDS Naturals, Sequences, FiniteSets, SequencesExt, ListOps

CONSTANTS Steps0,        \* the step list on disk
          NewSteps,      \* ids an insertion may generate
          Uploads,       \* the steps whose action is "upload"
          SelectorsOf,   \* the selectors of a step, primary first; <<>>: no locator
          UploadExtras,  \* _UPLOAD_FORCE_FIX_EXTRA_FALLBACKS
          MaxReplaySessions, MaxRequests,   \* sessions, and requests of the page, of a behaviour
          RunsAtOnce,    \* run requests under way; the page allows one (dashboard.html:877)
          None

StepIds == Range(Steps0) \cup NewSteps
Sessions == 1..MaxReplaySessions

ASSUME InteractiveAssumption ==
    /\ Steps0 \in Seq(Range(Steps0)) /\ IsInjective(Steps0)
    /\ NewSteps \cap Range(Steps0) = {} /\ Uploads \subseteq StepIds
    /\ SelectorsOf \in [StepIds -> Seq(UNION {Range(SelectorsOf[s]) : s \in StepIds})]
    /\ None \notin StepIds
    /\ {MaxReplaySessions, MaxRequests, RunsAtOnce} \subseteq Nat

VARIABLES requests,  \* how many the page has sent
          fresh,     \* ids no insertion has generated yet
          disk,      \* stepgraph.json: its steps, edges and targets
          current,   \* dashboard._interactive: a session, 0 for none
          live,      \* what became of the browser of each session
          graph,     \* self.graph of each session, as on disk
          errors,    \* _upload_last_errors
          ending,    \* how the last finished run of an upload step ended
          runs,      \* the run requests
          fixes,     \* the force-fix requests
          matched,   \* <<session, step, selector>> a probe found on the page
          pick       \* begun picks, __agentPickIntent, builds under way, _pick_result

vars == <<requests, fresh, disk, current, live, graph, errors, ending, runs, fixes, matched, pick>>

\* _rebuild_linear_edges
Linear(steps) == {<<steps[i], steps[i + 1]>> : i \in 1..(Len(steps) - 1)}

Init ==
    /\ requests = 0 /\ fresh = NewSteps
    /\ disk = [steps |-> Steps0, edges |-> Linear(Steps0), target |-> SelectorsOf]
    /\ current = 0 /\ live = [i \in Sessions |-> "none"]
    /\ graph = [i \in Sessions |-> None]
    /\ errors = [i \in Sessions |-> {}]
    /\ ending = [i \in Sessions |-> [s \in Uploads |-> "none"]]
    /\ runs = <<>> /\ fixes = <<>> /\ matched = {}
    /\ pick = [begun |-> 0, intent |-> 0, building |-> {}, result |-> 0]

Request == requests < MaxRequests /\ requests' = requests + 1

-----------------------------------------------------------------------------
(* Start and stop.  The pointer is cleared first, the browser then closed. *)

NoPick == [pick EXCEPT !.intent = 0, !.result = 0]

Start(i) ==
    /\ Request
    /\ current = 0 /\ live[i] = "none" /\ \A j \in 1..(i - 1) : live[j] # "none"
    /\ current' = i /\ live' = [live EXCEPT ![i] = "open"]
    /\ graph' = [graph EXCEPT ![i] = disk] /\ pick' = NoPick
    /\ UNCHANGED <<fresh, disk, errors, ending, runs, fixes, matched>>

Stop ==
    /\ Request
    /\ current # 0 /\ current' = 0 /\ live' = [live EXCEPT ![current] = "closing"]
    /\ UNCHANGED <<fresh, disk, graph, errors, ending, runs, fixes, matched, pick>>

Closed(i) ==
    /\ live[i] = "closing" /\ live' = [live EXCEPT ![i] = "closed"]
    /\ graph' = [graph EXCEPT ![i] = None]
    /\ pick' = IF current = 0 THEN NoPick ELSE pick
    /\ UNCHANGED <<requests, fresh, disk, current, errors, ending, runs, fixes, matched>>

-----------------------------------------------------------------------------
(* Running one step, or the steps between two of them.  The list to run is *)
(* taken when the request comes; edits bind a new list.                    *)

Active == current # 0
Steps == graph[current].steps
UnderWay == {c \in DOMAIN runs : runs[c].doing # None}

\* Each step starts by forgetting its last upload error.
ForgetError(i, s) == errors' = [errors EXCEPT ![i] = @ \ {s}]

Run(kind, ids) ==
    /\ Request
    /\ Cardinality(UnderWay) < RunsAtOnce
    /\ runs' = Append(runs, [kind |-> kind, session |-> current, doing |-> Head(ids), todo |-> Tail(ids)])
    /\ ForgetError(current, Head(ids))
    /\ UNCHANGED <<fresh, disk, current, live, graph, ending, fixes, matched, pick>>

RunStep == Active /\ \E s \in Range(Steps) : Run("step", <<s>>)

RunRange == Active /\ \E i \in 1..Len(Steps) : \E j \in i..Len(Steps) : Run("range", SubSeq(Steps, i, j))

Finish(c, result, after) ==
    LET i == runs[c].session  s == runs[c].doing IN
    /\ ending' = IF s \in Uploads THEN [ending EXCEPT ![i][s] = result] ELSE ending
    /\ runs' = [runs EXCEPT ![c].doing = after, ![c].todo = IF @ = <<>> THEN @ ELSE Tail(@)]

\* A range goes on without forgetting the last error of the next step.
StepPassesKeeping(c) ==
    LET i == runs[c].session  s == runs[c].doing  todo == runs[c].todo IN
    /\ s # None /\ live[i] # "closed"
    /\ IF todo = <<>> THEN Finish(c, "passed", None)
                      ELSE Finish(c, "passed", Head(todo))
    /\ IF todo = <<>> /\ runs[c].kind = "step" THEN ForgetError(i, s) ELSE UNCHANGED errors
    /\ UNCHANGED <<requests, fresh, disk, current, live, graph, fixes, matched, pick>>

StepPasses(c) ==
    LET i == runs[c].session  s == runs[c].doing  todo == runs[c].todo IN
    /\ s # None /\ live[i] # "closed"
    /\ IF todo = <<>> THEN Finish(c, "passed", None)
                      ELSE Finish(c, "passed", Head(todo))
    /\ IF todo # <<>> THEN ForgetError(i, Head(todo))
       ELSE IF runs[c].kind = "step" THEN ForgetError(i, s) ELSE UNCHANGED errors
    /\ UNCHANGED <<requests, fresh, disk, current, live, graph, fixes, matched, pick>>

\* The runner raises, or there is no runner any more: the run ends there.
StepFails(c) ==
    LET i == runs[c].session  s == runs[c].doing IN
    /\ s # None /\ Finish(c, "failed", None)
    /\ errors' = [errors EXCEPT ![i] = IF s \in Uploads THEN @ \cup {s} ELSE @]
    /\ UNCHANGED <<requests, fresh, disk, current, live, graph, fixes, matched, pick>>

-----------------------------------------------------------------------------
(* Editing and saving. *)

Relinked(steps) == [graph[current] EXCEPT !.steps = steps, !.edges = Linear(steps)]

DropStep(s) ==
    /\ Request
    /\ Active /\ s \in Range(Steps)
    /\ graph' = [graph EXCEPT ![current] = Relinked(Keep(Steps, Range(Steps) \ {s}))]
    /\ ForgetError(current, s)
    /\ UNCHANGED <<fresh, disk, current, live, ending, runs, fixes, matched, pick>>

\* After a step of the list, first ("__prepend__", i = 0) or last ("__append__").
InsertStep(s) ==
    /\ Request /\ fresh' = fresh \ {s}
    /\ Active /\ s \in fresh
    /\ \E i \in 0..Len(Steps) : graph' = [graph EXCEPT ![current] = Relinked(InsertAt(Steps, i + 1, s))]
    /\ UNCHANGED <<disk, current, live, errors, ending, runs, fixes, matched, pick>>

Save ==
    /\ Request
    /\ Active /\ disk' = graph[current]
    /\ UNCHANGED <<fresh, current, live, graph, errors, ending, runs, fixes, matched, pick>>

-----------------------------------------------------------------------------
(* Force fix: probe the page outside the lock, look for the upload area,   *)
(* and change the step if the session is still the one that was probed.    *)

\* _enrich_upload_bundle_with_known_fallbacks
Enriched(target) == target \o SelectSeq(UploadExtras, LAMBDA x : x \notin Range(target))

\* _force_fix_locator_bundle: primary first, then the fallbacks in their order.
ForceFixed(target) == <<Head(target)>> \o Tail(target)

ProbeStep ==
    /\ Request
    /\ Active
    /\ \E s \in Range(Steps) : fixes' = Append(fixes, [session |-> current, step |-> s, at |-> "probe"])
    /\ UNCHANGED <<fresh, disk, current, live, graph, errors, ending, runs, matched, pick>>

SetFix(f, place) == fixes' = [fixes EXCEPT ![f].at = place]

ProbeFails(f) ==
    /\ fixes[f].at = "probe" /\ SetFix(f, "refused")
    /\ UNCHANGED <<requests, fresh, disk, current, live, graph, errors, ending, runs, matched, pick>>

ProbeMatches(f) ==
    LET i == fixes[f].session  s == fixes[f].step IN
    /\ fixes[f].at = "probe" /\ live[i] # "closed"
    /\ \E x \in Range(SelectorsOf[s]) : matched' = matched \cup {<<i, s, x>>}
    /\ SetFix(f, IF s \in Uploads THEN "area" ELSE "matched")
    /\ UNCHANGED <<requests, fresh, disk, current, live, graph, errors, ending, runs, pick>>

ProbeUploadArea(f) ==
    /\ fixes[f].at = "area" /\ \E p \in {"matched", "matched with area"} : SetFix(f, p)
    /\ UNCHANGED <<requests, fresh, disk, current, live, graph, errors, ending, runs, matched, pick>>

NewTarget(f) ==
    LET old == graph[current].target[fixes[f].step] IN
    ForceFixed(IF fixes[f].at = "matched with area" THEN Enriched(old) ELSE old)

Matched(f) == fixes[f].at \in {"matched", "matched with area"}

\* The session is not compared with the one that was probed.
ApplyFixAnywhere(f) ==
    /\ Matched(f) /\ Active
    /\ fixes[f].step \in Range(Steps) /\ SetFix(f, "fixed")
    /\ graph' = [graph EXCEPT ![current].target[fixes[f].step] = NewTarget(f)]
    /\ UNCHANGED <<requests, fresh, disk, current, live, errors, ending, runs, matched, pick>>

ApplyFix(f) ==
    /\ Matched(f) /\ Active /\ current = fixes[f].session
    /\ fixes[f].step \in Range(Steps) /\ SetFix(f, "fixed")
    /\ graph' = [graph EXCEPT ![current].target[fixes[f].step] = NewTarget(f)]
    /\ UNCHANGED <<requests, fresh, disk, current, live, errors, ending, runs, matched, pick>>

\* The session stopped or changed, or the step was deleted meanwhile.
RefuseFix(f) ==
    /\ Matched(f)
    /\ Active /\ current = fixes[f].session => fixes[f].step \notin Range(Steps)
    /\ SetFix(f, "refused")
    /\ UNCHANGED <<requests, fresh, disk, current, live, graph, errors, ending, runs, matched, pick>>

-----------------------------------------------------------------------------
(* Picking an element: the intent is set in the page, the page's commit    *)
(* clears it and calls a binding, which builds a locator before it answers.*)

BeginPick ==
    /\ Request
    /\ Active
    /\ pick' = [pick EXCEPT !.begun = @ + 1, !.intent = pick.begun + 1, !.result = 0]
    /\ UNCHANGED <<fresh, disk, current, live, graph, errors, ending, runs, fixes, matched>>

Commit ==
    /\ Active /\ pick.intent # 0
    /\ pick' = [pick EXCEPT !.intent = 0, !.building = @ \cup {<<current, pick.intent>>}]
    /\ UNCHANGED <<requests, fresh, disk, current, live, graph, errors, ending, runs, fixes, matched>>

\* A build that fails, or an element without text, leaves no result.
Built(b) ==
    /\ \E result \in {pick.result, b[2]} :
          pick' = [pick EXCEPT !.building = @ \ {b}, !.result = IF current = b[1] THEN result ELSE @]
    /\ UNCHANGED <<requests, fresh, disk, current, live, graph, errors, ending, runs, fixes, matched>>

CancelPick ==
    /\ Request
    /\ Active /\ pick' = [pick EXCEPT !.intent = 0]
    /\ UNCHANGED <<fresh, disk, current, live, graph, errors, ending, runs, fixes, matched>>

ConsumePick ==
    /\ Request
    /\ Active /\ pick' = [pick EXCEPT !.result = 0]
    /\ UNCHANGED <<fresh, disk, current, live, graph, errors, ending, runs, fixes, matched>>

-----------------------------------------------------------------------------
Session == Stop \/ \E i \in Sessions : Start(i) \/ Closed(i)
Running == RunStep \/ RunRange \/ \E c \in DOMAIN runs : StepPasses(c) \/ StepFails(c)
Editing == Save \/ \E s \in StepIds : DropStep(s) \/ InsertStep(s)
Fixing == ProbeStep \/ \E f \in DOMAIN fixes :
    ProbeFails(f) \/ ProbeMatches(f) \/ ProbeUploadArea(f) \/ ApplyFix(f) \/ RefuseFix(f)
Picking == BeginPick \/ Commit \/ CancelPick \/ ConsumePick \/ \E b \in pick.building : Built(b)

Next == Session \/ Running \/ Editing \/ Fixing \/ Picking
Spec == Init /\ [][Next]_vars

-----------------------------------------------------------------------------
(* Properties. *)

Doing(i) == {runs[c].doing : c \in {d \in DOMAIN runs : runs[d].session = i}}

\* With one run at a time, as the page has it, the error the list shows at an
\* upload step is that of its last run: it appears when the run fails and is gone
\* when it is run again, alone or within a range (run_step_id, run_range).
ErrorsAreCurrent ==
    RunsAtOnce = 1 =>
        \A i \in Sessions : graph[i] # None =>
            \A s \in Uploads \cap Range(graph[i].steps) :
                s \in errors[i] <=> ending[i][s] = "failed" /\ s \notin Doing(i)

\* A fix changes a step only in the session whose page matched a selector of that
\* step, although the probe awaits outside the lock (handle_interactive_force_fix).
FixedWhereProbed ==
    [][\A s \in StepIds :
        (current # 0 /\ current' = current /\ graph'[current].target[s] # graph[current].target[s])
            => \E x \in Range(SelectorsOf[s]) : <<current, s, x>> \in matched]_vars

=============================================================================
