---------------------------- MODULE PanelVersions ----------------------------
(***************************************************************************)
(* The step list of a panel session and its saved versions, and what each  *)
(* panel shows of it.  The server owns the list; a panel keeps its own,    *)
(* changed by what the server announces and, for a deletion, by itself.    *)
(* Source: cli/panel_cmd.py, stepgraph/versions.py, panel/web/panel.html.  *)
(*                                                                         *)
(* A step is its id: what the versions keep of a step besides is not       *)
(* modelled.  An announcement is put on the way to all panels at once      *)
(* (PanelBridge.send waits only when a socket is full).                    *)
(***************************************************************************)
EXTENDS Integers, Sequences, SequencesExt, ListOps

CONSTANTS
    Viewers,      \* the connected panels
    Names,        \* names of versions, without "main"
    FirstSteps,   \* steps recorded before
    MaxSteps,     \* bound: ids that are ever given out
    MaxEdits      \* bound: messages the panels send

ASSUME VersionsAssumption ==
    FirstSteps \in Nat /\ MaxSteps \in Nat /\ FirstSteps <= MaxSteps /\ MaxEdits \in Nat

VARIABLES
    steps,      \* step_graph.steps
    lastId,     \* ids given out so far
    original,   \* _original_steps
    versions,   \* steps_snapshot_json of each name, Missing when there is none
    file,       \* the step graph of a file the user saved, Missing when there is none
    view,       \* state.steps of each panel
    toServer, toPanel,   \* messages on their way
    job,        \* the handler a connection is in between two awaits
    edits

versionVars ==
    <<steps, lastId, original, versions, file, view, toServer, toPanel, job, edits>>

Missing == <<0>>
Free == [kind |-> "none", name |-> "none", list |-> <<>>]

VersionsInit ==
    /\ steps = [i \in 1..FirstSteps |-> i] /\ lastId = FirstSteps
    /\ original = <<>> /\ versions = [n \in Names |-> Missing] /\ file = Missing
    /\ view = [p \in Viewers |-> steps]
    /\ toServer = [p \in Viewers |-> <<>>] /\ toPanel = [p \in Viewers |-> <<>>]
    /\ job = [p \in Viewers |-> Free] /\ edits = 0

-----------------------------------------------------------------------------
(* What the server announces. *)

Tell(m) == toPanel' = [p \in Viewers |-> Append(toPanel[p], m)]

Appended(id) == [type |-> "step_appended", list |-> <<id>>]
Loaded(list) == [type |-> "version_loaded", list |-> list]

Hear(p) ==
    /\ toPanel[p] # <<>>
    /\ LET m == Head(toPanel[p]) IN
       view' = [view EXCEPT ![p] = IF m.type = "step_appended" THEN @ \o m.list ELSE m.list]
    /\ toPanel' = [toPanel EXCEPT ![p] = Tail(@)]
    /\ UNCHANGED <<steps, lastId, original, versions, file, toServer, job, edits>>

-----------------------------------------------------------------------------
(* What a panel sends.  Saving names the steps the panel shows. *)

Post(p, m) ==
    /\ edits < MaxEdits /\ edits' = edits + 1
    /\ toServer' = [toServer EXCEPT ![p] = Append(@, m)]
    /\ UNCHANGED <<steps, lastId, original, versions, file, toPanel, job>>

\* A step the user describes, behind a step shown or at the end; a step that LLM Build
\* built, behind the last step shown.
PostAppend(p) ==
    /\ \E after \in Range(view[p]) \cup {0} :
         Post(p, [type |-> "append", name |-> "none", ids |-> {after}])
    /\ UNCHANGED view

PostDuplicate(p) ==
    /\ \E id \in Range(view[p]) :
         Post(p, [type |-> "duplicate", name |-> "none", ids |-> {id}])
    /\ UNCHANGED view

\* The panel drops the step without waiting for the server.
PostDelete(p) ==
    \E id \in Range(view[p]) :
        /\ Post(p, [type |-> "delete", name |-> "none", ids |-> {id}])
        /\ view' = [view EXCEPT ![p] = Keep(@, Range(@) \ {id})]

PostVersion(p) ==
    /\ \E n \in Names, t \in {"save", "load", "delete_version"} :
         /\ t = "save" => view[p] # <<>>
         /\ Post(p, [type |-> t, name |-> n, ids |-> Range(view[p])])
    /\ UNCHANGED view

\* The buttons of the panel save the recording to a file and load one.
PostFile(p) ==
    /\ \E t \in {"save_to_file", "load_from_file"} :
         /\ t = "save_to_file" => view[p] # <<>>
         /\ Post(p, [type |-> t, name |-> "none", ids |-> {}])
    /\ UNCHANGED view

PostMain(p) ==
    /\ Post(p, [type |-> "load", name |-> "main", ids |-> {}])
    /\ UNCHANGED view

Reload(p) ==
    /\ edits < MaxEdits /\ edits' = edits + 1
    /\ toServer[p] = <<>> /\ job[p] = Free
    /\ view' = [view EXCEPT ![p] = <<>>]
    /\ toPanel' = [q \in Viewers |-> IF q = p THEN <<Loaded(steps)>>
                                     ELSE Append(toPanel[q], Loaded(steps))]
    /\ UNCHANGED <<steps, lastId, original, versions, file, toServer, job>>

-----------------------------------------------------------------------------
(* The handlers. *)

Got(p, type) ==
    /\ job[p] = Free /\ toServer[p] # <<>> /\ Head(toServer[p]).type = type
    /\ toServer' = [toServer EXCEPT ![p] = Tail(@)]

\* A step behind another, at the end when that is gone or there is none.
InsertBehind(after) ==
    LET i == SelectInSeq(steps, LAMBDA s : s = after)
        at == IF i = 0 THEN Len(steps) + 1 ELSE i + 1
    IN  /\ lastId < MaxSteps /\ lastId' = lastId + 1
        /\ steps' = InsertAt(steps, at, lastId + 1)

\* handle_append_step, and handle_insert_built_step, which places its step alike.
AppendStep(p) ==
    /\ Got(p, "append")
    /\ \E after \in Head(toServer[p]).ids : InsertBehind(after)
    /\ Tell(Appended(lastId + 1))
    /\ UNCHANGED <<original, versions, file, view, job, edits>>

\* A bug: the new step is announced by the next list only.
DuplicateStepSilent(p) ==
    /\ Got(p, "duplicate")
    /\ \E id \in Head(toServer[p]).ids :
         IF id \in Range(steps)
         THEN InsertBehind(id) /\ UNCHANGED toPanel
         ELSE UNCHANGED <<steps, lastId, toPanel>>
    /\ UNCHANGED <<original, versions, file, view, job, edits>>

DuplicateStep(p) ==
    /\ Got(p, "duplicate")
    /\ \E id \in Head(toServer[p]).ids :
         IF id \in Range(steps)
         THEN InsertBehind(id) /\ Tell(Appended(lastId + 1))
         ELSE UNCHANGED <<steps, lastId, toPanel>>
    /\ UNCHANGED <<original, versions, file, view, job, edits>>

DeleteStep(p) ==
    /\ Got(p, "delete")
    /\ steps' = Keep(steps, Range(steps) \ Head(toServer[p]).ids)
    /\ UNCHANGED <<lastId, original, versions, file, view, toPanel, job, edits>>

\* A step that auto-recording adds.
RecordStep ==
    /\ lastId < MaxSteps /\ lastId' = lastId + 1
    /\ steps' = Append(steps, lastId + 1)
    /\ Tell(Appended(lastId + 1))
    /\ UNCHANGED <<original, versions, file, view, toServer, job, edits>>

SaveVersion(p) ==
    /\ Got(p, "save")
    /\ original' = IF original = <<>> THEN steps ELSE original
    /\ LET m == Head(toServer[p]) IN
       job' = [job EXCEPT ![p] = [kind |-> "save", name |-> m.name,
                                  list |-> Keep(steps, m.ids)]]
    /\ UNCHANGED <<steps, lastId, versions, file, view, toPanel, edits>>

SaveWritten(p) ==
    /\ job[p].kind = "save"
    /\ versions' = [versions EXCEPT ![job[p].name] = job[p].list]
    /\ job' = [job EXCEPT ![p] = Free]
    /\ UNCHANGED <<steps, lastId, original, view, toServer, toPanel, edits, file>>

LoadMain(p) ==
    /\ Got(p, "load") /\ Head(toServer[p]).name = "main"
    /\ steps' = IF original = <<>> THEN steps ELSE original
    /\ Tell(Loaded(steps'))
    /\ UNCHANGED <<lastId, original, versions, file, view, job, edits>>

LoadVersion(p) ==
    /\ Got(p, "load") /\ Head(toServer[p]).name # "main"
    /\ LET n == Head(toServer[p]).name IN
       job' = [job EXCEPT ![p] = [kind |-> "load", name |-> n, list |-> versions[n]]]
    /\ UNCHANGED <<steps, lastId, original, versions, file, view, toPanel, edits>>

LoadedVersion(p) ==
    /\ job[p].kind = "load"
    /\ IF job[p].list = Missing THEN UNCHANGED <<steps, toPanel>>
       ELSE steps' = job[p].list /\ Tell(Loaded(job[p].list))
    /\ job' = [job EXCEPT ![p] = Free]
    /\ UNCHANGED <<lastId, original, versions, file, view, toServer, edits>>

DeleteVersion(p) ==
    /\ Got(p, "delete_version")
    /\ versions' = [versions EXCEPT ![Head(toServer[p]).name] = Missing]
    /\ UNCHANGED <<steps, lastId, original, view, toPanel, job, edits, file>>

\* The dialog of the operating system stops the server until it is answered.
SaveToFile(p) ==
    /\ Got(p, "save_to_file")
    /\ file' \in {file, steps}
    /\ UNCHANGED <<steps, lastId, original, versions, view, toPanel, job, edits>>

LoadFromFile(p) ==
    /\ Got(p, "load_from_file")
    /\ \/ UNCHANGED <<steps, toPanel>>
       \/ file # Missing /\ steps' = file /\ Tell(Loaded(file))
    /\ UNCHANGED <<lastId, original, versions, file, view, job, edits>>

PanelActs(p) ==
    PostAppend(p) \/ PostDuplicate(p) \/ PostDelete(p) \/ PostVersion(p)
    \/ PostFile(p) \/ PostMain(p) \/ Reload(p) \/ Hear(p)

ServerActs(p) ==
    AppendStep(p) \/ DuplicateStep(p) \/ DeleteStep(p) \/ SaveVersion(p)
    \/ SaveWritten(p) \/ LoadMain(p) \/ LoadVersion(p) \/ LoadedVersion(p)
    \/ DeleteVersion(p) \/ SaveToFile(p) \/ LoadFromFile(p)

VersionsNext == RecordStep \/ \E p \in Viewers : PanelActs(p) \/ ServerActs(p)

VersionsSpec == VersionsInit /\ [][VersionsNext]_versionVars

-----------------------------------------------------------------------------
(* A panel that has heard everything, and whose messages are handled,      *)
(* shows every step a replay would perform, whatever the other panels and  *)
(* the recorder did: no handler adds steps behind its back, and a deletion *)
(* it made itself does not hide a step the server kept.                    *)
NoHiddenStep ==
    \A p \in Viewers :
        toPanel[p] = <<>> /\ toServer[p] = <<>> => Range(steps) \subseteq Range(view[p])

=============================================================================
