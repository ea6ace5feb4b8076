------------------------------- MODULE Memory --------------------------------
(***************************************************************************)
(* The memory of an agent: raw evidence, entries compiled from it, learned *)
(* repairs and their life, the schema and policy in force, and the records *)
(* of contradictions.  Some of it are rows of the database, some are files *)
(* in the directory of the runs; every client of the stores reads and      *)
(* writes them in steps of its own, and may end between two of them.       *)
(* A repair is a new candidate with an identifier of its own; upsert, and  *)
(* a candidate stored under a given identifier, write whatever state they  *)
(* are handed, and nothing of the package calls them.                      *)
(* Source: memory/, storage/repos/memory.py.                               *)
(***************************************************************************)
EXTENDS Integers, FiniteSets

CONSTANTS
    Clients,
    PromoteAfter, DegradeAfter, RetireAfter, RevalidateAfter,  \* RepairLifecyclePolicy
    EvidenceIds,
    Configs, Pairs,     \* config versions, and pairs of schema and policy
    MaxWork             \* bound: calls of the stores

ASSUME LifecycleAssumption ==
    /\ PromoteAfter \in Nat \ {0} /\ RevalidateAfter \in Nat \ {0}
    /\ DegradeAfter \in Nat \ {0} /\ RetireAfter \in Nat /\ RetireAfter > DegradeAfter
    /\ MaxWork \in Nat

VARIABLES
    repair,      \* a row of learned_repairs
    successes,   \* successful validations of it that were saved
    rows,        \* raw_evidence
    lines,       \* raw_evidence.jsonl of the runs
    entry,       \* a row of compiled_memory
    history,     \* schema_policy_versions.jsonl
    inForce,      \* schema_policy_active.json
    snapshots, records,    \* contradiction_rollbacks/ and contradictions.jsonl
    task,        \* what a client is at, and what it has read
    work

memoryVars == <<repair, successes, rows, lines, entry, history, inForce,
                snapshots, records, task, work>>
evidenceVars == <<rows, lines, entry>>
policyVars == <<history, inForce>>
conflictVars == <<snapshots, records>>

NewRepair == [state |-> "candidate", good |-> 0, bad |-> 0]
NoVersion == [config |-> "none", pair |-> "none"]
NoTask == [op |-> "none"]

MemoryInit ==
    /\ repair = NewRepair /\ successes = 0
    /\ rows = {} /\ lines = {} /\ entry = [version |-> 0, ids |-> {}]
    /\ history = {} /\ inForce = NoVersion
    /\ snapshots = {} /\ records = {}
    /\ task = [c \in Clients |-> NoTask] /\ work = 0

Call(c, t) == /\ task[c] = NoTask /\ work < MaxWork /\ work' = work + 1
              /\ task' = [task EXCEPT ![c] = t]

GoesOn(c, t) == task' = [task EXCEPT ![c] = t] /\ UNCHANGED work

-----------------------------------------------------------------------------
(* Learned repairs: a validation counts in a row, and moves the repair.    *)

\* A bug: validations are counted, not successful ones.
NextStateAny(state, good, bad) ==
    CASE state = "candidate" -> IF good + bad >= PromoteAfter THEN "trusted" ELSE state
      [] state = "trusted" -> IF bad >= DegradeAfter THEN "degraded" ELSE state
      [] state = "degraded" -> IF bad >= RetireAfter THEN "retired"
                               ELSE IF good >= RevalidateAfter THEN "trusted" ELSE state
      [] state = "retired" -> state

NextState(state, good, bad) ==
    CASE state = "candidate" -> IF good >= PromoteAfter THEN "trusted" ELSE state
      [] state = "trusted" -> IF bad >= DegradeAfter THEN "degraded" ELSE state
      [] state = "degraded" -> IF bad >= RetireAfter THEN "retired"
                               ELSE IF good >= RevalidateAfter THEN "trusted" ELSE state
      [] state = "retired" -> state

\* record_validation loads the repair; a retired one stays as it is.
Validate(c) ==
    /\ repair.state # "retired"
    /\ \E ok \in BOOLEAN : Call(c, [op |-> "validate", ok |-> ok, was |-> repair])
    /\ UNCHANGED <<repair, successes, evidenceVars, policyVars, conflictVars>>

\* The repair with one more validation in the row.
AfterValidation(r, ok) ==
    LET good == IF ok THEN r.good + 1 ELSE 0
        bad == IF ok THEN 0 ELSE r.bad + 1
    IN  [state |-> NextState(r.state, good, bad), good |-> good, bad |-> bad]

\* It is saved over what others saved meanwhile.
Validated(c) ==
    /\ task[c].op = "validate"
    /\ repair' = AfterValidation(task[c].was, task[c].ok)
    /\ successes' = successes + (IF task[c].ok THEN 1 ELSE 0)
    /\ GoesOn(c, NoTask)
    /\ UNCHANGED <<evidenceVars, policyVars, conflictVars>>

-----------------------------------------------------------------------------
(* Evidence, and the entries that rest on it. *)

\* append_record: the row, unless there is one with this id, then the line.
AppendEvidence(c) ==
    /\ \E e \in EvidenceIds \ rows :
         /\ rows' = rows \cup {e}
         /\ Call(c, [op |-> "evidence", id |-> e])
    /\ UNCHANGED <<repair, successes, lines, entry, policyVars, conflictVars>>

EvidenceLine(c) ==
    /\ task[c].op = "evidence"
    /\ lines' = lines \cup {task[c].id}
    /\ GoesOn(c, NoTask)
    /\ UNCHANGED <<repair, successes, rows, entry, policyVars, conflictVars>>

\* upsert_entry: some evidence, all of it known; then the version is read, and written.
Upsert(c) ==
    /\ \E ids \in SUBSET rows \ {{}} :
         Call(c, [op |-> "upsert", ids |-> ids, version |-> entry.version])
    /\ UNCHANGED <<repair, successes, evidenceVars, policyVars, conflictVars>>

Upserted(c) ==
    /\ task[c].op = "upsert"
    /\ entry' = [version |-> task[c].version + 1, ids |-> task[c].ids]
    /\ GoesOn(c, NoTask)
    /\ UNCHANGED <<repair, successes, rows, lines, policyVars, conflictVars>>

-----------------------------------------------------------------------------
(* The schema and policy in force. *)

\* Refused when the active config version stands for another pair, skipped when
\* it stands for this one.
Activate(c) ==
    /\ \E v \in [config : Configs, pair : Pairs] :
         /\ v.config # inForce.config
         /\ Call(c, [op |-> "activate", version |-> v])
    /\ UNCHANGED <<repair, successes, evidenceVars, policyVars, conflictVars>>

\* A bug: the active version is overwritten before the history knows the new one.
AppendHistoryLate(c) ==
    /\ task[c].op = "activate" /\ inForce' = task[c].version
    /\ GoesOn(c, [op |-> "write", version |-> task[c].version])
    /\ UNCHANGED <<repair, successes, evidenceVars, history, conflictVars>>

AppendHistory(c) ==
    /\ task[c].op = "activate" /\ history' = history \cup {task[c].version}
    /\ GoesOn(c, [op |-> "truncate", version |-> task[c].version])
    /\ UNCHANGED <<repair, successes, evidenceVars, inForce, conflictVars>>

\* write_text empties the file first; an empty file is no active version.
Truncate(c) ==
    /\ task[c].op = "truncate" /\ inForce' = NoVersion
    /\ GoesOn(c, [op |-> "write", version |-> task[c].version])
    /\ UNCHANGED <<repair, successes, evidenceVars, history, conflictVars>>

Activated(c) ==
    /\ task[c].op = "write" /\ inForce' = task[c].version
    /\ GoesOn(c, NoTask)
    /\ UNCHANGED <<repair, successes, evidenceVars, history, conflictVars>>

-----------------------------------------------------------------------------
(* Contradictions: the type, the decision, and what remains of the old value. *)

TypeOfConflict(route, frame, stale) ==
    IF stale THEN "stale_locator"
    ELSE IF route \/ frame THEN "structure_drift" ELSE "content_drift"

\* confidence: how the new one compares with the old, "unknown" when one is missing.
Decision(type, confidence, validated, manual) ==
    CASE manual \/ ~validated -> "require_manual_review"
      [] ~manual /\ validated /\ confidence = "no less" -> "accept_new"
      [] ~manual /\ validated /\ confidence = "less" -> "dual_track_with_fallback"
      [] ~manual /\ validated /\ confidence = "unknown" ->
            IF type = "stale_locator" THEN "accept_new" ELSE "keep_old"

\* resolve: the snapshot to roll back to is written before the record.
Resolve(c) ==
    /\ \E route, frame, stale, validated, manual \in BOOLEAN,
          confidence \in {"no less", "less", "unknown"} :
         Call(c, [op |-> "resolve", id |-> work,
                  decision |-> Decision(TypeOfConflict(route, frame, stale),
                                        confidence, validated, manual)])
    /\ snapshots' = snapshots \cup {work}
    /\ UNCHANGED <<repair, successes, evidenceVars, policyVars, records>>

Resolved(c) ==
    /\ task[c].op = "resolve"
    /\ records' = records \cup {[id |-> task[c].id, decision |-> task[c].decision]}
    /\ GoesOn(c, NoTask)
    /\ UNCHANGED <<repair, successes, evidenceVars, policyVars, snapshots>>

-----------------------------------------------------------------------------
\* The process of a client ends, or a call raises.
Dies(c) ==
    /\ task[c] # NoTask /\ GoesOn(c, NoTask)
    /\ UNCHANGED <<repair, successes, evidenceVars, policyVars, conflictVars>>

MemoryNext == \E c \in Clients :
    \/ Validate(c) \/ Validated(c) \/ AppendEvidence(c) \/ EvidenceLine(c)
    \/ Upsert(c) \/ Upserted(c)
    \/ Activate(c) \/ AppendHistory(c) \/ Truncate(c) \/ Activated(c)
    \/ Resolve(c) \/ Resolved(c) \/ Dies(c)

MemorySpec == MemoryInit /\ [][MemoryNext]_memoryVars

-----------------------------------------------------------------------------
(* A repair leaves the candidates only after as many successful            *)
(* validations as the policy asks for, however validations of several      *)
(* clients overwrite each other (_resolve_state).                          *)
TrustIsEarned == repair.state # "candidate" => successes >= PromoteAfter

(* Whenever a client dies, nothing refers to what is not there: lines of   *)
(* the evidence file have their rows, the active version is one of the     *)
(* history, a recorded contradiction can be rolled back, and entries rest  *)
(* on evidence there is.                                                   *)
NothingDangles ==
    /\ lines \subseteq rows /\ entry.ids \subseteq rows
    /\ inForce = NoVersion \/ inForce \in history
    /\ {r.id : r \in records} \subseteq snapshots
=============================================================================
