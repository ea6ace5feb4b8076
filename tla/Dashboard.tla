------------------------------ MODULE Dashboard ------------------------------
(***************************************************************************)
(* The dashboard server, ui/dashboard.py: one process, one event loop, one *)
(* asyncio.Lock, and three ways to drive a browser that should exclude     *)
(* each other: a recording session, an interactive replay, and a replay in *)
(* a child process.  Each HTTP request is a coroutine; an action is what   *)
(* one of them does between two awaits.  Left out are the handlers that    *)
(* hold the lock while they ask the page of the session (state, begin_pick,*)
(* cancel_pick), without a limit of time.                                  *)
(***************************************************************************)
EXTENDS Naturals, Sequences, FiniteSets, SequencesExt

CONSTANTS MaxRequests,         \* HTTP requests of a behaviour, numbered as they come
          Kinds,               \* the handlers they may call
          MaxReplayRequests,   \* replay requests under way at once
          None

ASSUME DashboardAssumption ==
    /\ MaxRequests \in Nat /\ None \notin 1..MaxRequests
    /\ Kinds \subseteq {"session_start", "session_stop", "control", "replay", "replay_stop",
                        "interactive_start", "interactive_stop", "shutdown"}
    /\ MaxReplayRequests \in Nat

Requests == 1..MaxRequests

VARIABLES queue,         \* the asyncio.Lock: its holder and, behind, who waits
          kind, at,      \* the handler of a request and the await it is at
          job,           \* what the request took from the server's pointers
          recorder,      \* self._recorder: the request that made it
          recording,     \* the browser of that recorder
          interactive,   \* self._interactive: the request that made it
          starting,      \* self._interactive_start_in_progress
          browser,       \* the browser of the session a request booted
          replay,        \* _replay_running, _replay_proc, _replay_task
          process,       \* the child process a request spawned
          worker         \* its _replay_worker

vars == <<queue, kind, at, job, recorder, recording, interactive, starting, browser, replay,
          process, worker>>
pointers == <<recorder, interactive, starting, replay>>
outside == <<recording, browser, process, worker>>

NoReplay == [running |-> FALSE, proc |-> None, task |-> None]

Init ==
    /\ queue = <<>>
    /\ kind = [r \in Requests |-> None] /\ at = [r \in Requests |-> "new"]
    /\ job = [r \in Requests |-> None]
    /\ recorder = None /\ recording = [r \in Requests |-> "none"]
    /\ interactive = None /\ starting = FALSE /\ browser = [r \in Requests |-> "none"]
    /\ replay = NoReplay
    /\ process = [r \in Requests |-> "none"] /\ worker = [r \in Requests |-> "none"]

-----------------------------------------------------------------------------
(* Awaits and the lock.  asyncio.Lock wakes its waiters in order. *)

At(r, k, place) == kind[r] = k /\ at[r] = place
Goto(r, place) == at' = [at EXCEPT ![r] = place]
Ask(r) == queue' = Append(queue, r)
Release == queue' = Tail(queue)
InTurn(r, k, place) == At(r, k, place) /\ queue # <<>> /\ Head(queue) = r

Active == interactive # None /\ browser[interactive] \in {"open", "closing"}
Waiting(k) == {r \in Requests : kind[r] = k /\ at[r] # "done"}

Arrive(r) ==
    /\ at[r] = "new" /\ \A s \in 1..(r - 1) : at[s] # "new"
    /\ \E k \in Kinds :
        /\ k = "replay" => Cardinality(Waiting(k)) < MaxReplayRequests
        /\ k = "shutdown" => Waiting(k) = {}
        /\ kind' = [kind EXCEPT ![r] = k]
    /\ Goto(r, "lock") /\ Ask(r)
    /\ UNCHANGED <<job, pointers, outside>>

\* When a handler answers 400 or 409 (or "nothing to stop") at once.
Blocked(k) ==
    CASE k = "session_start"    -> recorder # None \/ replay.running \/ Active \/ starting
      [] k = "session_stop"     -> recorder = None
      [] k = "control"          -> recorder = None
      [] k = "replay"           -> starting \/ Active \/ replay.running
      [] k = "replay_stop"      -> replay.proc = None /\ ~replay.running
      [] k = "interactive_start" -> recorder # None \/ replay.running \/ Active \/ starting
      [] OTHER                  -> FALSE

Refuse(r) ==
    /\ InTurn(r, kind[r], "lock") /\ Blocked(kind[r])
    /\ Goto(r, "done") /\ Release
    /\ UNCHANGED <<kind, job, pointers, outside>>

Enter(r, k) == InTurn(r, k, "lock") /\ ~Blocked(k)

-----------------------------------------------------------------------------
(* The recording session: started and stopped with the lock held. *)

StartRecorder(r) ==
    /\ Enter(r, "session_start")
    /\ recorder' = r /\ Goto(r, "recorder.start")
    /\ UNCHANGED <<queue, kind, job, interactive, starting, replay, outside>>

\* start() raises: the pointer stays, and the browser if it was launched.
RecorderStarted(r) ==
    /\ At(r, "session_start", "recorder.start")
    /\ \E b \in {"none", "open"} : recording' = [recording EXCEPT ![r] = b]
    /\ Goto(r, "done") /\ Release
    /\ UNCHANGED <<kind, job, pointers, browser, process, worker>>

StopRecorder(r) ==
    /\ Enter(r, "session_stop")
    /\ job' = [job EXCEPT ![r] = recorder] /\ recorder' = None
    /\ Goto(r, "recorder.stop")
    /\ UNCHANGED <<queue, kind, interactive, starting, replay, outside>>

RecorderStopped(r) ==
    /\ At(r, "session_stop", "recorder.stop")
    /\ recording' = [recording EXCEPT ![job[r]] = "closed"]
    /\ Goto(r, "done") /\ Release
    /\ UNCHANGED <<kind, job, pointers, browser, process, worker>>

Control(r) ==
    /\ Enter(r, "control") /\ Goto(r, "apply_control_action")
    /\ UNCHANGED <<queue, kind, job, pointers, outside>>

Controlled(r) ==
    /\ At(r, "control", "apply_control_action") /\ Goto(r, "done") /\ Release
    /\ UNCHANGED <<kind, job, pointers, outside>>

-----------------------------------------------------------------------------
(* The replay in a child process.  Only its first check holds the lock. *)

ReplayRequest(r) ==
    /\ Enter(r, "replay") /\ Goto(r, "spawn") /\ Release
    /\ UNCHANGED <<kind, job, pointers, outside>>

\* A body or a path that is refused, or a process that cannot be created.
ReplayFails(r) ==
    /\ At(r, "replay", "spawn") /\ Goto(r, "done")
    /\ UNCHANGED <<queue, kind, job, pointers, outside>>

Spawn(r) ==
    /\ At(r, "replay", "spawn") /\ Goto(r, "spawned")
    /\ process' = [process EXCEPT ![r] = "alive"]
    /\ UNCHANGED <<queue, kind, job, pointers, recording, browser, worker>>

Track(r) ==
    /\ At(r, "replay", "spawned") /\ Goto(r, "done")
    /\ replay' = [running |-> TRUE, proc |-> r, task |-> r]
    /\ worker' = [worker EXCEPT ![r] = "communicate"]
    /\ UNCHANGED <<queue, kind, job, recorder, interactive, starting, recording, browser, process>>

ProcessEnds(r) ==
    /\ process[r] = "alive" /\ process' = [process EXCEPT ![r] = "dead"]
    /\ UNCHANGED <<queue, kind, at, job, pointers, recording, browser, worker>>

\* The finally of _replay_worker, whoever the pointers belong to by now.
WorkerEnds(r) ==
    /\ worker[r] = "communicate" /\ process[r] = "dead"
    /\ worker' = [worker EXCEPT ![r] = "done"] /\ replay' = NoReplay
    /\ UNCHANGED <<queue, kind, at, job, recorder, interactive, starting, recording, browser, process>>

StopReplay(r) ==
    /\ Enter(r, "replay_stop")
    /\ job' = [job EXCEPT ![r] = replay.proc]
    /\ Goto(r, "proc.wait")
    /\ UNCHANGED <<queue, kind, pointers, outside>>

\* Stop sends SIGTERM and does not wait.
TerminatedUnwaited(r) ==
    /\ At(r, "replay_stop", "proc.wait") /\ Goto(r, "task")
    /\ UNCHANGED <<queue, kind, job, pointers, outside>>

\* No kill() when the process ignores SIGTERM.
TerminatedPolitely(r) ==
    /\ At(r, "replay_stop", "proc.wait") /\ process[job[r]] = "dead" /\ Goto(r, "task")
    /\ UNCHANGED <<queue, kind, job, pointers, outside>>

\* terminate(), and kill() after 25 s: the process is dead when wait() returns.
Terminated(r) ==
    /\ At(r, "replay_stop", "proc.wait") /\ Goto(r, "task")
    /\ process' = [process EXCEPT ![job[r]] = "dead"]
    /\ UNCHANGED <<queue, kind, job, pointers, recording, browser, worker>>

\* task.cancel(); await task: its finally runs, if it has not ended by itself.
CancelWorker(r) ==
    /\ At(r, "replay_stop", "task") /\ worker[job[r]] = "communicate"
    /\ worker' = [worker EXCEPT ![job[r]] = "done"] /\ replay' = NoReplay
    /\ UNCHANGED <<queue, kind, at, job, recorder, interactive, starting, recording, browser, process>>

ReplayStopped(r) ==
    /\ At(r, "replay_stop", "task") /\ worker[job[r]] = "done"
    /\ replay' = NoReplay /\ Goto(r, "done") /\ Release
    /\ UNCHANGED <<kind, job, recorder, interactive, starting, outside>>

-----------------------------------------------------------------------------
(* The interactive replay: booted outside the lock, adopted under it. *)

StartInteractive(r) ==
    /\ Enter(r, "interactive_start")
    /\ starting' = TRUE /\ Goto(r, "boot") /\ Release
    /\ UNCHANGED <<kind, job, recorder, interactive, replay, outside>>

BrowserOpens(r) ==
    /\ At(r, "interactive_start", "boot") /\ browser[r] = "none"
    /\ browser' = [browser EXCEPT ![r] = "open"]
    /\ UNCHANGED <<queue, kind, at, job, pointers, recording, process, worker>>

Booted(r) ==
    /\ At(r, "interactive_start", "boot") /\ browser[r] = "open"
    /\ Goto(r, "adopt") /\ Ask(r)
    /\ UNCHANGED <<kind, job, pointers, outside>>

\* start() raises: what was opened is closed before the flag is cleared.
BootFails(r) ==
    /\ At(r, "interactive_start", "boot")
    /\ browser' = [browser EXCEPT ![r] = "closed"]
    /\ Goto(r, "clear") /\ Ask(r)
    /\ UNCHANGED <<kind, job, pointers, recording, process, worker>>

ClearStarting(r) ==
    /\ InTurn(r, "interactive_start", "clear")
    /\ starting' = FALSE /\ Goto(r, "done") /\ Release
    /\ UNCHANGED <<kind, job, recorder, interactive, replay, outside>>

Taken == recorder # None \/ replay.running \/ Active

\* The session is adopted as it was booted, without a second look.
AdoptUnchecked(r) ==
    /\ InTurn(r, "interactive_start", "adopt")
    /\ interactive' = r /\ starting' = FALSE /\ Goto(r, "done") /\ Release
    /\ UNCHANGED <<kind, job, recorder, replay, outside>>

Adopt(r) ==
    /\ InTurn(r, "interactive_start", "adopt") /\ ~Taken
    /\ interactive' = r /\ starting' = FALSE /\ Goto(r, "done") /\ Release
    /\ UNCHANGED <<kind, job, recorder, replay, outside>>

\* The late 409 is answered and the browser forgotten.
DiscardOpen(r) ==
    /\ InTurn(r, "interactive_start", "adopt") /\ Taken
    /\ starting' = FALSE /\ Goto(r, "done") /\ Release
    /\ UNCHANGED <<kind, job, recorder, interactive, replay, outside>>

Discard(r) ==
    /\ InTurn(r, "interactive_start", "adopt") /\ Taken
    /\ starting' = FALSE /\ browser' = [browser EXCEPT ![r] = "closing"]
    /\ Goto(r, "discard")
    /\ UNCHANGED <<queue, kind, job, recorder, interactive, replay, recording, process, worker>>

\* No limit of time here, and the lock is held: the browser is taken to close.
Discarded(r) ==
    /\ At(r, "interactive_start", "discard")
    /\ browser' = [browser EXCEPT ![r] = "closed"]
    /\ Goto(r, "done") /\ Release
    /\ UNCHANGED <<kind, job, pointers, recording, process, worker>>

\* The pointer and the flag first, the browser when the lock is free again.
StopInteractive(r) ==
    /\ Enter(r, "interactive_stop")
    /\ job' = [job EXCEPT ![r] = interactive]
    /\ interactive' = None /\ starting' = FALSE /\ Release
    /\ IF interactive = None
       THEN Goto(r, "done") /\ UNCHANGED browser
       ELSE Goto(r, "iv.stop") /\ browser' = [browser EXCEPT ![interactive] = "closing"]
    /\ UNCHANGED <<kind, recorder, replay, recording, process, worker>>

\* wait_for gives up after 90 s: nobody has a pointer to that browser then.
InteractiveStopped(r) ==
    /\ At(r, "interactive_stop", "iv.stop") /\ Goto(r, "done")
    /\ \E b \in {"closed", "stuck"} : browser' = [browser EXCEPT ![job[r]] = b]
    /\ UNCHANGED <<queue, kind, job, pointers, recording, process, worker>>

-----------------------------------------------------------------------------
(* The end of run_dashboard, with the lock held throughout. *)

Shutdown(r) ==
    /\ Enter(r, "shutdown")
    /\ starting' = FALSE /\ Goto(r, "interactive")
    /\ browser' = IF interactive = None THEN browser ELSE [browser EXCEPT ![interactive] = "closing"]
    /\ UNCHANGED <<queue, kind, job, recorder, interactive, replay, recording, process, worker>>

ShutInteractive(r) ==
    /\ At(r, "shutdown", "interactive") /\ Goto(r, "proc")
    /\ browser' = IF interactive = None THEN browser ELSE [browser EXCEPT ![interactive] = "closed"]
    /\ interactive' = None /\ job' = [job EXCEPT ![r] = replay.proc]
    /\ UNCHANGED <<queue, kind, recorder, starting, replay, recording, process, worker>>

ShutProcess(r) ==
    /\ At(r, "shutdown", "proc") /\ Goto(r, "recorder")
    /\ process' = IF job[r] = None THEN process ELSE [process EXCEPT ![job[r]] = "dead"]
    /\ UNCHANGED <<queue, kind, job, pointers, recording, browser, worker>>

ShutRecorder(r) ==
    /\ At(r, "shutdown", "recorder") /\ Goto(r, "done") /\ Release
    /\ recording' = IF recorder = None THEN recording ELSE [recording EXCEPT ![recorder] = "closed"]
    /\ recorder' = None
    /\ UNCHANGED <<kind, job, interactive, starting, replay, browser, process, worker>>

-----------------------------------------------------------------------------
Recorder(r) == StartRecorder(r) \/ RecorderStarted(r) \/ StopRecorder(r) \/ RecorderStopped(r)
               \/ Control(r) \/ Controlled(r)
Replay(r) == ReplayRequest(r) \/ ReplayFails(r) \/ Spawn(r) \/ Track(r) \/ StopReplay(r)
             \/ Terminated(r) \/ CancelWorker(r) \/ ReplayStopped(r)
Interactive(r) == StartInteractive(r) \/ BrowserOpens(r) \/ Booted(r) \/ BootFails(r)
                  \/ ClearStarting(r) \/ Adopt(r) \/ Discard(r) \/ Discarded(r)
                  \/ StopInteractive(r) \/ InteractiveStopped(r)
ShutdownStep(r) == Shutdown(r) \/ ShutInteractive(r) \/ ShutProcess(r) \/ ShutRecorder(r)

Serve(r) == Refuse(r) \/ Recorder(r) \/ Replay(r) \/ Interactive(r) \/ ShutdownStep(r)
Child(r) == ProcessEnds(r) \/ WorkerEnds(r)

Next == \E r \in Requests : Arrive(r) \/ Serve(r) \/ Child(r)

Fairness == \A r \in Requests : WF_vars(Serve(r)) /\ WF_vars(WorkerEnds(r))
Spec == Init /\ [][Next]_vars /\ Fairness

-----------------------------------------------------------------------------
(* Properties. *)

\* Who may hold a browser nobody has closed yet.
ClosedBy(r) == at[r] = "discard" \/ \E s \in Requests :
    \/ At(s, "interactive_stop", "iv.stop") /\ job[s] = r
    \/ At(s, "shutdown", "interactive") /\ interactive = r

\* A recording session and an interactive replay never run together, although
\* the browser of the second is booted outside the lock and a Stop clears the
\* flag that keeps the first away in the middle of it (handle_interactive_start).
OneSession == recorder = None \/ interactive = None

\* Every browser the dashboard opened and did not give up on can still be
\* closed: a pointer names it, or a request on its way to adopt or to close it
\* (handle_interactive_start, handle_interactive_stop, handle_session_start).
NoLostBrowser ==
    \A r \in Requests :
        /\ browser[r] = "open" => interactive = r \/ at[r] \in {"boot", "adopt"}
        /\ browser[r] = "closing" => ClosedBy(r)
        /\ recording[r] = "open" => recorder = r \/ \E s \in Requests : at[s] = "recorder.stop" /\ job[s] = r

\* When replay requests come one at a time, a child process that runs is the one
\* Stop would terminate and the one the status reports (_replay_worker,
\* handle_replay_stop and handle_replay each write these three fields).
ReplayIsTracked ==
    MaxReplayRequests = 1 =>
        \A r \in Requests : process[r] = "alive" /\ at[r] = "done" =>
            replay = [running |-> TRUE, proc |-> r, task |-> r]

\* Every request is answered: none waits for ever for the lock, for a child
\* process, or for the worker a Stop cancels while it holds the lock.
RequestsEnd == \A r \in Requests : at[r] = "lock" ~> at[r] = "done"

=============================================================================
