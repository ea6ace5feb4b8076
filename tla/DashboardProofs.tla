--------------------------- MODULE DashboardProofs ---------------------------
(***************************************************************************)
(* Proofs about Dashboard, for every number of requests and every set of   *)
(* handlers they may call: the lock excludes, one session at a time, no    *)
(* browser is forgotten, and a replay that runs is the one that is known.  *)
(***************************************************************************)
EXTENDS Dashboard, FiniteSetTheorems, TLAPS

\* Where a request is when it holds the lock, or waits for it, or neither.
Held == {"recorder.start", "recorder.stop", "apply_control_action", "proc.wait", "task",
         "discard", "interactive", "proc", "recorder"}
Waits == {"lock", "adopt", "clear"}
Outside == {"new", "spawn", "spawned", "boot", "iv.stop", "done"}

\* The type invariant.
Typed ==
    /\ kind \in [Requests -> Kinds \cup {None}]
    /\ at \in [Requests -> Held \cup Waits \cup Outside]
    /\ job \in [Requests -> Requests \cup {None}]
    /\ recorder \in Requests \cup {None} /\ interactive \in Requests \cup {None}
    /\ starting \in BOOLEAN
    /\ recording \in [Requests -> {"none", "open", "closed"}]
    /\ browser \in [Requests -> {"none", "open", "closing", "closed", "stuck"}]
    /\ process \in [Requests -> {"none", "alive", "dead"}]
    /\ worker \in [Requests -> {"none", "communicate", "done"}]
    /\ replay \in [running : BOOLEAN, proc : Requests \cup {None}, task : Requests \cup {None}]

Queued(r) == \E i \in 1..Len(queue) : queue[i] = r

\* The queue is the requests that hold the lock or wait for it, each once, and
\* only the first of them holds it.
Excludes ==
    /\ queue \in Seq(Requests)
    /\ \A i, j \in 1..Len(queue) : queue[i] = queue[j] => i = j
    /\ \A r \in Requests : Queued(r) <=> at[r] \in Held \cup Waits
    /\ \A r \in Requests : at[r] \in Held => Len(queue) > 0 /\ queue[1] = r

\* The adopted session is up, and nobody else is about to close its browser.
Adopted ==
    /\ interactive # None => browser[interactive] \in {"open", "closing"}
                             /\ at[interactive] = "done"
    /\ \A r \in Requests : at[r] = "adopt" => browser[r] = "open"
    /\ \A s \in Requests : at[s] = "iv.stop" =>
           job[s] \in Requests /\ job[s] # interactive /\ at[job[s]] = "done"

\* A recorder that starts is the one of the pointer, and one that stops was there.
Recorded ==
    /\ \A r \in Requests : at[r] = "recorder.start" => recorder = r
    /\ \A s \in Requests : at[s] = "recorder.stop" => job[s] \in Requests

Sessions == OneSession /\ NoLostBrowser /\ Adopted /\ Recorded

Tracks(r) == [running |-> TRUE, proc |-> r, task |-> r]
Replaying(r) == kind[r] = "replay" /\ at[r] \notin {"new", "done"}
Spawning(r) == at[r] \in {"spawn", "spawned"}

\* The pointers name the replay whose worker is at work; none is at work while
\* another is being spawned, and none is spawned while one is being stopped.
Replays ==
    /\ \A r, s \in Requests : Replaying(r) /\ Replaying(s) => r = s
    /\ \A r \in Requests : Spawning(r) =>
           kind[r] = "replay" /\ \A p \in Requests : worker[p] # "communicate"
    /\ \A r \in Requests : process[r] = "alive" =>
           at[r] = "spawned" \/ (at[r] = "done" /\ worker[r] = "communicate")
    /\ \A r \in Requests : worker[r] # "none" => at[r] = "done"
    /\ \A r \in Requests : worker[r] = "communicate" => replay = Tracks(r)
    /\ replay = NoReplay \/ \E r \in Requests : replay = Tracks(r) /\ worker[r] = "communicate"
    /\ \A s \in Requests : at[s] \in {"proc.wait", "task"} =>
           /\ job[s] \in Requests /\ worker[job[s]] # "none"
           /\ \A r \in Requests : ~Spawning(r)
           /\ replay \in {NoReplay, Tracks(job[s])}
    /\ \A s \in Requests : at[s] = "task" => process[job[s]] = "dead"

-----------------------------------------------------------------------------
(* Types. *)

LEMMA TypedInit == Init => Typed
<1> SUFFICES ASSUME Init PROVE Typed OBVIOUS
<1> QED BY DEF Init, Typed, NoReplay, Held, Waits, Outside

LEMMA TypedStep == Typed /\ [Next]_vars => Typed'
<1> SUFFICES ASSUME Typed, [Next]_vars PROVE Typed' OBVIOUS
<1> USE DEF Typed, pointers, outside, Goto, NoReplay, Held, Waits, Outside
<1>1. CASE UNCHANGED vars BY <1>1 DEF vars
<1>2. ASSUME NEW r \in Requests, Arrive(r) PROVE Typed' BY <1>2 DEF Arrive
<1>3. ASSUME NEW r \in Requests, Refuse(r) PROVE Typed' BY <1>3 DEF Refuse
<1>4. ASSUME NEW r \in Requests, Recorder(r) PROVE Typed'
    BY <1>4 DEF Recorder, StartRecorder, RecorderStarted, StopRecorder, RecorderStopped,
                Control, Controlled
<1>5. ASSUME NEW r \in Requests, Replay(r) PROVE Typed'
  <2>1. CASE ReplayRequest(r) BY <2>1 DEF ReplayRequest
  <2>2. CASE ReplayFails(r) BY <2>2 DEF ReplayFails
  <2>3. CASE Spawn(r) BY <2>3 DEF Spawn
  <2>4. CASE Track(r) BY <2>4 DEF Track
  <2>5. CASE StopReplay(r) BY <2>5 DEF StopReplay
  <2>6. CASE Terminated(r) BY <2>6 DEF Terminated
  <2>7. CASE CancelWorker(r) BY <2>7 DEF CancelWorker
  <2>8. CASE ReplayStopped(r) BY <2>8 DEF ReplayStopped
  <2> QED BY <1>5, <2>1, <2>2, <2>3, <2>4, <2>5, <2>6, <2>7, <2>8 DEF Replay
<1>6. ASSUME NEW r \in Requests, Interactive(r) PROVE Typed'
  <2>1. CASE StartInteractive(r) BY <2>1 DEF StartInteractive
  <2>2. CASE BrowserOpens(r) BY <2>2 DEF BrowserOpens
  <2>3. CASE Booted(r) BY <2>3 DEF Booted
  <2>4. CASE BootFails(r) BY <2>4 DEF BootFails
  <2>5. CASE ClearStarting(r) BY <2>5 DEF ClearStarting
  <2>6. CASE Adopt(r) BY <2>6 DEF Adopt
  <2>7. CASE Discard(r) BY <2>7 DEF Discard
  <2>8. CASE Discarded(r) BY <2>8 DEF Discarded
  <2>9. CASE StopInteractive(r) BY <2>9 DEF StopInteractive
  <2>10. CASE InteractiveStopped(r)
    <3>1. PICK b \in {"closed", "stuck"} : browser' = [browser EXCEPT ![job[r]] = b]
        BY <2>10 DEF InteractiveStopped
    <3> QED BY <2>10, <3>1 DEF InteractiveStopped
  <2> QED BY <1>6, <2>1, <2>2, <2>3, <2>4, <2>5, <2>6, <2>7, <2>8, <2>9, <2>10 DEF Interactive
<1>7. ASSUME NEW r \in Requests, ShutdownStep(r) PROVE Typed'
  <2>1. CASE Shutdown(r) BY <2>1 DEF Shutdown
  <2>2. CASE ShutInteractive(r) BY <2>2 DEF ShutInteractive
  <2>3. CASE ShutProcess(r) BY <2>3 DEF ShutProcess
  <2>4. CASE ShutRecorder(r) BY <2>4 DEF ShutRecorder
  <2> QED BY <1>7, <2>1, <2>2, <2>3, <2>4 DEF ShutdownStep
<1>8. ASSUME NEW r \in Requests, Child(r) PROVE Typed'
  <2>1. CASE ProcessEnds(r) BY <2>1 DEF ProcessEnds
  <2>2. CASE WorkerEnds(r) BY <2>2 DEF WorkerEnds
  <2> QED BY <1>8, <2>1, <2>2 DEF Child
<1> QED BY <1>1, <1>2, <1>3, <1>4, <1>5, <1>6, <1>7, <1>8 DEF Next, Serve

(* The dashboard's pointers and what they point to are what they should be. *)
THEOREM DashboardTyped == Spec => []Typed
BY TypedInit, TypedStep, PTL DEF Spec

-----------------------------------------------------------------------------
(* The lock. *)

LEMMA QueueKept ==
    ASSUME Typed, Excludes, NEW r \in Requests, NEW place,
           queue' = queue, at' = [at EXCEPT ![r] = place],
           \/ at[r] \in Outside /\ place \in Outside
           \/ Len(queue) > 0 /\ queue[1] = r /\ place \in Held
    PROVE  Excludes'
<1>1. \A s \in Requests : at'[s] = IF s = r THEN place ELSE at[s] BY DEF Typed
<1>2. \A s \in Requests : Queued(s)' <=> Queued(s) BY DEF Queued
<1>3. (Held \cup Waits) \cap Outside = {} BY DEF Held, Waits, Outside
<1>4. ASSUME Len(queue) > 0, queue[1] = r PROVE Queued(r)
  <2>1. 1 \in 1..Len(queue) BY <1>4 DEF Excludes
  <2> QED BY <1>4, <2>1 DEF Queued
<1>5. \A s \in Requests : Queued(s)' <=> at'[s] \in Held \cup Waits
    BY <1>1, <1>2, <1>3, <1>4 DEF Excludes
<1>6. \A s \in Requests : at'[s] \in Held => Len(queue) > 0 /\ queue[1] = s
    BY <1>1, <1>3 DEF Excludes
<1> QED BY <1>5, <1>6 DEF Excludes

LEMMA QueueJoined ==
    ASSUME Typed, Excludes, NEW r \in Requests, NEW place \in Waits,
           at[r] \in Outside, queue' = Append(queue, r), at' = [at EXCEPT ![r] = place]
    PROVE  Excludes'
<1>1. \A s \in Requests : at'[s] = IF s = r THEN place ELSE at[s] BY DEF Typed
<1>2. (Held \cup Waits) \cap Outside = {} /\ Held \cap Waits = {} BY DEF Held, Waits, Outside
<1>3. /\ queue' \in Seq(Requests) /\ Len(queue') = Len(queue) + 1 /\ Len(queue) \in Nat
      /\ \A i \in 1..Len(queue) : queue'[i] = queue[i]
      /\ queue'[Len(queue) + 1] = r
    BY DEF Excludes
<1>4. ~Queued(r) BY <1>2 DEF Excludes
<1>5. \A s \in Requests : Queued(s)' <=> Queued(s) \/ s = r
  <2> SUFFICES ASSUME NEW s \in Requests PROVE Queued(s)' <=> Queued(s) \/ s = r OBVIOUS
  <2>1. 1..Len(queue') = 1..Len(queue) \cup {Len(queue) + 1} BY <1>3
  <2> QED BY <1>3, <2>1 DEF Queued
<1>6. \A i, j \in 1..Len(queue') : queue'[i] = queue'[j] => i = j
  <2>1. 1..Len(queue') = 1..Len(queue) \cup {Len(queue) + 1} BY <1>3
  <2>2. \A i \in 1..Len(queue) : queue[i] # r BY <1>4 DEF Queued
  <2> QED BY <1>3, <2>1, <2>2 DEF Excludes
<1>7. \A s \in Requests : Queued(s)' <=> at'[s] \in Held \cup Waits
    BY <1>1, <1>2, <1>5 DEF Excludes
<1>8. \A s \in Requests : at'[s] \in Held => Len(queue') > 0 /\ queue'[1] = s
  <2> SUFFICES ASSUME NEW s \in Requests, at'[s] \in Held
               PROVE  Len(queue') > 0 /\ queue'[1] = s
      OBVIOUS
  <2>1. s # r /\ at[s] \in Held BY <1>1, <1>2
  <2>2. Len(queue) > 0 /\ queue[1] = s BY <2>1 DEF Excludes
  <2> QED BY <1>3, <2>2
<1> QED BY <1>3, <1>6, <1>7, <1>8 DEF Excludes

LEMMA QueueLeft ==
    ASSUME Typed, Excludes, NEW r \in Requests, NEW place \in Outside,
           Len(queue) > 0, queue[1] = r, queue' = Tail(queue), at' = [at EXCEPT ![r] = place]
    PROVE  Excludes'
<1>1. \A s \in Requests : at'[s] = IF s = r THEN place ELSE at[s] BY DEF Typed
<1>2. (Held \cup Waits) \cap Outside = {} BY DEF Held, Waits, Outside
<1>3. /\ queue' \in Seq(Requests) /\ Len(queue') = Len(queue) - 1 /\ Len(queue) \in Nat
      /\ \A i \in 1..Len(queue') : queue'[i] = queue[i + 1]
    BY DEF Excludes
<1>4. \A s \in Requests : Queued(s)' <=> Queued(s) /\ s # r
  <2> SUFFICES ASSUME NEW s \in Requests PROVE Queued(s)' <=> Queued(s) /\ s # r OBVIOUS
  <2>1. ASSUME NEW i \in 1..Len(queue'), queue'[i] = s PROVE Queued(s) /\ s # r
    <3>1. i + 1 \in 1..Len(queue) /\ queue[i + 1] = s /\ 1 \in 1..Len(queue) /\ i + 1 # 1
        BY <1>3, <2>1
    <3> QED BY <3>1 DEF Queued, Excludes
  <2>2. ASSUME NEW i \in 1..Len(queue), queue[i] = s, s # r PROVE Queued(s)'
    <3>1. i # 1 BY <2>2
    <3>2. i - 1 \in 1..Len(queue') /\ (i - 1) + 1 = i BY <1>3, <3>1
    <3>3. queue'[i - 1] = s BY <1>3, <2>2, <3>2
    <3> QED BY <3>2, <3>3 DEF Queued
  <2> QED BY <2>1, <2>2 DEF Queued
<1>5. \A i, j \in 1..Len(queue') : queue'[i] = queue'[j] => i = j
  <2> SUFFICES ASSUME NEW i \in 1..Len(queue'), NEW j \in 1..Len(queue'), queue'[i] = queue'[j]
               PROVE  i = j
      OBVIOUS
  <2>1. i + 1 \in 1..Len(queue) /\ j + 1 \in 1..Len(queue) BY <1>3
  <2>2. queue[i + 1] = queue[j + 1] BY <1>3
  <2>3. i + 1 = j + 1 BY <2>1, <2>2 DEF Excludes
  <2> QED BY <2>3
<1>6. \A s \in Requests : Queued(s)' <=> at'[s] \in Held \cup Waits
    BY <1>1, <1>2, <1>4 DEF Excludes
<1>7. \A s \in Requests : at'[s] \notin Held
    BY <1>1, <1>2 DEF Excludes
<1> QED BY <1>3, <1>5, <1>6, <1>7 DEF Excludes

LEMMA QueueStays ==
    ASSUME Excludes, queue' = queue, at' = at
    PROVE  Excludes'
BY DEF Excludes, Queued

LEMMA FirstInTurn ==
    ASSUME Excludes, NEW r, NEW k, NEW place, InTurn(r, k, place)
    PROVE  Len(queue) > 0 /\ queue[1] = r /\ at[r] = place
BY DEF InTurn, At, Excludes

LEMMA ExcludesStep == Typed /\ Excludes /\ [Next]_vars => Excludes'
<1> SUFFICES ASSUME Typed, Excludes, [Next]_vars PROVE Excludes' OBVIOUS
<1> USE DEF Goto, Ask, Release
<1>0. ASSUME NEW r \in Requests, at[r] \in Held PROVE Len(queue) > 0 /\ queue[1] = r
    BY <1>0 DEF Excludes
<1>1. CASE UNCHANGED vars BY <1>1, QueueStays DEF vars
<1>2. ASSUME NEW r \in Requests, Arrive(r) PROVE Excludes'
    BY <1>2, QueueJoined DEF Arrive, Outside, Waits
<1>3. ASSUME NEW r \in Requests, Refuse(r) PROVE Excludes'
    BY <1>3, QueueLeft, FirstInTurn DEF Refuse, Outside
<1>4. ASSUME NEW r \in Requests, Recorder(r) PROVE Excludes'
  <2>1. CASE StartRecorder(r) \/ StopRecorder(r) \/ Control(r)
      BY <2>1, QueueKept, FirstInTurn DEF StartRecorder, StopRecorder, Control, Enter, Held
  <2>2. CASE RecorderStarted(r) \/ RecorderStopped(r) \/ Controlled(r)
    <3>1. at[r] \in Held BY <2>2 DEF RecorderStarted, RecorderStopped, Controlled, At, Held
    <3> QED BY <2>2, <3>1, <1>0, QueueLeft
        DEF RecorderStarted, RecorderStopped, Controlled, Outside
  <2> QED BY <1>4, <2>1, <2>2 DEF Recorder
<1>5. ASSUME NEW r \in Requests, Replay(r) PROVE Excludes'
  <2>1. CASE ReplayRequest(r)
      BY <2>1, QueueLeft, FirstInTurn DEF ReplayRequest, Enter, Outside
  <2>2. CASE ReplayFails(r) \/ Spawn(r) \/ Track(r)
      BY <2>2, QueueKept DEF ReplayFails, Spawn, Track, At, Outside
  <2>3. CASE StopReplay(r) BY <2>3, QueueKept, FirstInTurn DEF StopReplay, Enter, Held
  <2>4. CASE Terminated(r)
    <3>1. at[r] \in Held BY <2>4 DEF Terminated, At, Held
    <3> QED BY <2>4, <3>1, <1>0, QueueKept DEF Terminated, Held
  <2>5. CASE CancelWorker(r) BY <2>5, QueueStays DEF CancelWorker
  <2>6. CASE ReplayStopped(r)
    <3>1. at[r] \in Held BY <2>6 DEF ReplayStopped, At, Held
    <3> QED BY <2>6, <3>1, <1>0, QueueLeft DEF ReplayStopped, Outside
  <2> QED BY <1>5, <2>1, <2>2, <2>3, <2>4, <2>5, <2>6 DEF Replay
<1>6. ASSUME NEW r \in Requests, Interactive(r) PROVE Excludes'
  <2>1. CASE StartInteractive(r) \/ ClearStarting(r) \/ Adopt(r)
      BY <2>1, QueueLeft, FirstInTurn DEF StartInteractive, ClearStarting, Adopt, Enter, Outside
  <2>2. CASE BrowserOpens(r) BY <2>2, QueueStays DEF BrowserOpens
  <2>3. CASE Booted(r) \/ BootFails(r)
      BY <2>3, QueueJoined DEF Booted, BootFails, At, Outside, Waits
  <2>4. CASE Discard(r) BY <2>4, QueueKept, FirstInTurn DEF Discard, Held
  <2>5. CASE Discarded(r)
    <3>1. at[r] \in Held BY <2>5 DEF Discarded, At, Held
    <3> QED BY <2>5, <3>1, <1>0, QueueLeft DEF Discarded, Outside
  <2>6. CASE StopInteractive(r)
    <3>1. Len(queue) > 0 /\ queue[1] = r BY <2>6, FirstInTurn DEF StopInteractive, Enter
    <3>2. queue' = Tail(queue) BY <2>6 DEF StopInteractive
    <3>3. at' = [at EXCEPT ![r] = "done"] \/ at' = [at EXCEPT ![r] = "iv.stop"]
        BY <2>6 DEF StopInteractive
    <3> QED BY <3>1, <3>2, <3>3, QueueLeft DEF Outside
  <2>7. CASE InteractiveStopped(r)
      BY <2>7, QueueKept DEF InteractiveStopped, At, Outside
  <2> QED BY <1>6, <2>1, <2>2, <2>3, <2>4, <2>5, <2>6, <2>7 DEF Interactive
<1>7. ASSUME NEW r \in Requests, ShutdownStep(r) PROVE Excludes'
  <2>1. CASE Shutdown(r) BY <2>1, QueueKept, FirstInTurn DEF Shutdown, Enter, Held
  <2>2. CASE ShutInteractive(r) \/ ShutProcess(r)
    <3>1. at[r] \in Held BY <2>2 DEF ShutInteractive, ShutProcess, At, Held
    <3> QED BY <2>2, <3>1, <1>0, QueueKept DEF ShutInteractive, ShutProcess, Held
  <2>3. CASE ShutRecorder(r)
    <3>1. at[r] \in Held BY <2>3 DEF ShutRecorder, At, Held
    <3> QED BY <2>3, <3>1, <1>0, QueueLeft DEF ShutRecorder, Outside
  <2> QED BY <1>7, <2>1, <2>2, <2>3 DEF ShutdownStep
<1>8. ASSUME NEW r \in Requests, Child(r) PROVE Excludes'
    BY <1>8, QueueStays DEF Child, ProcessEnds, WorkerEnds
<1> QED BY <1>1, <1>2, <1>3, <1>4, <1>5, <1>6, <1>7, <1>8 DEF Next, Serve

LEMMA ExcludesInit == Init => Excludes
<1> SUFFICES ASSUME Init PROVE Excludes OBVIOUS
<1>1. queue = <<>> /\ Len(queue) = 0 /\ \A r \in Requests : at[r] = "new" BY DEF Init
<1> QED BY <1>1 DEF Excludes, Queued, Held, Waits

(* At most one request holds the lock, the first of those that asked.      *)
THEOREM LockExcludes == Spec => []Excludes
BY TypedInit, TypedStep, ExcludesInit, ExcludesStep, PTL DEF Spec

-----------------------------------------------------------------------------
(* Sessions and their browsers. *)

LEMMA NoneIsNoRequest == None \notin Requests
BY DashboardAssumption DEF Requests

LEMMA HoldsAlone ==
    ASSUME Excludes, NEW r \in Requests,
           at[r] \in Held \/ (queue # <<>> /\ Head(queue) = r)
    PROVE  \A s \in Requests : at[s] \in Held => s = r
<1>1. Len(queue) > 0 /\ queue[1] = r BY DEF Excludes
<1> QED BY <1>1 DEF Excludes

\* A step that touches no pointer and no browser, of a request on its way to
\* something else.
LEMMA Bystander ==
    ASSUME Typed, Sessions, NEW r \in Requests, NEW place,
           at' = [at EXCEPT ![r] = place],
           at[r] \notin {"boot", "adopt", "discard", "iv.stop", "interactive", "recorder.stop",
                      "done"},
           place \notin {"adopt", "iv.stop", "recorder.start", "recorder.stop"},
           \A s \in Requests : s # r => kind'[s] = kind[s] /\ job'[s] = job[s],
           UNCHANGED <<recorder, recording, interactive, browser>>
    PROVE  Sessions'
<1>1. \A s \in Requests : at'[s] = IF s = r THEN place ELSE at[s] BY DEF Typed
<1>2. OneSession' BY DEF Sessions, OneSession
<1>3. NoLostBrowser' BY <1>1 DEF Sessions, NoLostBrowser, ClosedBy, At
<1>4. Adopted' BY <1>1 DEF Sessions, Adopted, Typed
<1>5. Recorded' BY <1>1 DEF Sessions, Recorded
<1> QED BY <1>2, <1>3, <1>4, <1>5 DEF Sessions

LEMMA ActiveIsAdopted ==
    ASSUME Typed, Sessions, ~Active
    PROVE  interactive = None
BY DEF Sessions, Adopted, Active

LEMMA SessionsInit == Init => Sessions
<1> SUFFICES ASSUME Init PROVE Sessions OBVIOUS
<1> QED BY DEF Init, Sessions, OneSession, NoLostBrowser, Adopted, Recorded

LEMMA SessionsStartRecorder ==
    ASSUME Typed, Excludes, Sessions, NEW r \in Requests, StartRecorder(r)
    PROVE  Sessions'
<1> USE NoneIsNoRequest DEF Sessions, Typed, Goto, pointers, outside,
        StartRecorder, InTurn, At, Waits, Held, Enter, Blocked, Active
<1>1. \A s \in Requests : at[s] \in Held => s = r BY HoldsAlone
<1>2. OneSession' BY ActiveIsAdopted DEF OneSession
<1>3. NoLostBrowser' BY <1>1, ActiveIsAdopted DEF NoLostBrowser, ClosedBy, Adopted, Recorded
<1>4. Adopted' BY <1>1, ActiveIsAdopted DEF Adopted, NoLostBrowser
<1>5. Recorded' BY <1>1 DEF Recorded
<1> QED BY <1>2, <1>3, <1>4, <1>5

LEMMA SessionsRecorderStarted ==
    ASSUME Typed, Excludes, Sessions, NEW r \in Requests, RecorderStarted(r)
    PROVE  Sessions'
<1> USE NoneIsNoRequest DEF Sessions, Typed, Goto, pointers, outside,
        RecorderStarted, InTurn, At, Waits, Held
<1>1. \A s \in Requests : at[s] \in Held => s = r BY HoldsAlone
<1>2. OneSession' BY ActiveIsAdopted DEF OneSession
<1>3. NoLostBrowser' BY <1>1, ActiveIsAdopted DEF NoLostBrowser, ClosedBy, Adopted, Recorded
<1>4. Adopted' BY <1>1, ActiveIsAdopted DEF Adopted, NoLostBrowser
<1>5. Recorded' BY <1>1 DEF Recorded
<1> QED BY <1>2, <1>3, <1>4, <1>5

LEMMA SessionsStopRecorder ==
    ASSUME Typed, Excludes, Sessions, NEW r \in Requests, StopRecorder(r)
    PROVE  Sessions'
<1> USE NoneIsNoRequest DEF Sessions, Typed, Goto, pointers, outside,
        StopRecorder, InTurn, At, Waits, Held, Enter, Blocked
<1>1. \A s \in Requests : at[s] \in Held => s = r BY HoldsAlone
<1>2. OneSession' BY ActiveIsAdopted DEF OneSession
<1>3. NoLostBrowser' BY <1>1, ActiveIsAdopted DEF NoLostBrowser, ClosedBy, Adopted, Recorded
<1>4. Adopted' BY <1>1, ActiveIsAdopted DEF Adopted, NoLostBrowser
<1>5. Recorded' BY <1>1 DEF Recorded
<1> QED BY <1>2, <1>3, <1>4, <1>5

LEMMA SessionsRecorderStopped ==
    ASSUME Typed, Excludes, Sessions, NEW r \in Requests, RecorderStopped(r)
    PROVE  Sessions'
<1> USE NoneIsNoRequest DEF Sessions, Typed, Goto, pointers, outside,
        RecorderStopped, InTurn, At, Waits, Held
<1>1. \A s \in Requests : at[s] \in Held => s = r BY HoldsAlone
<1>2. OneSession' BY ActiveIsAdopted DEF OneSession
<1>3. NoLostBrowser' BY <1>1, ActiveIsAdopted DEF NoLostBrowser, ClosedBy, Adopted, Recorded
<1>4. Adopted' BY <1>1, ActiveIsAdopted DEF Adopted, NoLostBrowser
<1>5. Recorded' BY <1>1 DEF Recorded
<1> QED BY <1>2, <1>3, <1>4, <1>5

LEMMA SessionsBrowserOpens ==
    ASSUME Typed, Excludes, Sessions, NEW r \in Requests, BrowserOpens(r)
    PROVE  Sessions'
<1> USE NoneIsNoRequest DEF Sessions, Typed, Goto, pointers, outside,
        BrowserOpens, InTurn, At, Waits, Held
<1>2. OneSession' BY ActiveIsAdopted DEF OneSession
<1>3. NoLostBrowser' BY ActiveIsAdopted DEF NoLostBrowser, ClosedBy, Adopted, Recorded
<1>4. Adopted' BY ActiveIsAdopted DEF Adopted, NoLostBrowser
<1>5. Recorded' BY DEF Recorded
<1> QED BY <1>2, <1>3, <1>4, <1>5

LEMMA SessionsBooted ==
    ASSUME Typed, Excludes, Sessions, NEW r \in Requests, Booted(r)
    PROVE  Sessions'
<1> USE NoneIsNoRequest DEF Sessions, Typed, Goto, pointers, outside,
        Booted, InTurn, At, Waits, Held
<1>2. OneSession' BY ActiveIsAdopted DEF OneSession
<1>3. NoLostBrowser' BY ActiveIsAdopted DEF NoLostBrowser, ClosedBy, Adopted, Recorded
<1>4. Adopted' BY ActiveIsAdopted DEF Adopted, NoLostBrowser
<1>5. Recorded' BY DEF Recorded
<1> QED BY <1>2, <1>3, <1>4, <1>5

LEMMA SessionsBootFails ==
    ASSUME Typed, Excludes, Sessions, NEW r \in Requests, BootFails(r)
    PROVE  Sessions'
<1> USE NoneIsNoRequest DEF Sessions, Typed, Goto, pointers, outside,
        BootFails, InTurn, At, Waits, Held
<1>2. OneSession' BY ActiveIsAdopted DEF OneSession
<1>3. NoLostBrowser' BY ActiveIsAdopted DEF NoLostBrowser, ClosedBy, Adopted, Recorded
<1>4. Adopted' BY ActiveIsAdopted DEF Adopted, NoLostBrowser
<1>5. Recorded' BY DEF Recorded
<1> QED BY <1>2, <1>3, <1>4, <1>5

LEMMA SessionsAdopt ==
    ASSUME Typed, Excludes, Sessions, NEW r \in Requests, Adopt(r)
    PROVE  Sessions'
<1> USE NoneIsNoRequest DEF Sessions, Typed, Goto, pointers, outside,
        Adopt, InTurn, At, Waits, Held, Taken, Active
<1>1. \A s \in Requests : at[s] \in Held => s = r BY HoldsAlone
<1>2. OneSession' BY ActiveIsAdopted DEF OneSession
<1>3. NoLostBrowser' BY <1>1, ActiveIsAdopted DEF NoLostBrowser, ClosedBy, Adopted, Recorded
<1>4. Adopted' BY <1>1, ActiveIsAdopted DEF Adopted, NoLostBrowser
<1>5. Recorded' BY <1>1 DEF Recorded
<1> QED BY <1>2, <1>3, <1>4, <1>5

LEMMA SessionsDiscard ==
    ASSUME Typed, Excludes, Sessions, NEW r \in Requests, Discard(r)
    PROVE  Sessions'
<1> USE NoneIsNoRequest DEF Sessions, Typed, Goto, pointers, outside,
        Discard, InTurn, At, Waits, Held
<1>1. \A s \in Requests : at[s] \in Held => s = r BY HoldsAlone
<1>2. OneSession' BY ActiveIsAdopted DEF OneSession
<1>3. NoLostBrowser' BY <1>1, ActiveIsAdopted DEF NoLostBrowser, ClosedBy, Adopted, Recorded
<1>4. Adopted' BY <1>1, ActiveIsAdopted DEF Adopted, NoLostBrowser
<1>5. Recorded' BY <1>1 DEF Recorded
<1> QED BY <1>2, <1>3, <1>4, <1>5

LEMMA SessionsDiscarded ==
    ASSUME Typed, Excludes, Sessions, NEW r \in Requests, Discarded(r)
    PROVE  Sessions'
<1> USE NoneIsNoRequest DEF Sessions, Typed, Goto, pointers, outside,
        Discarded, InTurn, At, Waits, Held
<1>1. \A s \in Requests : at[s] \in Held => s = r BY HoldsAlone
<1>2. OneSession' BY ActiveIsAdopted DEF OneSession
<1>3. NoLostBrowser' BY <1>1, ActiveIsAdopted DEF NoLostBrowser, ClosedBy, Adopted, Recorded
<1>4. Adopted' BY <1>1, ActiveIsAdopted DEF Adopted, NoLostBrowser
<1>5. Recorded' BY <1>1 DEF Recorded
<1> QED BY <1>2, <1>3, <1>4, <1>5

LEMMA SessionsStopInteractive ==
    ASSUME Typed, Excludes, Sessions, NEW r \in Requests, StopInteractive(r)
    PROVE  Sessions'
<1> USE NoneIsNoRequest DEF Sessions, Typed, Goto, pointers, outside,
        StopInteractive, InTurn, At, Waits, Held, Enter
<1>1. \A s \in Requests : at[s] \in Held => s = r BY HoldsAlone
<1>2. OneSession' BY ActiveIsAdopted DEF OneSession
<1>3. NoLostBrowser' BY <1>1, ActiveIsAdopted DEF NoLostBrowser, ClosedBy, Adopted, Recorded
<1>4. Adopted' BY <1>1, ActiveIsAdopted DEF Adopted, NoLostBrowser
<1>5. Recorded' BY <1>1 DEF Recorded
<1> QED BY <1>2, <1>3, <1>4, <1>5

LEMMA SessionsInteractiveStopped ==
    ASSUME Typed, Excludes, Sessions, NEW r \in Requests, InteractiveStopped(r)
    PROVE  Sessions'
<1> USE NoneIsNoRequest DEF Sessions, Typed, Goto, pointers, outside,
        InteractiveStopped, InTurn, At, Waits, Held
<1>2. OneSession' BY ActiveIsAdopted DEF OneSession
<1>3. NoLostBrowser' BY ActiveIsAdopted DEF NoLostBrowser, ClosedBy, Adopted, Recorded
<1>4. Adopted' BY ActiveIsAdopted DEF Adopted, NoLostBrowser
<1>5. Recorded' BY DEF Recorded
<1> QED BY <1>2, <1>3, <1>4, <1>5

LEMMA SessionsShutdown ==
    ASSUME Typed, Excludes, Sessions, NEW r \in Requests, Shutdown(r)
    PROVE  Sessions'
<1> USE NoneIsNoRequest DEF Sessions, Typed, Goto, pointers, outside,
        Shutdown, InTurn, At, Waits, Held, Enter
<1>1. \A s \in Requests : at[s] \in Held => s = r BY HoldsAlone
<1>2. OneSession' BY ActiveIsAdopted DEF OneSession
<1>3. NoLostBrowser' BY <1>1, ActiveIsAdopted DEF NoLostBrowser, ClosedBy, Adopted, Recorded
<1>4. Adopted' BY <1>1, ActiveIsAdopted DEF Adopted, NoLostBrowser
<1>5. Recorded' BY <1>1 DEF Recorded
<1> QED BY <1>2, <1>3, <1>4, <1>5

LEMMA SessionsShutInteractive ==
    ASSUME Typed, Excludes, Sessions, NEW r \in Requests, ShutInteractive(r)
    PROVE  Sessions'
<1> USE NoneIsNoRequest DEF Sessions, Typed, Goto, pointers, outside,
        ShutInteractive, InTurn, At, Waits, Held
<1>1. \A s \in Requests : at[s] \in Held => s = r BY HoldsAlone
<1>2. OneSession' BY ActiveIsAdopted DEF OneSession
<1>3. NoLostBrowser' BY <1>1, ActiveIsAdopted DEF NoLostBrowser, ClosedBy, Adopted, Recorded
<1>4. Adopted' BY <1>1, ActiveIsAdopted DEF Adopted, NoLostBrowser
<1>5. Recorded' BY <1>1 DEF Recorded
<1> QED BY <1>2, <1>3, <1>4, <1>5

LEMMA SessionsShutRecorder ==
    ASSUME Typed, Excludes, Sessions, NEW r \in Requests, ShutRecorder(r)
    PROVE  Sessions'
<1> USE NoneIsNoRequest DEF Sessions, Typed, Goto, pointers, outside,
        ShutRecorder, InTurn, At, Waits, Held
<1>1. \A s \in Requests : at[s] \in Held => s = r BY HoldsAlone
<1>2. OneSession' BY ActiveIsAdopted DEF OneSession
<1>3. NoLostBrowser' BY <1>1, ActiveIsAdopted DEF NoLostBrowser, ClosedBy, Adopted, Recorded
<1>4. Adopted' BY <1>1, ActiveIsAdopted DEF Adopted, NoLostBrowser
<1>5. Recorded' BY <1>1 DEF Recorded
<1> QED BY <1>2, <1>3, <1>4, <1>5

LEMMA SessionsStep == Typed /\ Excludes /\ Sessions /\ [Next]_vars => Sessions'
<1> SUFFICES ASSUME Typed, Excludes, Sessions, [Next]_vars PROVE Sessions' OBVIOUS
<1> USE DEF Goto, pointers, outside
<1>0. ASSUME UNCHANGED <<at, kind, job, recorder, recording, interactive, browser>>
      PROVE  Sessions'
    BY <1>0 DEF Sessions, OneSession, NoLostBrowser, ClosedBy, At, Adopted, Recorded
<1>1. CASE UNCHANGED vars BY <1>0, <1>1 DEF vars
<1>2. ASSUME NEW r \in Requests, Arrive(r) PROVE Sessions'
  <2>1. \A s \in Requests : s # r => kind'[s] = kind[s] BY <1>2 DEF Arrive, Typed
  <2> QED BY <1>2, <2>1, Bystander DEF Arrive
<1>3. ASSUME NEW r \in Requests, Refuse(r) PROVE Sessions'
    BY <1>3, Bystander DEF Refuse, InTurn, At
<1>4. ASSUME NEW r \in Requests, Recorder(r) PROVE Sessions'
  <2>1. CASE Control(r) BY <2>1, Bystander DEF Control, Enter, InTurn, At
  <2>2. CASE Controlled(r) BY <2>2, Bystander DEF Controlled, At
  <2> QED BY <1>4, <2>1, <2>2, SessionsStartRecorder, SessionsRecorderStarted,
             SessionsStopRecorder, SessionsRecorderStopped DEF Recorder
<1>5. ASSUME NEW r \in Requests, Replay(r) PROVE Sessions'
  <2>1. CASE ReplayRequest(r) BY <2>1, Bystander DEF ReplayRequest, Enter, InTurn, At
  <2>2. CASE ReplayFails(r) \/ Spawn(r) \/ Track(r)
      BY <2>2, Bystander DEF ReplayFails, Spawn, Track, At
  <2>3. CASE StopReplay(r)
    <3>1. \A s \in Requests : s # r => job'[s] = job[s] BY <2>3 DEF StopReplay, Typed
    <3> QED BY <2>3, <3>1, Bystander DEF StopReplay, Enter, InTurn, At
  <2>4. CASE Terminated(r) BY <2>4, Bystander DEF Terminated, At
  <2>5. CASE CancelWorker(r) BY <2>5, <1>0 DEF CancelWorker
  <2>6. CASE ReplayStopped(r) BY <2>6, Bystander DEF ReplayStopped, At
  <2> QED BY <1>5, <2>1, <2>2, <2>3, <2>4, <2>5, <2>6 DEF Replay
<1>6. ASSUME NEW r \in Requests, Interactive(r) PROVE Sessions'
  <2>1. CASE StartInteractive(r)
      BY <2>1, Bystander DEF StartInteractive, Enter, InTurn, At
  <2>2. CASE ClearStarting(r) BY <2>2, Bystander DEF ClearStarting, InTurn, At
  <2> QED BY <1>6, <2>1, <2>2, SessionsBrowserOpens, SessionsBooted, SessionsBootFails,
             SessionsAdopt, SessionsDiscard, SessionsDiscarded, SessionsStopInteractive,
             SessionsInteractiveStopped DEF Interactive
<1>7. ASSUME NEW r \in Requests, ShutdownStep(r) PROVE Sessions'
  <2>1. CASE ShutProcess(r) BY <2>1, Bystander DEF ShutProcess, At
  <2> QED BY <1>7, <2>1, SessionsShutdown, SessionsShutInteractive, SessionsShutRecorder
          DEF ShutdownStep
<1>8. ASSUME NEW r \in Requests, Child(r) PROVE Sessions'
    BY <1>8, <1>0 DEF Child, ProcessEnds, WorkerEnds
<1> QED BY <1>1, <1>2, <1>3, <1>4, <1>5, <1>6, <1>7, <1>8 DEF Next, Serve

LEMMA SessionsAlways == Spec => []Sessions
BY TypedInit, TypedStep, ExcludesInit, ExcludesStep, SessionsInit, SessionsStep, PTL DEF Spec

(* A recording session and an interactive replay never run together.       *)
THEOREM SessionsExclude == Spec => []OneSession
BY SessionsAlways, PTL DEF Sessions

(* Every browser the dashboard opened can still be closed.                 *)
THEOREM BrowsersAreKnown == Spec => []NoLostBrowser
BY SessionsAlways, PTL DEF Sessions

-----------------------------------------------------------------------------
(* The replay and the three fields that say which it is. *)

LEMMA ReplaysInit == Init => Replays
<1> SUFFICES ASSUME Init PROVE Replays OBVIOUS
<1> QED BY DEF Init, Replays, Replaying, Spawning, NoReplay, Tracks

\* A step of a request that neither spawns a replay nor stops one.
LEMMA ElsewhereReplays ==
    ASSUME Typed, Replays, NEW r \in Requests, NEW place,
           at' = [at EXCEPT ![r] = place],
           at[r] \notin {"new", "spawned", "done"},
           place \notin {"spawn", "spawned", "proc.wait", "task"},
           \A s \in Requests : s # r => job'[s] = job[s],
           UNCHANGED <<kind, process, worker, replay>>
    PROVE  Replays'
<1>1. \A s \in Requests : at'[s] = IF s = r THEN place ELSE at[s] BY DEF Typed
<1> QED BY <1>1 DEF Replays, Replaying, Spawning, Tracks, Typed

LEMMA NothingWaits ==
    ASSUME NEW k, Cardinality(Waiting(k)) < 1
    PROVE  Waiting(k) = {}
<1>1. IsFiniteSet(Requests) BY FS_Interval, DashboardAssumption DEF Requests
<1>2. IsFiniteSet(Waiting(k)) BY <1>1, FS_Subset DEF Waiting
<1>3. Cardinality(Waiting(k)) \in Nat BY <1>2, FS_CardinalityType
<1>4. Cardinality(Waiting(k)) = 0 BY <1>3
<1> QED BY <1>2, <1>4, FS_EmptySet

LEMMA ReplaysArrive ==
    ASSUME MaxReplayRequests = 1, Typed, Excludes, Replays, NEW r \in Requests, Arrive(r)
    PROVE  Replays'
<1> USE NoneIsNoRequest DEF Typed, Goto, pointers, outside, Arrive
<1> USE DEF At, InTurn, NoReplay, Tracks, Replaying, Spawning, Held, Ask
<1>1. PICK k \in Kinds : /\ k = "replay" => Cardinality(Waiting(k)) < MaxReplayRequests
                         /\ kind' = [kind EXCEPT ![r] = k]
    BY DEF Arrive
<1>2. k = "replay" => \A s \in Requests : kind[s] # "replay" \/ at[s] = "done"
  <2> SUFFICES ASSUME k = "replay" PROVE \A s \in Requests : kind[s] # k \/ at[s] = "done"
      OBVIOUS
  <2>1. Waiting(k) = {} BY <1>1, NothingWaits
  <2> QED BY <2>1 DEF Waiting
<1>3. \A s \in Requests : at'[s] = IF s = r THEN "lock" ELSE at[s] OBVIOUS
<1>4. \A s \in Requests : kind'[s] = IF s = r THEN k ELSE kind[s] BY <1>1
<1> QED BY <1>2, <1>3, <1>4 DEF Replays

LEMMA ReplaysReplayRequest ==
    ASSUME MaxReplayRequests = 1, Typed, Excludes, Replays, NEW r \in Requests, ReplayRequest(r)
    PROVE  Replays'
<1> USE NoneIsNoRequest DEF Typed, Goto, pointers, outside, ReplayRequest
<1> USE DEF At, InTurn, NoReplay, Tracks, Replaying, Spawning, Held, Enter, Blocked
<1>1. \A s \in Requests : at[s] \in Held => s = r BY HoldsAlone
<1> QED BY <1>1 DEF Replays

LEMMA ReplaysReplayFails ==
    ASSUME MaxReplayRequests = 1, Typed, Excludes, Replays, NEW r \in Requests, ReplayFails(r)
    PROVE  Replays'
<1> USE NoneIsNoRequest DEF Typed, Goto, pointers, outside, ReplayFails
<1> USE DEF At, InTurn, NoReplay, Tracks, Replaying, Spawning, Held
<1> QED BY DEF Replays

LEMMA ReplaysSpawn ==
    ASSUME MaxReplayRequests = 1, Typed, Excludes, Replays, NEW r \in Requests, Spawn(r)
    PROVE  Replays'
<1> USE NoneIsNoRequest DEF Typed, Goto, pointers, outside, Spawn
<1> USE DEF At, InTurn, NoReplay, Tracks, Replaying, Spawning, Held
<1> QED BY DEF Replays

LEMMA ReplaysTrack ==
    ASSUME MaxReplayRequests = 1, Typed, Excludes, Replays, NEW r \in Requests, Track(r)
    PROVE  Replays'
<1> USE NoneIsNoRequest DEF Typed, Goto, pointers, outside, Track
<1> USE DEF At, InTurn, NoReplay, Tracks, Replaying, Spawning, Held
<1>1. \A s \in Requests : s # r => ~Spawning(s) BY DEF Replays
<1>2. \A s \in Requests : at[s] \notin {"proc.wait", "task"} BY DEF Replays
<1>3. \A s \in Requests : at'[s] = IF s = r THEN "done" ELSE at[s] OBVIOUS
<1>4. \A s \in Requests : worker'[s] = IF s = r THEN "communicate" ELSE worker[s] OBVIOUS
<1>5. \A s \in Requests : worker[s] # "communicate" BY DEF Replays
<1>6. kind' = kind /\ process' = process /\ replay' = Tracks(r) OBVIOUS
<1> HIDE DEF Typed, Track
<1>7. \A x, s \in Requests : Replaying(x)' /\ Replaying(s)' => x = s BY <1>3, <1>6 DEF Replays
<1>8. \A x \in Requests : ~Spawning(x)' BY <1>1, <1>3
<1>9. \A x \in Requests : process'[x] = "alive" => at'[x] = "done" /\ worker'[x] = "communicate"
    BY <1>1, <1>3, <1>4, <1>5, <1>6 DEF Replays
<1>10. \A x \in Requests : worker'[x] # "none" => at'[x] = "done" BY <1>3, <1>4 DEF Replays
<1>11. \A x \in Requests : worker'[x] = "communicate" => replay' = Tracks(x) BY <1>4, <1>5, <1>6
<1>12. replay' = Tracks(r) /\ worker'[r] = "communicate" BY <1>4, <1>6
<1>13. \A s \in Requests : at'[s] \notin {"proc.wait", "task"} BY <1>2, <1>3
<1> QED BY <1>7, <1>8, <1>9, <1>10, <1>11, <1>12, <1>13 DEF Replays

LEMMA ReplaysStopReplay ==
    ASSUME MaxReplayRequests = 1, Typed, Excludes, Replays, NEW r \in Requests, StopReplay(r)
    PROVE  Replays'
<1> USE NoneIsNoRequest DEF Typed, Goto, pointers, outside, StopReplay
<1> USE DEF At, InTurn, NoReplay, Tracks, Replaying, Spawning, Held, Enter, Blocked
<1>1. \A s \in Requests : at[s] \in Held => s = r BY HoldsAlone
<1> QED BY <1>1 DEF Replays

LEMMA ReplaysTerminated ==
    ASSUME MaxReplayRequests = 1, Typed, Excludes, Replays, NEW r \in Requests, Terminated(r)
    PROVE  Replays'
<1> USE NoneIsNoRequest DEF Typed, Goto, pointers, outside, Terminated
<1> USE DEF At, InTurn, NoReplay, Tracks, Replaying, Spawning, Held
<1>1. \A s \in Requests : at[s] \in Held => s = r BY HoldsAlone
<1> QED BY <1>1 DEF Replays

LEMMA ReplaysCancelWorker ==
    ASSUME MaxReplayRequests = 1, Typed, Excludes, Replays, NEW r \in Requests, CancelWorker(r)
    PROVE  Replays'
<1> USE NoneIsNoRequest DEF Typed, Goto, pointers, outside, CancelWorker
<1> USE DEF At, InTurn, NoReplay, Tracks, Replaying, Spawning, Held
<1>1. \A s \in Requests : at[s] \in Held => s = r BY HoldsAlone
<1> QED BY <1>1 DEF Replays

LEMMA ReplaysReplayStopped ==
    ASSUME MaxReplayRequests = 1, Typed, Excludes, Replays, NEW r \in Requests, ReplayStopped(r)
    PROVE  Replays'
<1> USE NoneIsNoRequest DEF Typed, Goto, pointers, outside, ReplayStopped
<1> USE DEF At, InTurn, NoReplay, Tracks, Replaying, Spawning, Held
<1>1. \A s \in Requests : at[s] \in Held => s = r BY HoldsAlone
<1> QED BY <1>1 DEF Replays

LEMMA ReplaysProcessEnds ==
    ASSUME MaxReplayRequests = 1, Typed, Excludes, Replays, NEW r \in Requests, ProcessEnds(r)
    PROVE  Replays'
<1> USE NoneIsNoRequest DEF Typed, Goto, pointers, outside, ProcessEnds
<1> USE DEF At, InTurn, NoReplay, Tracks, Replaying, Spawning, Held
<1> QED BY DEF Replays

LEMMA ReplaysWorkerEnds ==
    ASSUME MaxReplayRequests = 1, Typed, Excludes, Replays, NEW r \in Requests, WorkerEnds(r)
    PROVE  Replays'
<1> USE NoneIsNoRequest DEF Typed, Goto, pointers, outside, WorkerEnds
<1> USE DEF At, InTurn, NoReplay, Tracks, Replaying, Spawning, Held
<1> QED BY DEF Replays

LEMMA ReplaysShutProcess ==
    ASSUME MaxReplayRequests = 1, Typed, Excludes, Replays, NEW r \in Requests, ShutProcess(r)
    PROVE  Replays'
<1> USE NoneIsNoRequest DEF Typed, Goto, pointers, outside, ShutProcess
<1> USE DEF At, InTurn, NoReplay, Tracks, Replaying, Spawning, Held
<1>1. \A s \in Requests : process'[s] = process[s] \/ process'[s] = "dead" OBVIOUS
<1>2. \A s \in Requests : at'[s] = IF s = r THEN "recorder" ELSE at[s] OBVIOUS
<1> QED BY <1>1, <1>2 DEF Replays

LEMMA ReplaysStep ==
    MaxReplayRequests = 1 /\ Typed /\ Excludes /\ Replays /\ [Next]_vars => Replays'
<1> SUFFICES ASSUME MaxReplayRequests = 1, Typed, Excludes, Replays, [Next]_vars PROVE Replays'
    OBVIOUS
<1> USE DEF Goto, pointers, outside
<1>0. ASSUME UNCHANGED <<at, kind, job, process, worker, replay>> PROVE Replays'
    BY <1>0 DEF Replays, Replaying, Spawning
<1>1. CASE UNCHANGED vars BY <1>0, <1>1 DEF vars
<1>2. ASSUME NEW r \in Requests, Arrive(r) PROVE Replays' BY <1>2, ReplaysArrive
<1>3. ASSUME NEW r \in Requests, Refuse(r) PROVE Replays'
    BY <1>3, ElsewhereReplays DEF Refuse, InTurn, At
<1>4. ASSUME NEW r \in Requests, Recorder(r) PROVE Replays'
  <2>1. CASE StartRecorder(r) \/ Control(r)
      BY <2>1, ElsewhereReplays DEF StartRecorder, Control, Enter, InTurn, At
  <2>2. CASE RecorderStarted(r) \/ RecorderStopped(r) \/ Controlled(r)
      BY <2>2, ElsewhereReplays DEF RecorderStarted, RecorderStopped, Controlled, At
  <2>3. CASE StopRecorder(r)
    <3>1. \A s \in Requests : s # r => job'[s] = job[s] BY <2>3 DEF StopRecorder, Typed
    <3> QED BY <2>3, <3>1, ElsewhereReplays DEF StopRecorder, Enter, InTurn, At
  <2> QED BY <1>4, <2>1, <2>2, <2>3 DEF Recorder
<1>5. ASSUME NEW r \in Requests, Replay(r) PROVE Replays'
    BY <1>5, ReplaysReplayRequest, ReplaysReplayFails, ReplaysSpawn, ReplaysTrack,
       ReplaysStopReplay, ReplaysTerminated, ReplaysCancelWorker, ReplaysReplayStopped DEF Replay
<1>6. ASSUME NEW r \in Requests, Interactive(r) PROVE Replays'
  <2>1. CASE StartInteractive(r)
      BY <2>1, ElsewhereReplays DEF StartInteractive, Enter, InTurn, At
  <2>2. CASE ClearStarting(r) \/ Adopt(r) \/ Discard(r)
      BY <2>2, ElsewhereReplays DEF ClearStarting, Adopt, Discard, InTurn, At
  <2>3. CASE Booted(r) \/ BootFails(r) \/ Discarded(r) \/ InteractiveStopped(r)
      BY <2>3, ElsewhereReplays DEF Booted, BootFails, Discarded, InteractiveStopped, At
  <2>4. CASE BrowserOpens(r) BY <2>4, <1>0 DEF BrowserOpens
  <2>5. CASE StopInteractive(r)
    <3>1. \A s \in Requests : s # r => job'[s] = job[s] BY <2>5 DEF StopInteractive, Typed
    <3>2. at' = [at EXCEPT ![r] = "done"] \/ at' = [at EXCEPT ![r] = "iv.stop"]
        BY <2>5 DEF StopInteractive
    <3> QED BY <2>5, <3>1, <3>2, ElsewhereReplays DEF StopInteractive, Enter, InTurn, At
  <2> QED BY <1>6, <2>1, <2>2, <2>3, <2>4, <2>5 DEF Interactive
<1>7. ASSUME NEW r \in Requests, ShutdownStep(r) PROVE Replays'
  <2>1. CASE Shutdown(r) BY <2>1, ElsewhereReplays DEF Shutdown, Enter, InTurn, At
  <2>2. CASE ShutInteractive(r)
    <3>1. \A s \in Requests : s # r => job'[s] = job[s] BY <2>2 DEF ShutInteractive, Typed
    <3> QED BY <2>2, <3>1, ElsewhereReplays DEF ShutInteractive, At
    <2>3. CASE ShutRecorder(r) BY <2>3, ElsewhereReplays DEF ShutRecorder, At
  <2> QED BY <1>7, <2>1, <2>2, <2>3, ReplaysShutProcess DEF ShutdownStep
<1>8. ASSUME NEW r \in Requests, Child(r) PROVE Replays'
    BY <1>8, ReplaysProcessEnds, ReplaysWorkerEnds DEF Child
<1> QED BY <1>1, <1>2, <1>3, <1>4, <1>5, <1>6, <1>7, <1>8 DEF Next, Serve

LEMMA ReplaysAreTracked == Typed /\ (MaxReplayRequests = 1 => Replays) => ReplayIsTracked
BY DEF Replays, ReplayIsTracked, Tracks

LEMMA ReplaysStepWhenOne ==
    /\ Init => (MaxReplayRequests = 1 => Replays)
    /\ Typed /\ Excludes /\ (MaxReplayRequests = 1 => Replays) /\ [Next]_vars
         => (MaxReplayRequests = 1 => Replays)'
<1>1. CASE MaxReplayRequests = 1 BY <1>1, ReplaysInit, ReplaysStep
<1>2. CASE MaxReplayRequests # 1 BY <1>2
<1> QED BY <1>1, <1>2

(* A child process that runs is the one Stop would terminate.              *)
THEOREM ReplaysAreKnown == Spec => []ReplayIsTracked
BY TypedInit, TypedStep, ExcludesInit, ExcludesStep, ReplaysStepWhenOne, ReplaysAreTracked, PTL
   DEF Spec
=============================================================================
