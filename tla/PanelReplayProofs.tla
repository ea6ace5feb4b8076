--------------------------- MODULE PanelReplayProofs ---------------------------
(***************************************************************************)
(* Theorems about PanelReplay.  What holds after every step:               *)
(*   Typed      - the state's types;                                       *)
(*   OneReplay  - every task but the tracked one has been cancelled;       *)
(*   Counted    - the recorder's suspension depth is the number of tasks   *)
(*                and handlers that suspended it and of the levels lost;   *)
(*   InOrder    - while the list stays as it is, where the live task and   *)
(*                the stop points stand in the pass.                       *)
(***************************************************************************)
EXTENDS PanelReplay, ListFacts, FiniteSetTheorems

Kinds == {"none", "replay", "stop", "pause", "resume", "validate", "force_fix", "record"} \cup EditKinds
Runs == [pc : Stages, start : Nat, at : Nat, step : Nat, live : BOOLEAN, list : Seq(Nat), cancelled : BOOLEAN]
Calls == [kind : Kinds, stage : {"sent", "awaiting"}, step : Nat]

Typed ==
    /\ steps \in Seq(Nat) /\ task \in [Tasks -> Runs] /\ replayTask \in Tasks \cup {NoTask}
    /\ pauseRequested \in BOOLEAN /\ pausedStep \in Nat /\ failingStep \in Nat
    /\ depth \in Nat /\ recording \in BOOLEAN
    /\ call \in [Clients -> Calls]
    /\ mode \in [Clients -> {"edit", "replaying", "failed"}]
    /\ used \in [clicks : Nat, loads : Nat, edits : Nat, fixes : Nat, records : Nat]
    /\ first \in Nat /\ ran \in Seq(Nat) /\ lost \in Nat

\* The tasks and handlers that have suspended the recorder's capturing.
Inside == {"suspending", "acting", "announcing", "completing"}
Suspenders == {t \in Tasks : task[t].pc \in Inside}
Validating == {c \in Clients : Awaiting(c, "validate")}
Levels == Cardinality(Suspenders) + Cardinality(Validating)

\* Nobody has recorded yet.
Unrecorded ==
    used.records = 0 =>
        /\ lost = 0 /\ ~recording /\ (\A c \in Clients : call[c].kind # "record")
        /\ \A t \in Tasks : task[t].pc # "suspending"

Counted == depth = Levels + lost /\ Unrecorded

Live(t) == task[t].pc # "free" /\ ~task[t].cancelled
StoppedAt == failingStep # NoStep \/ pausedStep # NoStep

\* The list is not edited and no cascade names a step that failed.
Unedited == MaxEdits = 0 /\ MaxFixes = 0

Reached(s) == s \in 1..N /\ first + Len(ran) = s

InPlace ==
    /\ steps = [i \in 1..N |-> i]
    /\ StepsPassInOrder /\ first \in 1..N /\ (first + Len(ran) <= N + 1)
    /\ failingStep # NoStep => Reached(failingStep)
    /\ pausedStep # NoStep => Reached(pausedStep)

RunInPlace(t) ==
    /\ task[t].live
    /\ \/ /\ task[t].pc \in {"created", "suspending"} /\ ~StoppedAt
          /\ IF task[t].start = NoStep THEN first = 1 /\ ran = <<>> ELSE Reached(task[t].start)
       \/ task[t].pc = "acting" /\ ~StoppedAt /\ task[t].at = task[t].step /\ Reached(task[t].step)
       \/ task[t].pc \in {"announcing", "completing", "restoring"}

CallInPlace(c) ==
    /\ call[c].kind \notin EditKinds \cup {"force_fix"}
    /\ Awaiting(c, "resume") => call[c].step \in 1..N

InOrder ==
    /\ InPlace
    /\ \A t \in Tasks : Live(t) => RunInPlace(t)
    /\ \A c \in Clients : CallInPlace(c)

LEMMA Bounds ==
    /\ N \in Nat \ {0} /\ MaxTasks \in Nat \ {0} /\ IsFiniteSet(Clients) /\ IsFiniteSet(Tasks)
    /\ MaxClicks \in Nat /\ MaxLoads \in Nat /\ MaxEdits \in Nat /\ MaxFixes \in Nat /\ MaxRecords \in Nat
    /\ Tasks \subseteq Nat /\ NoTask \notin Tasks /\ NoTask = 0 /\ NoStep = 0
<1>1. N \in Nat \ {0} /\ MaxTasks \in Nat \ {0} BY PanelAssumption
<1>2. IsFiniteSet(1..MaxTasks) BY <1>1, FS_Interval
<1> QED BY <1>1, <1>2, PanelAssumption DEF Tasks, NoTask, NoStep

LEMMA RunFields ==
    ASSUME NEW r \in Runs
    PROVE  /\ r.pc \in Stages /\ r.start \in Nat /\ r.at \in Nat /\ r.step \in Nat
           /\ r.live \in BOOLEAN /\ r.list \in Seq(Nat) /\ r.cancelled \in BOOLEAN
BY DEF Runs

LEMMA FreeIsRun == Free \in Runs
<1>1. <<>> \in Seq(Nat) OBVIOUS
<1> QED BY <1>1 DEF Free, Runs, Stages, NoStep

\* The list a task iterates is one of steps.
LEMMA ViewTyped == ASSUME Typed, NEW t \in Tasks PROVE View(t) \in Seq(Nat)
<1>1. task[t] \in Runs BY DEF Typed
<1>2. task[t].list \in Seq(Nat) BY <1>1, RunFields
<1> QED BY <1>2 DEF View, Typed

\* One task changes, and goes on as it was: its list, and whether it is cancelled.
Moves(t, r) ==
    /\ r \in Runs /\ task' = [task EXCEPT ![t] = r]
    /\ r.start = task[t].start /\ r.live = task[t].live /\ r.list = task[t].list
    /\ r.cancelled = task[t].cancelled

PlacedAt(t, pc) == task' = [task EXCEPT ![t].pc = pc]
SteppedTo(t, pc, i, s) == task' = [task EXCEPT ![t].pc = pc, ![t].at = i, ![t].step = s]

LEMMA TaskMoves ==
    ASSUME Typed, NEW t \in Tasks, NEW pc \in Stages
    PROVE  /\ PlacedAt(t, pc) =>
                  \E r : Moves(t, r) /\ r.pc = pc /\ r.at = task[t].at /\ r.step = task[t].step
           /\ \A i \in Nat, s \in Nat :
                  SteppedTo(t, pc, i, s) => \E r : Moves(t, r) /\ r.pc = pc /\ r.at = i /\ r.step = s
<1>1. task \in [Tasks -> Runs] /\ task[t] \in Runs BY DEF Typed
<1> DEFINE q == task[t]
<1>2. /\ q.start \in Nat /\ q.at \in Nat /\ q.step \in Nat
      /\ q.live \in BOOLEAN /\ q.list \in Seq(Nat) /\ q.cancelled \in BOOLEAN
    BY <1>1, RunFields
<1>3. ASSUME task' = [task EXCEPT ![t].pc = pc]
      PROVE  \E r : Moves(t, r) /\ r.pc = pc /\ r.at = task[t].at /\ r.step = task[t].step
  <2> DEFINE r == [q EXCEPT !.pc = pc]
  <2>1. r \in Runs BY <1>1 DEF Runs
  <2>2. task' = [task EXCEPT ![t] = r] BY <1>1, <1>3
  <2>3. /\ r.pc = pc /\ r.at = q.at /\ r.step = q.step /\ r.start = q.start /\ r.live = q.live
        /\ r.list = q.list /\ r.cancelled = q.cancelled
      BY <1>1 DEF Runs
  <2> HIDE DEF r
  <2> QED BY <2>1, <2>2, <2>3 DEF Moves
<1>4. ASSUME NEW i \in Nat, NEW s \in Nat,
             task' = [task EXCEPT ![t].pc = pc, ![t].at = i, ![t].step = s]
      PROVE  \E r : Moves(t, r) /\ r.pc = pc /\ r.at = i /\ r.step = s
  <2> DEFINE r == [q EXCEPT !.pc = pc, !.at = i, !.step = s]
  <2>1. r \in Runs BY <1>1 DEF Runs
  <2>2. task' = [task EXCEPT ![t] = r] BY <1>1, <1>4
  <2>3. /\ r.pc = pc /\ r.at = i /\ r.step = s /\ r.start = q.start /\ r.live = q.live
        /\ r.list = q.list /\ r.cancelled = q.cancelled
      BY <1>1 DEF Runs
  <2> HIDE DEF r
  <2> QED BY <2>1, <2>2, <2>3 DEF Moves
<1> QED BY <1>3, <1>4 DEF PlacedAt, SteppedTo

\* Where the head of the loop leaves its task.
Heads(t, i, r) ==
    /\ Moves(t, r)
    /\ \/ /\ i > Len(View(t)) /\ r.pc = "completing" /\ UNCHANGED <<pauseRequested, pausedStep>>
       \/ /\ i <= Len(View(t)) /\ ~pauseRequested /\ pauseRequested' = FALSE /\ pausedStep' = pausedStep
          /\ r.pc = "acting" /\ r.at = i /\ r.step = View(t)[i]
       \/ /\ i <= Len(View(t)) /\ pauseRequested /\ pauseRequested' = FALSE /\ pausedStep' = View(t)[i]
          /\ r.pc = "announcing" /\ r.at = i /\ r.step = View(t)[i]

LEMMA LoopHeadMoves ==
    ASSUME Typed, NEW t \in Tasks, NEW i \in Nat, i > 0, LoopHead(t, i)
    PROVE  \E r : Heads(t, i, r)
<1>1. View(t) \in Seq(Nat) BY ViewTyped
<1>2. pauseRequested \in BOOLEAN BY DEF Typed
<1>3. CASE i > Len(View(t))
  <2>1. PlacedAt(t, "completing") /\ UNCHANGED <<pauseRequested, pausedStep>>
      BY <1>3 DEF LoopHead, PlacedAt
  <2>2. "completing" \in Stages BY DEF Stages
  <2> QED BY <1>3, <2>1, <2>2, TaskMoves DEF Heads
<1>4. CASE i <= Len(View(t))
  <2> DEFINE s == View(t)[i]
  <2>1. s \in Nat BY <1>1, <1>4
  <2>2. ~(i > Len(View(t))) BY <1>1, <1>4
  <2>3. /\ task' = [task EXCEPT ![t].pc = IF pauseRequested THEN "announcing" ELSE "acting",
                                ![t].at = i, ![t].step = s]
        /\ pauseRequested' = FALSE /\ pausedStep' = IF pauseRequested THEN s ELSE pausedStep
      BY <2>2 DEF LoopHead
  <2> HIDE DEF s
  <2>4. CASE pauseRequested
    <3>1. "announcing" \in Stages BY DEF Stages
    <3>2. SteppedTo(t, "announcing", i, s) BY <2>3, <2>4 DEF SteppedTo
    <3>3. \E r : Moves(t, r) /\ r.pc = "announcing" /\ r.at = i /\ r.step = s
        BY <2>1, <3>1, <3>2, TaskMoves
    <3> QED BY <1>4, <2>3, <2>4, <3>3 DEF Heads, s
  <2>5. CASE ~pauseRequested
    <3>1. "acting" \in Stages BY DEF Stages
    <3>2. SteppedTo(t, "acting", i, s) BY <2>3, <2>5 DEF SteppedTo
    <3>3. \E r : Moves(t, r) /\ r.pc = "acting" /\ r.at = i /\ r.step = s
        BY <2>1, <3>1, <3>2, TaskMoves
    <3> QED BY <1>4, <2>3, <2>5, <3>3 DEF Heads, s
  <2> QED BY <2>4, <2>5
<1> QED BY <1>1, <1>3, <1>4

LEMMA FirstIndexTyped ==
    ASSUME NEW list \in Seq(Nat), NEW s
    PROVE  FirstIndex(list, s) \in Nat /\ FirstIndex(list, s) > 0
<1>1. CASE s # NoStep /\ Contains(list, s)
  <2>1. \E i \in DOMAIN list : list[i] = s BY <1>1 DEF Contains
  <2>2. (CHOOSE i \in DOMAIN list : list[i] = s) \in 1..Len(list) BY <2>1
  <2> QED BY <1>1, <2>2 DEF FirstIndex
<1> QED BY <1>1 DEF FirstIndex

\* The task is over, or gives capturing back to the page first.
LEMMA GoneMoves ==
    ASSUME Typed, NEW t \in Tasks, Gone(t)
    PROVE  /\ task' = [task EXCEPT ![t] = Free] /\ replayTask' \in {replayTask, NoTask}
           /\ replayTask # t => replayTask' = replayTask
BY DEF Gone

LEMMA ReleaseMoves ==
    ASSUME Typed, NEW t \in Tasks, Release(t)
    PROVE  /\ depth' = IF depth > 0 THEN depth - 1 ELSE 0
           /\ \/ Gone(t)
              \/ recording /\ replayTask' = replayTask /\ \E r : Moves(t, r) /\ r.pc = "restoring"
<1>1. CASE depth' = 0 /\ recording
  <2>1. PlacedAt(t, "restoring") /\ UNCHANGED replayTask BY <1>1 DEF Release, PlacedAt
  <2>2. "restoring" \in Stages BY DEF Stages
  <2>3. \E r : Moves(t, r) /\ r.pc = "restoring" BY <2>1, <2>2, TaskMoves
  <2> QED BY <1>1, <2>1, <2>3 DEF Release
<1> QED BY <1>1 DEF Release

\* The running replay, if any, is cancelled.
LEMMA CancelledTyped ==
    ASSUME Typed
    PROVE  /\ Cancelled \in [Tasks -> Runs]
           /\ \A t \in Tasks :
                  /\ Cancelled[t].pc = task[t].pc /\ Cancelled[t].at = task[t].at
                  /\ Cancelled[t].step = task[t].step /\ Cancelled[t].live = task[t].live
                  /\ Cancelled[t].list = task[t].list /\ Cancelled[t].start = task[t].start
                  /\ Cancelled[t].cancelled <=> (task[t].cancelled \/ t = replayTask)
<1>1. task \in [Tasks -> Runs] /\ replayTask \in Tasks \cup {NoTask} BY DEF Typed
<1>2. CASE replayTask = NoTask
  <2>1. Cancelled = task BY <1>2 DEF Cancelled
  <2> QED BY <1>1, <1>2, <2>1, Bounds, RunFields
<1>3. CASE replayTask # NoTask
  <2> DEFINE r == [task[replayTask] EXCEPT !.cancelled = TRUE]
  <2>1. replayTask \in Tasks /\ task[replayTask] \in Runs BY <1>1, <1>3
  <2>2. r \in Runs BY <2>1 DEF Runs
  <2>3. Cancelled = [task EXCEPT ![replayTask] = r] BY <1>3 DEF Cancelled
  <2>4. /\ r.pc = task[replayTask].pc /\ r.at = task[replayTask].at /\ r.step = task[replayTask].step
        /\ r.live = task[replayTask].live /\ r.list = task[replayTask].list
        /\ r.start = task[replayTask].start /\ r.cancelled = TRUE
      BY <2>1 DEF Runs
  <2> HIDE DEF r
  <2>5. Cancelled \in [Tasks -> Runs] BY <1>1, <2>1, <2>2, <2>3
  <2>6. ASSUME NEW t \in Tasks
        PROVE  /\ Cancelled[t].pc = task[t].pc /\ Cancelled[t].at = task[t].at
               /\ Cancelled[t].step = task[t].step /\ Cancelled[t].live = task[t].live
               /\ Cancelled[t].list = task[t].list /\ Cancelled[t].start = task[t].start
               /\ Cancelled[t].cancelled <=> (task[t].cancelled \/ t = replayTask)
    <3>1. CASE t = replayTask
      <4>1. Cancelled[t] = r BY <1>1, <2>1, <2>3, <3>1
      <4> QED BY <2>4, <3>1, <4>1
    <3>2. CASE t # replayTask
      <4>1. Cancelled[t] = task[t] BY <1>1, <2>3, <3>2
      <4> QED BY <3>2, <4>1
    <3> QED BY <3>1, <3>2
  <2> QED BY <2>5, <2>6
<1> QED BY <1>2, <1>3

\* A replay is started: the running one is cancelled, and a free task is taken.
LEMMA StartReplayMoves ==
    ASSUME Typed, NEW s \in Nat, StartReplay(s)
    PROVE  \E t \in Tasks :
               /\ task[t] = Free /\ replayTask' = t /\ task' \in [Tasks -> Runs]
               /\ \A u \in Tasks : u # t => task'[u] = Cancelled[u]
               /\ task'[t].pc = "created" /\ task'[t].start = s /\ task'[t].at = 1 /\ task'[t].step = NoStep
               /\ task'[t].live = TRUE /\ task'[t].list = <<>>
               /\ task'[t].cancelled <=> t = replayTask
<1>1. PICK t \in Tasks : /\ task[t] = Free /\ replayTask' = t
                         /\ task' = [Cancelled EXCEPT ![t].pc = "created", ![t].start = s]
    BY DEF StartReplay
<1> DEFINE C == Cancelled
           r == [C[t] EXCEPT !.pc = "created", !.start = s]
<1>2. C \in [Tasks -> Runs] /\ C[t] \in Runs BY CancelledTyped
<1>3. r \in Runs
  <2>1. "created" \in Stages BY DEF Stages
  <2> QED BY <1>2, <2>1 DEF Runs
<1>4. task' = [C EXCEPT ![t] = r] BY <1>1, <1>2
<1>5. /\ r.pc = "created" /\ r.start = s /\ r.at = C[t].at /\ r.step = C[t].step
      /\ r.live = C[t].live /\ r.list = C[t].list /\ r.cancelled = C[t].cancelled
    BY <1>2 DEF Runs
<1>6. /\ C[t].at = 1 /\ C[t].step = NoStep /\ C[t].live = TRUE /\ C[t].list = <<>>
      /\ C[t].cancelled <=> t = replayTask
    BY <1>1, CancelledTyped DEF Free
<1> HIDE DEF C, r
<1>7. task' \in [Tasks -> Runs] /\ task'[t] = r /\ \A u \in Tasks : u # t => task'[u] = C[u]
    BY <1>2, <1>3, <1>4
<1> QED BY <1>1, <1>5, <1>6, <1>7 DEF C

LEMMA Moved ==
    ASSUME Typed, NEW t \in Tasks, NEW r, Moves(t, r)
    PROVE  /\ task' \in [Tasks -> Runs] /\ task'[t] = r
           /\ \A u \in Tasks : u # t => task'[u] = task[u]
BY DEF Moves, Typed

LEMMA GoneTyped ==
    ASSUME Typed, NEW t \in Tasks, Gone(t)
    PROVE  /\ task' \in [Tasks -> Runs] /\ replayTask' \in Tasks \cup {NoTask}
           /\ task'[t] = Free /\ \A u \in Tasks : u # t => task'[u] = task[u]
BY GoneMoves, FreeIsRun DEF Typed

LEMMA ReleaseTyped ==
    ASSUME Typed, NEW t \in Tasks, Release(t)
    PROVE  task' \in [Tasks -> Runs] /\ replayTask' \in Tasks \cup {NoTask} /\ depth' \in Nat
<1>1. depth' \in Nat BY ReleaseMoves DEF Typed
<1>2. CASE Gone(t) BY <1>1, <1>2, GoneTyped
<1>3. ASSUME NEW r, Moves(t, r), replayTask' = replayTask
      PROVE  task' \in [Tasks -> Runs] /\ replayTask' \in Tasks \cup {NoTask} /\ depth' \in Nat
    BY <1>1, <1>3, Moved DEF Typed
<1> QED BY <1>2, <1>3, ReleaseMoves

LEMMA HeadTyped ==
    ASSUME Typed, NEW t \in Tasks, NEW i \in Nat, i > 0, LoopHead(t, i)
    PROVE  task' \in [Tasks -> Runs] /\ pauseRequested' \in BOOLEAN /\ pausedStep' \in Nat
<1>1. PICK r : Heads(t, i, r) BY LoopHeadMoves
<1>2. task' \in [Tasks -> Runs] BY <1>1, Moved DEF Heads
<1>3. View(t) \in Seq(Nat) BY ViewTyped
<1>4. i <= Len(View(t)) => View(t)[i] \in Nat BY <1>3
<1> QED BY <1>1, <1>2, <1>4 DEF Heads, Typed

LEMMA TaskStepTyped == ASSUME Typed, NEW t \in Tasks, TaskStep(t) PROVE Typed'
<1>0. /\ View(t) \in Seq(Nat) /\ task[t] \in Runs /\ task[t].at \in Nat /\ task[t].step \in Nat
    BY ViewTyped, RunFields DEF Typed
<1>h. FirstIndex(View(t), task[t].start) \in Nat /\ FirstIndex(View(t), task[t].start) > 0
    BY <1>0, FirstIndexTyped
<1>1. CASE Suspend(t)
  <2>1. depth' \in Nat /\ UNCHANGED <<steps, replayTask, failingStep, recording, call, mode, used, seen>>
      BY <1>1 DEF Suspend, Typed
  <2>s. first' \in Nat /\ ran' \in Seq(Nat) /\ lost' \in Nat BY <2>1 DEF seen, Typed
  <2>2. CASE PlacedAt(t, "suspending") /\ UNCHANGED <<pauseRequested, pausedStep>>
    <3>1. "suspending" \in Stages BY DEF Stages
    <3>2. task' \in [Tasks -> Runs] BY <2>2, <3>1, TaskMoves, Moved
    <3> QED BY <2>1, <2>s, <2>2, <3>2 DEF Typed
  <2>3. CASE LoopHead(t, FirstIndex(View(t), task[t].start))
    <3>1. task' \in [Tasks -> Runs] /\ pauseRequested' \in BOOLEAN /\ pausedStep' \in Nat
        BY <1>h, <2>3, HeadTyped
    <3> QED BY <2>1, <2>s, <3>1 DEF Typed
  <2> QED BY <1>1, <2>2, <2>3 DEF Suspend, PlacedAt
<1>2. CASE Suspended(t)
  <2>1. task' \in [Tasks -> Runs] /\ pauseRequested' \in BOOLEAN /\ pausedStep' \in Nat
      BY <1>2, <1>h, HeadTyped DEF Suspended
  <2> QED BY <1>2, <2>1 DEF Suspended, Typed, seen
<1>3. CASE Pass(t)
  <2>1. LoopHead(t, task[t].at + 1) /\ task[t].at + 1 \in Nat /\ task[t].at + 1 > 0
      BY <1>0, <1>3 DEF Pass
  <2>2. task' \in [Tasks -> Runs] /\ pauseRequested' \in BOOLEAN /\ pausedStep' \in Nat
      BY <2>1, HeadTyped
  <2>3. ran' \in Seq(Nat) BY <1>0, <1>3 DEF Pass, Typed
  <2> QED BY <1>3, <2>2, <2>3 DEF Pass, Typed
<1>4. CASE Fail(t)
  <2>1. PlacedAt(t, "announcing") /\ "announcing" \in Stages BY <1>4 DEF Fail, PlacedAt, Stages
  <2>2. task' \in [Tasks -> Runs] BY <2>1, TaskMoves, Moved
  <2> QED BY <1>0, <1>4, <2>2 DEF Fail, Typed, seen
<1>5. CASE Announce(t)
  <2>1. Release(t) /\ mode' \in [Clients -> {"edit", "replaying", "failed"}]
      BY <1>5 DEF Announce, Typed
  <2> QED BY <1>5, <2>1, ReleaseTyped DEF Announce, Typed, seen
<1>6. CASE Complete(t)
  <2>1. Release(t) /\ mode' \in [Clients -> {"edit", "replaying", "failed"}]
      BY <1>6, Bounds DEF Complete, Typed
  <2> QED BY <1>6, <2>1, ReleaseTyped DEF Complete, Typed, seen
<1>7. CASE Restored(t) BY <1>7, GoneTyped DEF Restored, Typed, seen
<1>8. CASE Unwind(t)
  <2>0. lost' \in Nat BY <1>8 DEF Unwind, Typed
  <2>1. CASE Gone(t) /\ UNCHANGED depth BY <1>8, <2>0, <2>1, GoneTyped DEF Unwind, Typed
  <2>2. CASE Release(t) BY <1>8, <2>0, <2>2, ReleaseTyped DEF Unwind, Typed
  <2> QED BY <1>8, <2>1, <2>2 DEF Unwind
<1> QED BY <1>1, <1>2, <1>3, <1>4, <1>5, <1>6, <1>7, <1>8 DEF TaskStep

LEMMA CallFields ==
    ASSUME Typed, NEW c \in Clients
    PROVE  call[c].kind \in Kinds /\ call[c].stage \in {"sent", "awaiting"} /\ call[c].step \in Nat
BY DEF Typed, Calls

LEMMA CallChanges ==
    ASSUME Typed, NEW c \in Clients
    PROVE  /\ Await(c) => /\ call' \in [Clients -> Calls]
                          /\ call'[c].stage = "awaiting" /\ call'[c].kind = call[c].kind
                          /\ call'[c].step = call[c].step
                          /\ \A d \in Clients : d # c => call'[d] = call[d]
           /\ Return(c) => /\ call' \in [Clients -> Calls] /\ call'[c] = Idle
                           /\ \A d \in Clients : d # c => call'[d] = call[d]
<1>1. call \in [Clients -> Calls] /\ call[c] \in Calls BY DEF Typed
<1>2. Idle \in Calls BY DEF Idle, Calls, Kinds, NoStep
<1>3. Return(c) => /\ call' \in [Clients -> Calls] /\ call'[c] = Idle
                   /\ \A d \in Clients : d # c => call'[d] = call[d]
    BY <1>1, <1>2 DEF Return
<1>4. ASSUME Await(c)
      PROVE  /\ call' \in [Clients -> Calls]
             /\ call'[c].stage = "awaiting" /\ call'[c].kind = call[c].kind /\ call'[c].step = call[c].step
             /\ \A d \in Clients : d # c => call'[d] = call[d]
  <2> DEFINE m == [call[c] EXCEPT !.stage = "awaiting"]
  <2>1. m \in Calls /\ m.stage = "awaiting" /\ m.kind = call[c].kind /\ m.step = call[c].step
      BY <1>1 DEF Calls
  <2>2. call' = [call EXCEPT ![c] = m] BY <1>1, <1>4 DEF Await
  <2> HIDE DEF m
  <2> QED BY <1>1, <2>1, <2>2
<1> QED BY <1>3, <1>4

LEMMA Offers ==
    ASSUME Typed, NEW c \in Clients, NEW kind, NEW s \in Offered(c, kind)
    PROVE  s \in Nat
<1>1. Range(steps) \subseteq Nat BY DEF Typed, Range
<1> QED BY <1>1, Bounds DEF Offered

LEMMA Clicked ==
    ASSUME Typed, NEW c \in Clients, Click(c)
    PROVE  /\ UNCHANGED <<steps, task, replayTask, pauseRequested, pausedStep, failingStep, depth, recording, seen>>
           /\ call[c] = Idle
           /\ \E kind \in Buttons(mode[c]) : \E s \in Offered(c, kind) :
                  /\ Room(kind) /\ CountClick(kind) /\ s \in Nat /\ kind \in Kinds \ {"none"}
                  /\ call'[c] = [kind |-> kind, stage |-> "sent", step |-> s]
                  /\ mode'[c] = ModeAfter(kind, mode[c])
           /\ call' \in [Clients -> Calls] /\ mode' \in [Clients -> {"edit", "replaying", "failed"}]
           /\ \A d \in Clients : d # c => call'[d] = call[d] /\ mode'[d] = mode[d]
<1>0. /\ call \in [Clients -> Calls] /\ mode \in [Clients -> {"edit", "replaying", "failed"}]
    BY DEF Typed
<1>1. PICK kind \in Buttons(mode[c]) : \E s \in Offered(c, kind) :
          /\ Room(kind) /\ CountClick(kind)
          /\ call' = [call EXCEPT ![c] = [kind |-> kind, stage |-> "sent", step |-> s]]
          /\ mode' = [mode EXCEPT ![c] = ModeAfter(kind, @)]
    BY DEF Click
<1>2. PICK s \in Offered(c, kind) :
          /\ Room(kind) /\ CountClick(kind)
          /\ call' = [call EXCEPT ![c] = [kind |-> kind, stage |-> "sent", step |-> s]]
          /\ mode' = [mode EXCEPT ![c] = ModeAfter(kind, @)]
    BY <1>1
<1>3. s \in Nat BY Offers
<1>4. kind \in Kinds \ {"none"}
  <2>1. mode[c] \in {"edit", "replaying", "failed"} BY <1>0
  <2>2. Buttons(mode[c]) \subseteq {"replay", "validate", "append", "delete", "duplicate", "record", "pause",
                                     "stop", "resume", "force_fix"}
      BY <2>1 DEF Buttons, Repairs
  <2> QED BY <2>2 DEF Kinds, EditKinds
<1> DEFINE m == [kind |-> kind, stage |-> "sent", step |-> s]
<1>5. m \in Calls BY <1>3, <1>4 DEF Calls
<1>6. call' = [call EXCEPT ![c] = m] BY <1>2
<1> HIDE DEF m
<1>7. call' \in [Clients -> Calls] /\ call'[c] = m /\ \A d \in Clients : d # c => call'[d] = call[d]
    BY <1>0, <1>5, <1>6
<1>8. ModeAfter(kind, mode[c]) \in {"edit", "replaying", "failed"} BY <1>0 DEF ModeAfter
<1> DEFINE w == ModeAfter(kind, mode[c])
<1>9. mode' = [mode EXCEPT ![c] = w] /\ w \in {"edit", "replaying", "failed"} BY <1>2, <1>8
<1> HIDE DEF w
<1>10. /\ mode' \in [Clients -> {"edit", "replaying", "failed"}] /\ mode'[c] = w
       /\ \A d \in Clients : d # c => mode'[d] = mode[d]
    BY <1>0, <1>9
<1>12. /\ UNCHANGED <<steps, task, replayTask, pauseRequested, pausedStep, failingStep, depth, recording, seen>>
       /\ call[c] = Idle
    BY DEF Click, serverVars
<1>13. call'[c] = [kind |-> kind, stage |-> "sent", step |-> s] BY <1>7 DEF m
<1>14. mode'[c] = ModeAfter(kind, mode[c]) BY <1>10 DEF w
<1> QED BY <1>2, <1>3, <1>4, <1>7, <1>10, <1>12, <1>13, <1>14

Uses == [clicks : Nat, loads : Nat, edits : Nat, fixes : Nat, records : Nat]

LEMMA UseCounted ==
    ASSUME Typed, NEW kind, CountClick(kind)
    PROVE  /\ used' \in Uses /\ used'.loads = used.loads /\ used'.edits = used.edits
           /\ used'.records = used.records + (IF kind = "record" THEN 1 ELSE 0)
           /\ used'.fixes = used.fixes + (IF kind = "force_fix" THEN 1 ELSE 0)
<1>1. used \in Uses BY DEF Typed, Uses
<1>2. used.clicks \in Nat /\ used.loads \in Nat /\ used.edits \in Nat /\ used.fixes \in Nat /\ used.records \in Nat
    BY <1>1 DEF Uses
<1> DEFINE f == used.fixes + IF kind = "force_fix" THEN 1 ELSE 0
           g == used.records + IF kind = "record" THEN 1 ELSE 0
<1>3. f \in Nat /\ g \in Nat BY <1>2
<1>4. used' = [used EXCEPT !.clicks = used.clicks + 1, !.fixes = f, !.records = g] BY DEF CountClick
<1> HIDE DEF f, g
<1>n. used.clicks + 1 \in Nat BY <1>2
<1>u. used' = [clicks |-> used.clicks + 1, loads |-> used.loads, edits |-> used.edits, fixes |-> f, records |-> g]
    BY <1>1, <1>4 DEF Uses
<1>5. used' \in Uses /\ used'.loads = used.loads /\ used'.edits = used.edits /\ used'.records = g /\ used'.fixes = f
    BY <1>2, <1>3, <1>n, <1>u DEF Uses
<1> QED BY <1>5 DEF f, g

LEMMA StartTyped ==
    ASSUME Typed, NEW s \in Nat, StartReplay(s)
    PROVE  task' \in [Tasks -> Runs] /\ replayTask' \in Tasks \cup {NoTask}
BY StartReplayMoves

LEMMA ResumePointTyped == ASSUME Typed, NEW c \in Clients PROVE ResumePoint(c) \in Nat
BY CallFields, Bounds DEF ResumePoint, ApplyStep, Typed

LEMMA InsertedTyped == ASSUME Typed, NEW s PROVE InsertAt(steps, IndexBehind(s), NewStep) \in Seq(Nat)
<1>1. steps \in Seq(Nat) /\ used.edits \in Nat BY DEF Typed
<1>2. NewStep \in Nat BY <1>1, Bounds DEF NewStep
<1>3. IndexBehind(s) \in 1..(Len(steps) + 1)
  <2>1. CASE Contains(steps, s)
    <3>1. \E i \in DOMAIN steps : steps[i] = s BY <1>1, <2>1 DEF Contains
    <3>2. (CHOOSE i \in DOMAIN steps : steps[i] = s) \in 1..Len(steps) BY <1>1, <3>1
    <3> QED BY <1>1, <2>1, <3>2 DEF IndexBehind
  <2>2. CASE ~Contains(steps, s) BY <1>1, <2>2 DEF IndexBehind
  <2> QED BY <2>1, <2>2
<1> QED BY <1>1, <1>2, <1>3, InsertRange

\* A list that is bound anew leaves the running loops with the one they have.
LEMMA DeletedTasks ==
    ASSUME Typed, NEW c \in Clients, DeleteStep(c)
    PROVE  /\ task' \in [Tasks -> Runs]
           /\ \A t \in Tasks : /\ task'[t].pc = task[t].pc /\ task'[t].at = task[t].at
                               /\ task'[t].step = task[t].step /\ task'[t].start = task[t].start
                               /\ task'[t].cancelled = task[t].cancelled
<1>1. task' = [t \in Tasks |-> IF /\ task[t].live
                                  /\ task[t].pc \notin {"free", "created", "suspending"}
                                 THEN [task[t] EXCEPT !.live = FALSE, !.list = steps]
                                 ELSE task[t]]
    BY DEF DeleteStep
<1>2. ASSUME NEW t \in Tasks
      PROVE  /\ task'[t] \in Runs
             /\ task'[t].pc = task[t].pc /\ task'[t].at = task[t].at
             /\ task'[t].step = task[t].step /\ task'[t].start = task[t].start
             /\ task'[t].cancelled = task[t].cancelled
  <2> DEFINE r == [task[t] EXCEPT !.live = FALSE, !.list = steps]
  <2>1. task[t] \in Runs /\ steps \in Seq(Nat) BY DEF Typed
  <2>2. r \in Runs BY <2>1 DEF Runs
  <2>3. /\ r.pc = task[t].pc /\ r.at = task[t].at /\ r.step = task[t].step /\ r.start = task[t].start
        /\ r.cancelled = task[t].cancelled
      BY <2>1 DEF Runs
  <2>4. task'[t] = r \/ task'[t] = task[t] BY <1>1
  <2> HIDE DEF r
  <2> QED BY <2>1, <2>2, <2>3, <2>4
<1>3. task' = [t \in Tasks |-> task'[t]] BY <1>1
<1> QED BY <1>2, <1>3

LEMMA HandleTyped == ASSUME Typed, NEW c \in Clients, Handle(c) PROVE Typed'
<1>0. /\ call[c].step \in Nat /\ NoStep \in Nat BY CallFields, Bounds
<1>1. CASE SaveBeforeReplay(c) BY <1>1, CallChanges DEF SaveBeforeReplay, Typed, seen
<1>2. CASE Replay(c)
  <2>1. task' \in [Tasks -> Runs] /\ replayTask' \in Tasks \cup {NoTask} BY <1>0, <1>2, StartTyped DEF Replay
  <2>2. first' \in Nat /\ ran' \in Seq(Nat) BY <1>2 DEF Replay, PassBegins
  <2>3. call' \in [Clients -> Calls] BY <1>2, CallChanges DEF Replay
  <2> QED BY <1>0, <1>2, <2>1, <2>2, <2>3 DEF Replay, ClearStops, Typed, seen
<1>3. CASE Stop(c)
  <2>2. call' \in [Clients -> Calls] BY <1>3, CallChanges DEF Stop
  <2>3. task' \in [Tasks -> Runs] BY <1>3, CancelledTyped DEF Stop
  <2> QED BY <1>0, <1>3, <2>2, <2>3 DEF Stop, ClearStops, Typed, seen
<1>4. CASE PauseRequest(c) BY <1>4, CallChanges DEF PauseRequest, Typed, seen
<1>5. CASE ApplyOverride(c) BY <1>5, CallChanges DEF ApplyOverride, Typed, seen, serverVars
<1>6. CASE Resume(c)
  <2>1. task' \in [Tasks -> Runs] /\ replayTask' \in Tasks \cup {NoTask}
      BY <1>6, ResumePointTyped, StartTyped DEF Resume
  <2>2. call' \in [Clients -> Calls] BY <1>6, CallChanges DEF Resume
  <2>3. first' \in Nat /\ ran' \in Seq(Nat)
    <3> DEFINE b == IF ApplyStep(c) = NoStep THEN 1 ELSE ApplyStep(c)
    <3>1. b \in Nat BY <1>0 DEF ApplyStep
    <3>2. UNCHANGED <<first, ran>> \/ PassBegins(b) BY <1>6 DEF Resume, PassGoesOn
    <3> HIDE DEF b
    <3>3. CASE UNCHANGED <<first, ran>> BY <3>3 DEF Typed
    <3>4. CASE PassBegins(b) BY <3>1, <3>4 DEF PassBegins
    <3> QED BY <3>2, <3>3, <3>4
  <2> QED BY <1>0, <1>6, <2>1, <2>2, <2>3 DEF Resume, ClearStops, Typed, seen
<1>7. CASE ForceFix(c) BY <1>7, CallChanges DEF ForceFix, Typed, seen, serverVars
<1>8. CASE ForceFixed(c)
  <2>1. failingStep' \in Nat BY <1>0, <1>8 DEF ForceFixed, Typed
  <2> QED BY <1>8, <2>1, CallChanges DEF ForceFixed, Typed, seen
<1>9. CASE Validate(c) BY <1>9, CallChanges DEF Validate, Typed, seen
<1>10. CASE Validated(c)
  <2>1. depth' \in Nat BY <1>10 DEF Validated, Typed
  <2> QED BY <1>10, <2>1, CallChanges DEF Validated, Typed, seen
<1>11. CASE Record(c) BY <1>11, CallChanges DEF Record, Typed, seen
<1>12. ASSUME CountEdit PROVE used' \in Uses
  <2>1. used \in Uses /\ used.edits \in Nat BY DEF Typed, Uses
  <2> QED BY <1>12, <2>1 DEF CountEdit, Uses
<1>13. CASE InsertStep(c)
  <2>1. steps' \in Seq(Nat) BY <1>13, InsertedTyped DEF InsertStep, Typed
  <2> QED BY <1>12, <1>13, <2>1, CallChanges DEF InsertStep, Typed, seen, Uses
<1>14. CASE DeleteStep(c)
  <2>1. steps' \in Seq(Nat) BY <1>14, KeepRange DEF DeleteStep, Typed
  <2>2. task' \in [Tasks -> Runs] BY <1>14, DeletedTasks
  <2> QED BY <1>12, <1>14, <2>1, <2>2, CallChanges DEF DeleteStep, Typed, seen, Uses
<1> QED BY <1>1, <1>2, <1>3, <1>4, <1>5, <1>6, <1>7, <1>8, <1>9, <1>10, <1>11, <1>13, <1>14 DEF Handle

LEMMA TypedInit == Init => Typed
<1> SUFFICES ASSUME Init PROVE Typed OBVIOUS
<1>1. steps = [i \in 1..N |-> i] BY DEF Init
<1>2. steps \in Seq(Nat) BY <1>1, Bounds
<1>3. task \in [Tasks -> Runs] BY FreeIsRun DEF Init
<1>4. Idle \in Calls BY Bounds DEF Idle, Calls, Kinds
<1>5. ran \in Seq(Nat) /\ first \in Nat /\ lost \in Nat BY DEF Init
<1> QED BY <1>2, <1>3, <1>4, <1>5, Bounds DEF Init, Typed

LEMMA TypedStays == Typed /\ [Next]_vars => Typed'
<1> SUFFICES ASSUME Typed, [Next]_vars PROVE Typed' OBVIOUS
<1>1. ASSUME NEW t \in Tasks, TaskStep(t) PROVE Typed' BY <1>1, TaskStepTyped
<1>2. ASSUME NEW c \in Clients, Click(c) PROVE Typed'
  <2>1. used' \in Uses BY <1>2, Clicked, UseCounted
  <2> QED BY <1>2, <2>1, Clicked DEF Typed, seen, Uses
<1>3. ASSUME NEW c \in Clients, Reload(c) PROVE Typed'
  <2>1. used' \in Uses
    <3>1. used \in Uses /\ used.loads \in Nat BY DEF Typed, Uses
    <3> QED BY <1>3, <3>1 DEF Reload, Uses
  <2>2. mode' \in [Clients -> {"edit", "replaying", "failed"}] BY <1>3 DEF Reload, Typed
  <2> QED BY <1>3, <2>1, <2>2 DEF Reload, Typed, serverVars, seen, Uses
<1>4. ASSUME NEW c \in Clients, Handle(c) PROVE Typed' BY <1>4, HandleTyped
<1>5. CASE UNCHANGED vars BY <1>5 DEF vars, serverVars, seen, Typed
<1> QED BY <1>1, <1>2, <1>3, <1>4, <1>5 DEF Next

-----------------------------------------------------------------------------
(* One replay. *)

LEMMA OneReplayStays == Typed /\ OneReplay /\ [Next]_vars => OneReplay'
<1> SUFFICES ASSUME Typed, OneReplay, [Next]_vars PROVE OneReplay' OBVIOUS
<1>1. ASSUME UNCHANGED <<task, replayTask>> PROVE OneReplay' BY <1>1 DEF OneReplay
<1>2. ASSUME NEW t \in Tasks, NEW r, Moves(t, r), task[t].pc # "free", replayTask' = replayTask PROVE OneReplay'
  <2>1. task'[t].cancelled = task[t].cancelled /\ \A u \in Tasks : u # t => task'[u] = task[u]
      BY <1>2, Moved DEF Moves
  <2> QED BY <1>2, <2>1 DEF OneReplay
<1>3. ASSUME NEW t \in Tasks, Gone(t) PROVE OneReplay'
  <2>1. task'[t].pc = "free" /\ \A u \in Tasks : u # t => task'[u] = task[u]
      BY <1>3, GoneTyped DEF Free
  <2> QED BY <1>3, <2>1, GoneMoves DEF OneReplay
<1>4. ASSUME NEW t \in Tasks, Release(t), task[t].pc # "free" PROVE OneReplay'
    BY <1>2, <1>3, <1>4, ReleaseMoves
<1>5. ASSUME NEW t \in Tasks, NEW i \in Nat, i > 0, LoopHead(t, i), task[t].pc # "free", replayTask' = replayTask
      PROVE  OneReplay'
    BY <1>2, <1>5, LoopHeadMoves DEF Heads
<1>6. ASSUME NEW s \in Nat, StartReplay(s) PROVE OneReplay'
  <2>1. PICK t \in Tasks : replayTask' = t /\ \A u \in Tasks : u # t => task'[u] = Cancelled[u]
      BY <1>6, StartReplayMoves
  <2>2. ASSUME NEW u \in Tasks, u # t, task'[u].pc # "free" PROVE task'[u].cancelled
    <3>1. task[u].pc # "free" /\ (task'[u].cancelled <=> (task[u].cancelled \/ u = replayTask))
        BY <2>1, <2>2, CancelledTyped
    <3> QED BY <3>1 DEF OneReplay
  <2> QED BY <2>1, <2>2 DEF OneReplay
<1>7. ASSUME NEW t \in Tasks, TaskStep(t) PROVE OneReplay'
  <2>0. /\ FirstIndex(View(t), task[t].start) \in Nat /\ FirstIndex(View(t), task[t].start) > 0
        /\ task[t].at + 1 \in Nat /\ task[t].at + 1 > 0
      BY ViewTyped, FirstIndexTyped, RunFields DEF Typed
  <2>1. CASE Suspend(t)
    <3>1. CASE PlacedAt(t, "suspending")
      <4>1. \E r : Moves(t, r) BY <3>1, TaskMoves DEF Stages
      <4> QED BY <1>2, <2>1, <4>1 DEF Suspend
    <3> QED BY <1>5, <2>0, <2>1, <3>1 DEF Suspend, PlacedAt
  <2>2. CASE Suspended(t) BY <1>5, <2>0, <2>2 DEF Suspended
  <2>3. CASE Pass(t) BY <1>5, <2>0, <2>3 DEF Pass
  <2>4. CASE Fail(t)
    <3>1. PlacedAt(t, "announcing") BY <2>4 DEF Fail, PlacedAt
    <3>2. \E r : Moves(t, r) BY <3>1, TaskMoves DEF Stages
    <3> QED BY <1>2, <2>4, <3>2 DEF Fail
  <2>5. CASE Announce(t) \/ Complete(t) BY <1>4, <2>5 DEF Announce, Complete
  <2>6. CASE Restored(t) BY <1>3, <2>6 DEF Restored
  <2>7. CASE Unwind(t) BY <1>3, <1>4, <2>7 DEF Unwind
  <2> QED BY <1>7, <2>1, <2>2, <2>3, <2>4, <2>5, <2>6, <2>7 DEF TaskStep
<1>8. ASSUME NEW c \in Clients, Click(c) \/ Reload(c) PROVE OneReplay'
    BY <1>1, <1>8 DEF Click, Reload, serverVars
<1>9. ASSUME NEW c \in Clients, Handle(c) PROVE OneReplay'
  <2>1. CASE Replay(c) BY <1>6, <2>1, Bounds DEF Replay
  <2>2. CASE Resume(c) BY <1>6, <2>2, ResumePointTyped DEF Resume
  <2>3. CASE Stop(c)
    <3>1. task' = Cancelled /\ replayTask' = replayTask BY <2>3 DEF Stop
    <3> QED BY <3>1, CancelledTyped DEF OneReplay
  <2>4. CASE DeleteStep(c)
    <3>1. replayTask' = replayTask BY <2>4 DEF DeleteStep
    <3> QED BY <2>4, <3>1, DeletedTasks DEF OneReplay
  <2> QED BY <1>1, <1>9, <2>1, <2>2, <2>3, <2>4 DEF Handle, SaveBeforeReplay, PauseRequest, ApplyOverride,
             ForceFix, ForceFixed, Validate, Validated, Record, InsertStep, serverVars
<1>10. CASE UNCHANGED vars BY <1>1, <1>10 DEF vars, serverVars
<1> QED BY <1>7, <1>8, <1>9, <1>10 DEF Next

\* The panel server's state stays of its types: the step list, the replay tasks, the handler of
\* each panel between two awaits, what each page shows (_PanelState.__init__, _on_message).
THEOREM PanelTyped == Spec => []Typed
BY TypedInit, TypedStays, PTL DEF Spec

\* Of the tasks handle_replay and handle_resume create, at most one still drives the browser: both
\* cancel the tracked task before they start another; a cancelled task only unwinds.
THEOREM OneReplayRuns == Spec => []OneReplay
<1>1. Init => OneReplay BY DEF Init, OneReplay, Free
<1> QED BY <1>1, TypedInit, TypedStays, OneReplayStays, PTL DEF Spec

LEMMA SetChange ==
    ASSUME NEW S, NEW T, NEW x, IsFiniteSet(S), \A y : y # x => (y \in S <=> y \in T)
    PROVE  /\ Cardinality(S) \in Nat /\ Cardinality(T) \in Nat /\ IsFiniteSet(T)
           /\ (x \in S <=> x \in T) => Cardinality(T) = Cardinality(S)
           /\ x \notin S /\ x \in T => Cardinality(T) = Cardinality(S) + 1
           /\ x \in S /\ x \notin T => Cardinality(T) = Cardinality(S) - 1 /\ Cardinality(S) > 0
<1>1. CASE x \in S <=> x \in T
  <2>1. S = T BY <1>1
  <2> QED BY <1>1, <2>1, FS_CardinalityType
<1>2. CASE x \notin S /\ x \in T
  <2>1. T = S \cup {x} BY <1>2
  <2> QED BY <1>2, <2>1, FS_AddElement, FS_CardinalityType
<1>3. CASE x \in S /\ x \notin T
  <2>1. T = S \ {x} /\ S # {} BY <1>3
  <2>2. IsFiniteSet(T) /\ Cardinality(T) = Cardinality(S) - 1 BY <1>3, <2>1, FS_RemoveElement
  <2>3. Cardinality(S) \in Nat /\ Cardinality(T) \in Nat BY <2>2, FS_CardinalityType
  <2> QED BY <1>3, <2>2, <2>3
<1> QED BY <1>1, <1>2, <1>3

LEMMA LevelsFinite ==
    /\ IsFiniteSet(Suspenders) /\ IsFiniteSet(Validating)
    /\ Cardinality(Suspenders) \in Nat /\ Cardinality(Validating) \in Nat
<1>1. IsFiniteSet(Suspenders) BY Bounds, FS_Subset DEF Suspenders
<1>2. IsFiniteSet(Validating) BY Bounds, FS_Subset DEF Validating
<1> QED BY <1>1, <1>2, FS_CardinalityType

\* How many levels a step of a task adds.
LEMMA SuspendersChange ==
    ASSUME NEW t \in Tasks, \A u \in Tasks : u # t => task'[u] = task[u]
    PROVE  /\ (task[t].pc \in Inside <=> task'[t].pc \in Inside)
                  => Cardinality(Suspenders') = Cardinality(Suspenders)
           /\ task[t].pc \notin Inside /\ task'[t].pc \in Inside
                  => Cardinality(Suspenders') = Cardinality(Suspenders) + 1
           /\ task[t].pc \in Inside /\ task'[t].pc \notin Inside
                  => Cardinality(Suspenders') = Cardinality(Suspenders) - 1 /\ Cardinality(Suspenders) > 0
<1>1. \A y : y # t => (y \in Suspenders <=> y \in Suspenders') BY DEF Suspenders
<1>2. (t \in Suspenders <=> task[t].pc \in Inside) /\ (t \in Suspenders' <=> task'[t].pc \in Inside)
    BY DEF Suspenders
<1>3. IsFiniteSet(Suspenders) BY LevelsFinite
<1> QED BY <1>1, <1>2, <1>3, SetChange

LEMMA ValidatingChange ==
    ASSUME NEW c \in Clients, \A d \in Clients : d # c => call'[d] = call[d]
    PROVE  /\ (Awaiting(c, "validate") <=> Awaiting(c, "validate")')
                  => Cardinality(Validating') = Cardinality(Validating)
           /\ ~Awaiting(c, "validate") /\ Awaiting(c, "validate")'
                  => Cardinality(Validating') = Cardinality(Validating) + 1
           /\ Awaiting(c, "validate") /\ ~Awaiting(c, "validate")'
                  => Cardinality(Validating') = Cardinality(Validating) - 1 /\ Cardinality(Validating) > 0
<1>1. \A y : y # c => (y \in Validating <=> y \in Validating') BY DEF Validating, Awaiting
<1>2. (c \in Validating <=> Awaiting(c, "validate")) /\ (c \in Validating' <=> Awaiting(c, "validate")')
    BY DEF Validating
<1>3. IsFiniteSet(Validating) BY LevelsFinite
<1> QED BY <1>1, <1>2, <1>3, SetChange

\* A step of a task keeps the count.
LEMMA TaskCounted ==
    ASSUME Typed, Counted, NEW t \in Tasks, TaskStep(t)
    PROVE  Counted'
<1> DEFINE S == Cardinality(Suspenders)
           V == Cardinality(Validating)
<1>0. /\ S \in Nat /\ V \in Nat /\ depth \in Nat /\ lost \in Nat /\ (depth = S + V + lost)
      /\ Unrecorded /\ (used.records = 0 => lost = 0)
    BY LevelsFinite DEF Counted, Levels, Typed, Unrecorded
<1>1. /\ UNCHANGED <<recording, call, used>>
    BY DEF TaskStep, Suspend, Suspended, Pass, Fail, Announce, Complete, Restored, Unwind
<1>2. Validating' = Validating BY <1>1 DEF Validating, Awaiting
<1>3. ASSUME NEW s \in Nat, s = Cardinality(Suspenders'), depth' = s + V + lost',
             used.records = 0 => lost' = 0 /\ \A u \in Tasks : task'[u].pc # "suspending"
      PROVE  Counted'
    BY <1>0, <1>1, <1>2, <1>3 DEF Counted, Levels, Unrecorded
<1>4. ASSUME \A u \in Tasks : u # t => task'[u] = task[u],
             task[t].pc \in Inside <=> task'[t].pc \in Inside, depth' = depth, lost' = lost,
             used.records = 0 => task'[t].pc # "suspending"
      PROVE  Counted'
  <2>1. Cardinality(Suspenders') = S BY <1>4, SuspendersChange
  <2>2. used.records = 0 => \A u \in Tasks : task'[u].pc # "suspending" BY <1>0, <1>4 DEF Unrecorded
  <2> HIDE DEF S, V
  <2> QED BY <1>0, <1>3, <1>4, <2>1, <2>2
<1>5. ASSUME \A u \in Tasks : u # t => task'[u] = task[u],
             task[t].pc \notin Inside, task'[t].pc \in Inside, depth' = depth + 1, lost' = lost,
             used.records = 0 => task'[t].pc # "suspending"
      PROVE  Counted'
  <2>1. Cardinality(Suspenders') = S + 1 BY <1>5, SuspendersChange
  <2>2. used.records = 0 => \A u \in Tasks : task'[u].pc # "suspending" BY <1>0, <1>5 DEF Unrecorded
  <2> HIDE DEF S, V
  <2> QED BY <1>0, <1>3, <1>5, <2>1, <2>2
<1>6. ASSUME \A u \in Tasks : u # t => task'[u] = task[u],
             task[t].pc \in Inside, task'[t].pc \notin Inside,
             depth' = IF depth > 0 THEN depth - 1 ELSE 0, lost' = lost
      PROVE  Counted'
  <2>1. Cardinality(Suspenders') = S - 1 /\ S > 0 BY <1>6, SuspendersChange
  <2>2. task'[t].pc # "suspending" BY <1>6 DEF Inside
  <2>3. used.records = 0 => \A u \in Tasks : task'[u].pc # "suspending" BY <1>0, <1>6, <2>2 DEF Unrecorded
  <2> HIDE DEF S, V
  <2>4. S - 1 \in Nat /\ depth' = (S - 1) + V + lost' BY <1>0, <1>6, <2>1
  <2> QED BY <1>0, <1>3, <1>6, <2>1, <2>3, <2>4
<1>7. ASSUME \A u \in Tasks : u # t => task'[u] = task[u],
             task[t].pc = "suspending", task'[t].pc \notin Inside, depth' = depth, lost' = lost + 1
      PROVE  Counted'
  <2>1. Cardinality(Suspenders') = S - 1 /\ S > 0 BY <1>7, SuspendersChange DEF Inside
  <2>2. used.records # 0 BY <1>0, <1>7 DEF Unrecorded
  <2> HIDE DEF S, V
  <2>3. S - 1 \in Nat /\ depth' = (S - 1) + V + lost' BY <1>0, <1>7, <2>1
  <2> QED BY <1>0, <1>3, <2>1, <2>2, <2>3
<1>8. ASSUME NEW i \in Nat, i > 0, LoopHead(t, i)
      PROVE  /\ \A u \in Tasks : u # t => task'[u] = task[u]
             /\ task'[t].pc \in Inside /\ task'[t].pc # "suspending"
  <2>1. PICK r : Heads(t, i, r) BY <1>8, LoopHeadMoves
  <2>2. r.pc \in {"completing", "acting", "announcing"} BY <2>1 DEF Heads
  <2>3. task'[t] = r /\ \A u \in Tasks : u # t => task'[u] = task[u] BY <2>1, Moved DEF Heads
  <2> QED BY <2>2, <2>3 DEF Inside
<1>9. ASSUME Release(t)
      PROVE  /\ \A u \in Tasks : u # t => task'[u] = task[u]
             /\ task'[t].pc \notin Inside /\ depth' = IF depth > 0 THEN depth - 1 ELSE 0
  <2>1. CASE Gone(t)
    <3>1. task'[t] = Free /\ \A u \in Tasks : u # t => task'[u] = task[u] BY <2>1, GoneTyped
    <3> QED BY <1>9, <3>1, ReleaseMoves DEF Free, Inside
  <2>2. ASSUME NEW r, Moves(t, r), r.pc = "restoring"
        PROVE  /\ \A u \in Tasks : u # t => task'[u] = task[u]
               /\ task'[t].pc \notin Inside
    <3>1. task'[t] = r /\ \A u \in Tasks : u # t => task'[u] = task[u] BY <2>2, Moved
    <3> QED BY <2>2, <3>1 DEF Inside
  <2> QED BY <1>9, <2>1, <2>2, ReleaseMoves
<1>i. /\ FirstIndex(View(t), task[t].start) \in Nat /\ FirstIndex(View(t), task[t].start) > 0
      /\ task[t].at + 1 \in Nat /\ task[t].at + 1 > 0
    BY ViewTyped, FirstIndexTyped, RunFields DEF Typed
<1>10. CASE Suspend(t)
  <2>1. task[t].pc \notin Inside /\ depth' = depth + 1 /\ lost' = lost BY <1>10 DEF Suspend, Inside, seen
  <2>2. CASE PlacedAt(t, "suspending") /\ recording
    <3>1. "suspending" \in Stages BY DEF Stages
    <3>2. PICK r : Moves(t, r) /\ r.pc = "suspending" BY <2>2, <3>1, TaskMoves
    <3>3. task'[t] = r /\ \A u \in Tasks : u # t => task'[u] = task[u] BY <3>2, Moved
    <3>4. used.records # 0 BY <1>0, <2>2 DEF Unrecorded
    <3>5. task'[t].pc \in Inside BY <3>2, <3>3 DEF Inside
    <3> QED BY <1>5, <2>1, <3>3, <3>4, <3>5
  <2>3. CASE LoopHead(t, FirstIndex(View(t), task[t].start))
    <3>1. /\ \A u \in Tasks : u # t => task'[u] = task[u]
          /\ task'[t].pc \in Inside /\ task'[t].pc # "suspending"
        BY <1>8, <1>i, <2>3
    <3> QED BY <1>5, <2>1, <3>1
  <2> QED BY <1>10, <2>2, <2>3 DEF Suspend, PlacedAt
<1>11. CASE Suspended(t)
  <2>1. task[t].pc \in Inside /\ depth' = depth /\ lost' = lost BY <1>11 DEF Suspended, Inside, seen
  <2>2. /\ \A u \in Tasks : u # t => task'[u] = task[u]
        /\ task'[t].pc \in Inside /\ task'[t].pc # "suspending"
      BY <1>8, <1>i, <1>11 DEF Suspended
  <2> QED BY <1>4, <2>1, <2>2
<1>12. CASE Pass(t)
  <2>1. task[t].pc \in Inside /\ depth' = depth /\ lost' = lost BY <1>12 DEF Pass, Inside
  <2>2. /\ \A u \in Tasks : u # t => task'[u] = task[u]
        /\ task'[t].pc \in Inside /\ task'[t].pc # "suspending"
      BY <1>8, <1>i, <1>12 DEF Pass
  <2> QED BY <1>4, <2>1, <2>2
<1>13. CASE Fail(t)
  <2>1. PlacedAt(t, "announcing") /\ "announcing" \in Stages BY <1>13 DEF Fail, PlacedAt, Stages
  <2>2. PICK r : Moves(t, r) /\ r.pc = "announcing" BY <2>1, TaskMoves
  <2>3. task'[t] = r /\ \A u \in Tasks : u # t => task'[u] = task[u] BY <2>2, Moved
  <2>4. task[t].pc \in Inside /\ task'[t].pc \in Inside /\ depth' = depth /\ lost' = lost
      BY <1>13, <2>2, <2>3 DEF Fail, Inside, seen
  <2> QED BY <1>4, <2>2, <2>3, <2>4
<1>14. ASSUME Release(t), task[t].pc \in Inside, lost' = lost PROVE Counted' BY <1>6, <1>9, <1>14
<1>15. CASE Announce(t) \/ Complete(t) BY <1>14, <1>15 DEF Announce, Complete, Inside, seen
<1>16. ASSUME Gone(t), depth' = depth, task[t].pc \in {"restoring", "created", "suspending"},
              lost' = lost + IF task[t].pc = "suspending" THEN 1 ELSE 0
       PROVE  Counted'
  <2>1. task'[t].pc \notin Inside /\ task'[t].pc # "suspending" /\ \A u \in Tasks : u # t => task'[u] = task[u]
      BY <1>16, GoneTyped DEF Free, Inside
  <2>2. CASE task[t].pc = "suspending" BY <1>7, <1>16, <2>1, <2>2
  <2>3. CASE task[t].pc # "suspending"
    <3>1. task[t].pc \notin Inside BY <1>16, <2>3 DEF Inside
    <3>2. lost' = lost BY <1>0, <1>16, <2>3
    <3> QED BY <1>4, <1>16, <2>1, <3>1, <3>2
  <2> QED BY <2>2, <2>3
<1>17. CASE Restored(t)
  <2>1. lost' = lost + 0 /\ task[t].pc = "restoring" BY <1>0, <1>17 DEF Restored, seen
  <2> QED BY <1>16, <1>17, <2>1 DEF Restored
<1>18. CASE Unwind(t)
  <2>1. CASE /\ task[t].pc \in {"created", "suspending"} /\ Gone(t) /\ UNCHANGED depth
             /\ lost' = lost + IF task[t].pc = "suspending" THEN 1 ELSE 0
      BY <1>16, <2>1
  <2>2. CASE task[t].pc \in {"acting", "announcing", "completing"} /\ Release(t) /\ UNCHANGED lost
      BY <1>14, <2>2 DEF Inside
  <2> QED BY <1>18, <2>1, <2>2 DEF Unwind
<1> QED BY <1>10, <1>11, <1>12, <1>13, <1>15, <1>17, <1>18 DEF TaskStep

\* A click or a handler changes the place of no task but a free one.
LEMMA CallCounted ==
    ASSUME Typed, Counted, NEW c \in Clients, Click(c) \/ Handle(c)
    PROVE  Counted'
<1> DEFINE S == Cardinality(Suspenders)
           V == Cardinality(Validating)
<1>0. /\ S \in Nat /\ V \in Nat /\ depth \in Nat /\ lost \in Nat /\ (depth = S + V + lost)
      /\ Unrecorded /\ (used.records = 0 => lost = 0)
    BY LevelsFinite DEF Counted, Levels, Typed, Unrecorded
<1>1. ASSUME \A t \in Tasks : task'[t].pc = task[t].pc \/ (task[t].pc = "free" /\ task'[t].pc = "created")
      PROVE  Suspenders' = Suspenders /\ (Unrecorded => (used.records = 0 => \A t \in Tasks : task'[t].pc # "suspending"))
    BY <1>1 DEF Suspenders, Inside, Unrecorded
<1>2. ASSUME \A t \in Tasks : task'[t].pc = task[t].pc \/ (task[t].pc = "free" /\ task'[t].pc = "created"),
             Validating' = Validating, depth' = depth, lost' = lost,
             used'.records = 0 => used.records = 0 /\ (Unrecorded => ~recording' /\ \A d \in Clients : call'[d].kind # "record")
      PROVE  Counted'
    BY <1>0, <1>1, <1>2 DEF Counted, Levels, Unrecorded
<1>3. ASSUME Return(c), call[c].kind # "validate" PROVE Validating' = Validating
  <2>1. call'[c] = Idle /\ \A d \in Clients : d # c => call'[d] = call[d] BY <1>3, CallChanges
  <2> QED BY <1>3, <2>1 DEF Validating, Awaiting, Idle
<1>4. ASSUME Await(c), call[c].kind # "validate" PROVE Validating' = Validating
  <2>1. call'[c].kind = call[c].kind /\ \A d \in Clients : d # c => call'[d] = call[d] BY <1>4, CallChanges
  <2> QED BY <1>4, <2>1 DEF Validating, Awaiting
<1>5. ASSUME Return(c) \/ Await(c) PROVE \A d \in Clients : call'[d].kind \in {call[d].kind, "none"}
    BY <1>5, CallChanges DEF Idle
<1>6. CASE Click(c)
  <2>1. PICK kind \in Kinds : \E s \in Nat : CountClick(kind) /\ call'[c] = [kind |-> kind, stage |-> "sent", step |-> s]
      BY <1>6, Clicked
  <2>2. PICK s \in Nat : CountClick(kind) /\ call'[c] = [kind |-> kind, stage |-> "sent", step |-> s] BY <2>1
  <2>3. /\ UNCHANGED <<task, depth, recording, lost>> /\ call[c] = Idle
        /\ \A d \in Clients : d # c => call'[d] = call[d]
      BY <1>6, Clicked DEF seen
  <2>4. used'.records = used.records + (IF kind = "record" THEN 1 ELSE 0) /\ used.records \in Nat
      BY <2>2, UseCounted DEF Typed
  <2>5. Validating' = Validating BY <2>2, <2>3 DEF Validating, Awaiting, Idle
  <2>6. used'.records = 0 => used.records = 0 /\ kind # "record" BY <2>4
  <2>7. call'[c].kind = kind BY <2>2
  <2> QED BY <1>2, <2>3, <2>5, <2>6, <2>7 DEF Unrecorded
<1>7. ASSUME NEW s \in Nat, StartReplay(s)
      PROVE  \A t \in Tasks : task'[t].pc = task[t].pc \/ (task[t].pc = "free" /\ task'[t].pc = "created")
  <2>1. PICK t \in Tasks : /\ task[t] = Free /\ task'[t].pc = "created"
                           /\ \A u \in Tasks : u # t => task'[u] = Cancelled[u]
      BY <1>7, StartReplayMoves
  <2> QED BY <2>1, CancelledTyped DEF Free
<1>8. ASSUME Return(c) \/ Await(c), UNCHANGED <<used, depth, lost>>, call[c].kind # "validate",
             \A t \in Tasks : task'[t].pc = task[t].pc \/ (task[t].pc = "free" /\ task'[t].pc = "created"),
             recording' = recording \/ recording' = FALSE
      PROVE  Counted'
  <2>1. Validating' = Validating BY <1>3, <1>4, <1>8
  <2>2. Unrecorded /\ used.records = 0 => ~recording' /\ \A d \in Clients : call'[d].kind # "record"
      BY <1>5, <1>8 DEF Unrecorded
  <2> QED BY <1>2, <1>8, <2>1, <2>2
<1>9. CASE SaveBeforeReplay(c) BY <1>8, <1>9 DEF SaveBeforeReplay, Dispatched, seen
<1>10. CASE Replay(c)
  <2>1. \A t \in Tasks : task'[t].pc = task[t].pc \/ (task[t].pc = "free" /\ task'[t].pc = "created")
      BY <1>7, <1>10, Bounds DEF Replay
  <2> QED BY <1>8, <1>10, <2>1 DEF Replay, Dispatched, Awaiting
<1>11. CASE Resume(c)
  <2>1. \A t \in Tasks : task'[t].pc = task[t].pc \/ (task[t].pc = "free" /\ task'[t].pc = "created")
      BY <1>7, <1>11, ResumePointTyped DEF Resume
  <2> QED BY <1>8, <1>11, <2>1 DEF Resume, Dispatched, Awaiting
<1>12. CASE Stop(c)
  <2>1. \A t \in Tasks : task'[t].pc = task[t].pc BY <1>12, CancelledTyped DEF Stop
  <2> QED BY <1>8, <1>12, <2>1 DEF Stop, Dispatched, seen
<1>13. CASE PauseRequest(c) \/ ApplyOverride(c) \/ ForceFix(c) \/ ForceFixed(c)
    BY <1>8, <1>13 DEF PauseRequest, ApplyOverride, ForceFix, ForceFixed, Dispatched, Awaiting, serverVars, seen
<1>14. CASE Record(c)
  <2>1. used.records # 0 BY <1>0, <1>14 DEF Unrecorded, Record, Dispatched
  <2>2. Validating' = Validating BY <1>3, <1>14 DEF Record, Dispatched
  <2> QED BY <1>2, <1>14, <2>1, <2>2 DEF Record, seen
<1>15. ASSUME CountEdit PROVE used'.records = used.records
    BY <1>15 DEF CountEdit, Typed
<1>16. CASE InsertStep(c) \/ DeleteStep(c)
  <2>1. \A t \in Tasks : task'[t].pc = task[t].pc BY <1>16, DeletedTasks DEF InsertStep
  <2>2. Validating' = Validating BY <1>3, <1>16 DEF InsertStep, DeleteStep, Dispatched
  <2>3. /\ used'.records = used.records /\ UNCHANGED <<depth, recording, lost>>
        /\ \A d \in Clients : call'[d].kind \in {call[d].kind, "none"}
      BY <1>5, <1>15, <1>16 DEF InsertStep, DeleteStep, seen
  <2> QED BY <1>2, <2>1, <2>2, <2>3 DEF Unrecorded
<1>17. ASSUME UNCHANGED <<task, used, recording, lost>>, Return(c) \/ Await(c),
              NEW v \in Nat, v = Cardinality(Validating'), depth' = S + v + lost
       PROVE  Counted'
  <2>1. Suspenders' = Suspenders BY <1>17 DEF Suspenders
  <2>2. Unrecorded => Unrecorded' BY <1>5, <1>17 DEF Unrecorded
  <2> QED BY <1>0, <1>17, <2>1, <2>2 DEF Counted, Levels, Unrecorded
<1>18. CASE Validate(c)
  <2>1. /\ call'[c].stage = "awaiting" /\ call'[c].kind = "validate" /\ call[c].stage = "sent"
        /\ \A d \in Clients : d # c => call'[d] = call[d]
      BY <1>18, CallChanges DEF Validate, Dispatched
  <2>2. Cardinality(Validating') = V + 1 BY <2>1, ValidatingChange DEF Awaiting
  <2>3. depth' = depth + 1 /\ Await(c) /\ UNCHANGED <<task, used, recording, lost>> BY <1>18 DEF Validate, seen
  <2> HIDE DEF S, V
  <2>4. V + 1 \in Nat /\ depth' = S + (V + 1) + lost BY <1>0, <2>3
  <2> QED BY <1>17, <2>2, <2>3, <2>4
<1>19. CASE Validated(c)
  <2>1. /\ call'[c] = Idle /\ call[c].kind = "validate" /\ call[c].stage = "awaiting"
        /\ \A d \in Clients : d # c => call'[d] = call[d]
      BY <1>19, CallChanges DEF Validated, Awaiting
  <2>2. Cardinality(Validating') = V - 1 /\ V > 0 BY <2>1, ValidatingChange DEF Awaiting, Idle
  <2>3. depth' = (IF depth > 0 THEN depth - 1 ELSE 0) /\ Return(c) /\ UNCHANGED <<task, used, recording, lost>>
      BY <1>19 DEF Validated, seen
  <2> HIDE DEF S, V
  <2>4. V - 1 \in Nat /\ depth' = S + (V - 1) + lost BY <1>0, <2>2, <2>3
  <2> QED BY <1>17, <2>2, <2>3, <2>4
<1> QED BY <1>6, <1>9, <1>10, <1>11, <1>12, <1>13, <1>14, <1>16, <1>18, <1>19 DEF Handle

LEMMA CountedStays == Typed /\ Counted /\ [Next]_vars => Counted'
<1> SUFFICES ASSUME Typed, Counted, [Next]_vars PROVE Counted' OBVIOUS
<1>1. ASSUME UNCHANGED <<task, call, depth, recording, lost>>, used'.records = used.records PROVE Counted'
    BY <1>1 DEF Counted, Levels, Suspenders, Validating, Awaiting, Unrecorded
<1>2. ASSUME NEW c \in Clients, Reload(c) PROVE Counted'
  <2>1. used'.records = used.records BY <1>2 DEF Reload, Typed
  <2> QED BY <1>1, <1>2, <2>1 DEF Reload, serverVars, seen
<1>3. CASE UNCHANGED vars BY <1>1, <1>3 DEF vars, serverVars, seen
<1> QED BY <1>2, <1>3, TaskCounted, CallCounted DEF Next

LEMMA CountedInit == Init => Counted
<1> SUFFICES ASSUME Init PROVE Counted OBVIOUS
<1>1. /\ depth = 0 /\ lost = 0 /\ ~recording /\ (\A c \in Clients : call[c].kind = "none")
      /\ \A t \in Tasks : task[t].pc = "free"
    BY DEF Init, Idle, Free
<1>2. Suspenders = {} /\ Validating = {} BY <1>1 DEF Suspenders, Validating, Awaiting, Inside
<1>3. Cardinality(Suspenders) = 0 /\ Cardinality(Validating) = 0 BY <1>2, FS_EmptySet
<1> QED BY <1>1, <1>3 DEF Counted, Levels, Unrecorded

LEMMA ActingIsCounted == Typed /\ Counted => AgentIsNotRecorded
<1> SUFFICES ASSUME Typed, Counted,
                    (\E t \in Tasks : task[t].pc = "acting") \/ \E c \in Clients : Awaiting(c, "validate")
             PROVE  depth > 0
    BY DEF AgentIsNotRecorded
<1>1. Suspenders # {} \/ Validating # {} BY DEF Suspenders, Validating, Inside
<1>2. Cardinality(Suspenders) # 0 \/ Cardinality(Validating) # 0 BY <1>1, LevelsFinite, FS_EmptySet
<1> QED BY <1>2, LevelsFinite DEF Counted, Levels, Typed

LEMMA NobodyIsCounted == Typed /\ Counted => CaptureComesBack
<1> SUFFICES ASSUME Typed, Counted, \A t \in Tasks : task[t].pc \in {"free", "created"},
                    \A c \in Clients : ~Awaiting(c, "validate")
             PROVE  depth = lost /\ (used.records = 0 => lost = 0)
    BY DEF CaptureComesBack
<1>1. Suspenders = {} /\ Validating = {} BY DEF Suspenders, Validating, Inside
<1>2. Cardinality(Suspenders) = 0 /\ Cardinality(Validating) = 0 BY <1>1, FS_EmptySet
<1> QED BY <1>2 DEF Counted, Levels, Typed, Unrecorded

\* While a replay task acts on the page or a handler validates a locator, the recorder's capturing
\* is suspended, whatever other handlers do (_suspend_auto_capture, _resume_auto_capture).
THEOREM CaptureIsSuspended == Spec => []AgentIsNotRecorded
BY TypedInit, TypedStays, CountedInit, CountedStays, ActingIsCounted, PTL DEF Spec

\* Whenever no task and no handler is inside a suspended section, every level of suspension has been
\* given back but one for each replay that was cancelled between taking its level and the try block
\* of _run_replay, while it disarmed the page; as long as nobody records there is none of those.
THEOREM CaptureIsBack == Spec => []CaptureComesBack
BY TypedInit, TypedStays, CountedInit, CountedStays, NobodyIsCounted, PTL DEF Spec

LEMMA Ordered ==
    ASSUME InPlace
    PROVE  /\ steps \in Seq(Nat) /\ Len(steps) = N /\ DOMAIN steps = 1..N
           /\ \A i \in 1..N : steps[i] = i
BY Bounds DEF InPlace

LEMMA PlaceUnchanged ==
    ASSUME UNCHANGED <<steps, task, pausedStep, failingStep, first, ran>>
    PROVE  /\ InPlace => InPlace' /\ (StoppedAt' <=> StoppedAt)
           /\ \A t \in Tasks : (Live(t)' <=> Live(t)) /\ (RunInPlace(t) => RunInPlace(t)')
BY DEF InPlace, Reached, StepsPassInOrder, Live, RunInPlace, StoppedAt

LEMMA CallUnchanged ==
    ASSUME UNCHANGED call, NEW c \in Clients, CallInPlace(c)
    PROVE  CallInPlace(c)'
BY DEF CallInPlace, Awaiting

\* The loop comes to step i when all before it passed.
LEMMA HeadInPlace ==
    ASSUME Typed, OneReplay, InPlace, NEW t \in Tasks, Live(t), task[t].live, ~StoppedAt,
           NEW i \in 1..(N + 1), LoopHead(t, i), first' \in 1..N, ran' \in Seq(Nat), first' + Len(ran') = i,
           StepsPassInOrder', UNCHANGED <<steps, failingStep>>
    PROVE  /\ InPlace' /\ \A u \in Tasks : Live(u)' => u = t /\ RunInPlace(u)'
<1>0. i \in Nat /\ i > 0 /\ N \in Nat BY Bounds
<1>1. PICK r : Heads(t, i, r) BY <1>0, LoopHeadMoves
<1>2. r \in Runs /\ task'[t] = r /\ r.live /\ \A u \in Tasks : u # t => task'[u] = task[u]
    BY <1>1, Moved DEF Heads, Moves
<1>3. \A u \in Tasks : Live(u)' => u = t
    BY <1>2 DEF Live, OneReplay
<1>4. View(t) = steps /\ Len(steps) = N /\ \A j \in 1..N : steps[j] = j
    BY Ordered DEF View
<1>5. failingStep = NoStep /\ pausedStep = NoStep /\ failingStep' = NoStep BY DEF StoppedAt
<1>6. CASE i > N
  <2>1. r.pc = "completing" /\ pausedStep' = pausedStep BY <1>0, <1>1, <1>4, <1>6 DEF Heads
  <2>2. first' + Len(ran') <= N + 1 BY <1>0
  <2>3. InPlace' BY <1>5, <2>1, <2>2 DEF InPlace
  <2>4. RunInPlace(t)' BY <1>2, <2>1 DEF RunInPlace
  <2> QED BY <1>3, <2>3, <2>4
<1>7. CASE i <= N
  <2>1. /\ i \in 1..N /\ r.at = i /\ r.step = i
        /\ \/ r.pc = "acting" /\ pausedStep' = NoStep
           \/ r.pc = "announcing" /\ pausedStep' = i
      BY <1>0, <1>1, <1>4, <1>5, <1>7 DEF Heads
  <2>2. Reached(i)' /\ first' + Len(ran') <= N + 1 BY <1>0, <2>1 DEF Reached
  <2>3. InPlace'
    <3>1. pausedStep' # NoStep => Reached(pausedStep)' BY <2>1, <2>2 DEF Reached
    <3> QED BY <1>5, <2>2, <3>1 DEF InPlace
  <2>4. RunInPlace(t)'
    <3>1. CASE r.pc = "acting" /\ pausedStep' = NoStep
      <4>1. ~StoppedAt' BY <1>5, <3>1 DEF StoppedAt
      <4>2. task'[t].step = i /\ task'[t].at = i BY <1>2, <2>1
      <4> QED BY <1>2, <2>2, <3>1, <4>1, <4>2 DEF RunInPlace, Reached
    <3>2. CASE r.pc = "announcing" BY <1>2, <3>2 DEF RunInPlace
    <3> QED BY <2>1, <3>1, <3>2
  <2> QED BY <1>3, <2>3, <2>4
<1> QED BY <1>0, <1>6, <1>7

LEMMA TaskInOrder ==
    ASSUME Typed, OneReplay, InOrder, NEW t \in Tasks, TaskStep(t)
    PROVE  InOrder'
<1>0. /\ first \in Nat /\ ran \in Seq(Nat) /\ InPlace /\ first \in 1..N /\ N \in Nat
      /\ \A u \in Tasks : Live(u) => RunInPlace(u)
    BY Bounds DEF InOrder, InPlace, Typed
<1>c. \A c \in Clients : CallInPlace(c)'
  <2>1. UNCHANGED call
      BY DEF TaskStep, Suspend, Suspended, Pass, Fail, Announce, Complete, Restored, Unwind
  <2> QED BY <2>1, CallUnchanged DEF InOrder
<1>1. ASSUME Live(t) PROVE RunInPlace(t) /\ \A u \in Tasks : Live(u) => u = t
    BY <1>0, <1>1 DEF Live, OneReplay
\* Where the pass stands is not touched, and only t moves.
<1>2. ASSUME \A u \in Tasks : u # t => task'[u] = task[u], Live(t)' => RunInPlace(t)',
             UNCHANGED <<steps, pausedStep, failingStep, first, ran>>
      PROVE  InOrder'
  <2>1. InPlace' /\ (StoppedAt' <=> StoppedAt)
      BY <1>0, <1>2 DEF InPlace, Reached, StepsPassInOrder, StoppedAt
  <2>2. ASSUME NEW u \in Tasks, u # t, Live(u)' PROVE RunInPlace(u)'
    <3>1. task'[u] = task[u] /\ Live(u) BY <1>2, <2>2 DEF Live
    <3>2. RunInPlace(u) BY <1>0, <3>1
    <3> QED BY <1>2, <2>1, <3>1, <3>2 DEF RunInPlace, Reached
  <2> QED BY <1>c, <1>2, <2>1, <2>2 DEF InOrder
<1>3. ASSUME Live(t), NEW i \in 1..(N + 1), LoopHead(t, i), ~StoppedAt, first' = first, ran' \in Seq(Nat),
             first + Len(ran') = i, StepsPassInOrder', UNCHANGED <<steps, failingStep>>
      PROVE  InOrder'
  <2>1. task[t].live BY <1>1, <1>3 DEF RunInPlace
  <2>2. InPlace' /\ \A u \in Tasks : Live(u)' => u = t /\ RunInPlace(u)'
      BY <1>0, <1>3, <2>1, HeadInPlace
  <2> QED BY <1>c, <2>2 DEF InOrder
\* The loop begins at the step the task was started from.
<1>4. ASSUME Live(t), task[t].pc \in {"created", "suspending"}, LoopHead(t, FirstIndex(View(t), task[t].start)),
             UNCHANGED <<steps, failingStep, first, ran>>
      PROVE  InOrder'
  <2> DEFINE s == task[t].start
             k == FirstIndex(View(t), s)
  <2>1. /\ task[t].live /\ ~StoppedAt
        /\ IF s = NoStep THEN first = 1 /\ ran = <<>> ELSE Reached(s)
      BY <1>1, <1>4 DEF RunInPlace
  <2>2. View(t) = steps /\ Len(steps) = N /\ (\A i \in 1..N : steps[i] = i) /\ DOMAIN steps = 1..N
      BY <1>0, <2>1, Ordered DEF View
  <2>3. k \in 1..(N + 1) /\ first + Len(ran) = k
    <3>1. CASE s = NoStep
      <4>1. k = 1 /\ first = 1 /\ Len(ran) = 0 BY <2>1, <3>1 DEF FirstIndex
      <4> HIDE DEF k
      <4> QED BY <1>0, <4>1
    <3>2. CASE s # NoStep
      <4>1. s \in 1..N /\ first + Len(ran) = s BY <2>1, <3>2 DEF Reached
      <4>2. Contains(steps, s) BY <2>2, <4>1 DEF Contains
      <4> HIDE DEF s
      <4>3. \A i \in DOMAIN steps : steps[i] = s <=> i = s BY <2>2, <4>1
      <4>4. (CHOOSE i \in DOMAIN steps : steps[i] = s) = s BY <2>2, <4>1, <4>3
      <4>5. k = s BY <2>2, <3>2, <4>2, <4>4 DEF FirstIndex
      <4> HIDE DEF k
      <4> QED BY <1>0, <4>1, <4>5
    <3> QED BY <3>1, <3>2
  <2>4. LoopHead(t, k) BY <1>4
  <2>5. StepsPassInOrder' BY <1>0, <1>4 DEF InPlace, StepsPassInOrder
  <2> HIDE DEF s, k
  <2> QED BY <1>0, <1>3, <1>4, <2>1, <2>3, <2>4, <2>5
<1>5. CASE Suspend(t)
  <2>1. /\ Live(t) /\ task[t].pc = "created" /\ task[t].cancelled = FALSE
        /\ UNCHANGED <<steps, failingStep, first, ran>>
      BY <1>5 DEF Suspend, Live, seen, Typed, Runs
  <2>2. CASE PlacedAt(t, "suspending") /\ UNCHANGED <<pauseRequested, pausedStep>>
    <3>1. "suspending" \in Stages BY DEF Stages
    <3>2. PICK r : Moves(t, r) /\ r.pc = "suspending" BY <2>2, <3>1, TaskMoves
    <3>3. /\ task'[t] = r /\ r.live = task[t].live /\ r.start = task[t].start
          /\ \A u \in Tasks : u # t => task'[u] = task[u]
        BY <3>2, Moved DEF Moves
    <3>4. RunInPlace(t)' BY <1>1, <2>1, <2>2, <3>2, <3>3 DEF RunInPlace, Reached, StoppedAt
    <3> QED BY <1>2, <2>1, <2>2, <3>3, <3>4
  <2>3. CASE LoopHead(t, FirstIndex(View(t), task[t].start)) BY <1>4, <2>1, <2>3
  <2> QED BY <1>5, <2>2, <2>3 DEF Suspend, PlacedAt
<1>6. CASE Suspended(t)
  <2>1. Live(t) /\ task[t].pc = "suspending" /\ UNCHANGED <<steps, failingStep, first, ran>>
      BY <1>6 DEF Suspended, Live, seen
  <2> QED BY <1>4, <1>6, <2>1 DEF Suspended
<1>7. CASE Pass(t)
  <2>1. Live(t) /\ task[t].pc = "acting" BY <1>7 DEF Pass, Live
  <2>2. ~StoppedAt /\ task[t].at = task[t].step /\ Reached(task[t].step) BY <1>1, <2>1 DEF RunInPlace
  <2> DEFINE s == task[t].step
  <2>3. s \in 1..N /\ first + Len(ran) = s BY <2>2 DEF Reached
  <2>4. ran' = Append(ran, s) /\ LoopHead(t, s + 1) /\ UNCHANGED <<steps, failingStep, first>>
      BY <1>7, <2>2 DEF Pass
  <2> HIDE DEF s
  <2>5. s + 1 \in 1..(N + 1) /\ ran' \in Seq(Nat) /\ Len(ran') = Len(ran) + 1 /\ first + Len(ran') = s + 1
      BY <1>0, <2>3, <2>4
  <2>6. StepsPassInOrder'
    <3>1. \A i \in 1..Len(ran) : ran[i] = first + i - 1 BY <1>0 DEF InPlace, StepsPassInOrder
    <3>2. ASSUME NEW i \in 1..Len(ran') PROVE ran'[i] = first + i - 1
      <4>1. CASE i = Len(ran) + 1
        <5>1. ran'[i] = s BY <1>0, <2>4, <4>1
        <5> QED BY <1>0, <2>3, <4>1, <5>1
      <4>2. CASE i # Len(ran) + 1
        <5>1. i \in 1..Len(ran) BY <1>0, <2>5, <4>2
        <5>2. ran'[i] = ran[i] BY <1>0, <2>4, <5>1
        <5> QED BY <3>1, <5>1, <5>2
      <4> QED BY <4>1, <4>2
    <3> QED BY <2>4, <2>5, <3>2 DEF StepsPassInOrder
  <2> QED BY <1>3, <2>1, <2>2, <2>4, <2>5, <2>6
<1>8. CASE Fail(t)
  <2>1. Live(t) /\ task[t].pc = "acting" BY <1>8 DEF Fail, Live
  <2>2. task[t].live /\ ~StoppedAt /\ Reached(task[t].step) BY <1>1, <2>1 DEF RunInPlace
  <2>3. PlacedAt(t, "announcing") /\ "announcing" \in Stages BY <1>8 DEF Fail, PlacedAt, Stages
  <2>4. PICK r : Moves(t, r) /\ r.pc = "announcing" BY <2>3, TaskMoves
  <2>5. task'[t] = r /\ r.live /\ \A u \in Tasks : u # t => task'[u] = task[u]
      BY <2>2, <2>4, Moved DEF Moves
  <2>6. \A u \in Tasks : Live(u)' => u = t BY <1>1, <2>1, <2>5 DEF Live
  <2>7. /\ failingStep' = task[t].step /\ pausedStep' = NoStep
        /\ UNCHANGED <<steps, first, ran>>
      BY <1>8, <2>2 DEF Fail, seen, StoppedAt
  <2>8. Reached(failingStep)' BY <2>2, <2>7 DEF Reached
  <2>9. InPlace' BY <1>0, <2>7, <2>8 DEF InPlace, StepsPassInOrder
  <2>10. RunInPlace(t)' BY <2>4, <2>5 DEF RunInPlace
  <2> QED BY <1>c, <2>6, <2>9, <2>10 DEF InOrder
\* The level is given back, and the task ends or arms the page.
<1>9. ASSUME Release(t), Live(t) => task[t].live, UNCHANGED <<steps, pausedStep, failingStep, first, ran>>
      PROVE  InOrder'
  <2>1. CASE Gone(t)
    <3>1. ~Live(t)' /\ \A u \in Tasks : u # t => task'[u] = task[u] BY <2>1, GoneTyped DEF Free, Live
    <3> QED BY <1>2, <1>9, <3>1
  <2>2. ASSUME NEW r, Moves(t, r), r.pc = "restoring" PROVE InOrder'
    <3>1. /\ task'[t] = r /\ r.live = task[t].live /\ r.cancelled = task[t].cancelled
          /\ \A u \in Tasks : u # t => task'[u] = task[u]
        BY <2>2, Moved DEF Moves
    <3>2. Live(t)' => task[t].live
      <4>1. CASE task[t].pc = "free"
        <5>1. ~TaskStep(t) BY <4>1 DEF TaskStep, Suspend, Suspended, Pass, Fail, Announce, Complete, Restored, Unwind
        <5> QED BY <5>1
      <4>2. CASE task[t].pc # "free" BY <1>9, <3>1, <4>2 DEF Live
      <4> QED BY <4>1, <4>2
    <3>3. Live(t)' => RunInPlace(t)' BY <2>2, <3>1, <3>2 DEF RunInPlace
    <3> QED BY <1>2, <1>9, <3>1, <3>3
  <2> QED BY <1>9, <2>1, <2>2, ReleaseMoves
<1>10. Live(t) => task[t].live BY <1>1 DEF RunInPlace
<1>11. CASE Announce(t) \/ Complete(t) BY <1>9, <1>10, <1>11 DEF Announce, Complete, seen
<1>12. ASSUME Gone(t), UNCHANGED <<steps, pausedStep, failingStep, first, ran>> PROVE InOrder'
  <2>1. ~Live(t)' /\ \A u \in Tasks : u # t => task'[u] = task[u] BY <1>12, GoneTyped DEF Free, Live
  <2> QED BY <1>2, <1>12, <2>1
<1>13. CASE Restored(t) BY <1>12, <1>13 DEF Restored, seen
<1>14. CASE Unwind(t) BY <1>9, <1>10, <1>12, <1>14 DEF Unwind
<1> QED BY <1>5, <1>6, <1>7, <1>8, <1>11, <1>13, <1>14 DEF TaskStep

\* Where nothing is edited or force-fixed, no panel sends such a message.
LEMMA NoEdits ==
    ASSUME Unedited, Typed, NEW kind, Room(kind)
    PROVE  kind \notin EditKinds \cup {"force_fix"}
<1>1. used.edits \in Nat /\ used.fixes \in Nat BY DEF Typed
<1>2. Cardinality({c \in Clients : call[c].kind \in EditKinds}) \in Nat
    BY Bounds, FS_Subset, FS_CardinalityType
<1>3. MaxEdits = 0 /\ MaxFixes = 0 BY DEF Unedited
<1>4. ~(used.edits + Cardinality({c \in Clients : call[c].kind \in EditKinds}) < MaxEdits) BY <1>1, <1>2, <1>3
<1>5. ~(used.fixes < MaxFixes) BY <1>1, <1>3
<1> QED BY <1>4, <1>5 DEF Room

LEMMA ClickInOrder ==
    ASSUME Unedited, Typed, InOrder, NEW c \in Clients, Click(c)
    PROVE  InOrder'
<1>1. PICK kind \in Kinds : \E s \in Nat : /\ Room(kind)
                                          /\ call'[c] = [kind |-> kind, stage |-> "sent", step |-> s]
    BY Clicked
<1>2. kind \notin EditKinds \cup {"force_fix"} BY <1>1, NoEdits
<1>3. CallInPlace(c)' BY <1>1, <1>2 DEF CallInPlace, Awaiting
<1>4. \A d \in Clients : d # c => call'[d] = call[d] BY Clicked
<1>5. \A d \in Clients : d # c => CallInPlace(d)' BY <1>4 DEF InOrder, CallInPlace, Awaiting
<1>6. UNCHANGED <<steps, task, pausedStep, failingStep, first, ran>> BY Clicked DEF seen
<1> QED BY <1>3, <1>5, <1>6, PlaceUnchanged DEF InOrder

\* A replay is started from step s.
LEMMA StartInOrder ==
    ASSUME Typed, OneReplay, InPlace, NEW s \in Nat, StartReplay(s), ClearStops, UNCHANGED steps,
           StepsPassInOrder', first' \in 1..N, first' + Len(ran') <= N + 1,
           IF s = NoStep THEN first' = 1 /\ ran' = <<>> ELSE Reached(s)'
    PROVE  InPlace' /\ \A t \in Tasks : Live(t)' => RunInPlace(t)'
<1>1. ~StoppedAt' /\ InPlace' BY DEF ClearStops, StoppedAt, InPlace
<1>2. PICK t \in Tasks : /\ replayTask' = t /\ \A u \in Tasks : u # t => task'[u] = Cancelled[u]
                         /\ task'[t].pc = "created" /\ task'[t].start = s /\ task'[t].live = TRUE
    BY StartReplayMoves
<1>3. ASSUME NEW u \in Tasks, Live(u)' PROVE u = t
    BY <1>2, <1>3, CancelledTyped DEF Live, OneReplay
<1>4. RunInPlace(t)' BY <1>1, <1>2 DEF RunInPlace
<1> QED BY <1>1, <1>3, <1>4

\* A pass of its own begins at step s.
LEMMA PassBegun ==
    ASSUME NEW s \in 1..N, PassBegins(s)
    PROVE  StepsPassInOrder' /\ first' \in 1..N /\ first' + Len(ran') <= N + 1 /\ Reached(s)' /\ ran' = <<>>
<1>1. first' = s /\ ran' = <<>> /\ Len(ran') = 0 /\ DOMAIN ran' = {} BY DEF PassBegins
<1>2. s \in Nat /\ N \in Nat /\ s <= N BY Bounds
<1>3. first' + Len(ran') = s /\ first' + Len(ran') <= N + 1 BY <1>1, <1>2
<1> QED BY <1>1, <1>3 DEF StepsPassInOrder, Reached

LEMMA HandleInOrder ==
    ASSUME Typed, OneReplay, InOrder, NEW c \in Clients, Handle(c)
    PROVE  InOrder'
<1>1. InPlace /\ (\A t \in Tasks : Live(t) => RunInPlace(t)) /\ (\A d \in Clients : CallInPlace(d)) /\ N \in Nat
      /\ 1 \in 1..N
    BY Bounds DEF InOrder
<1>2. ASSUME Return(c) PROVE \A d \in Clients : CallInPlace(d)'
  <2>1. call'[c] = Idle /\ \A d \in Clients : d # c => call'[d] = call[d] BY <1>2, CallChanges
  <2>2. CallInPlace(c)' BY <2>1 DEF CallInPlace, Awaiting, Idle, EditKinds
  <2> QED BY <1>1, <2>1, <2>2 DEF CallInPlace, Awaiting
<1>3. ASSUME Await(c), call[c].kind = "resume" => call[c].step \in 1..N PROVE \A d \in Clients : CallInPlace(d)'
  <2>1. /\ call'[c].kind = call[c].kind /\ call'[c].step = call[c].step
        /\ \A d \in Clients : d # c => call'[d] = call[d]
      BY <1>3, CallChanges
  <2>2. CallInPlace(c)' BY <1>1, <1>3, <2>1 DEF CallInPlace, Awaiting
  <2> QED BY <1>1, <2>1, <2>2 DEF CallInPlace, Awaiting
\* A handler that leaves the replay alone.
<1>4. ASSUME UNCHANGED <<steps, task, pausedStep, failingStep, first, ran>>,
             Return(c) \/ (Await(c) /\ (call[c].kind = "resume" => call[c].step \in 1..N))
      PROVE  InOrder'
    BY <1>1, <1>2, <1>3, <1>4, PlaceUnchanged DEF InOrder
<1>5. CASE SaveBeforeReplay(c)
    BY <1>4, <1>5 DEF SaveBeforeReplay, Dispatched, seen
<1>6. CASE PauseRequest(c) \/ Validate(c) \/ Validated(c) \/ Record(c)
    BY <1>4, <1>6 DEF PauseRequest, Validate, Validated, Record, Dispatched, Awaiting, seen
<1>7. CASE ApplyOverride(c)
  <2>1. \E i \in DOMAIN steps : steps[i] = call[c].step BY <1>7 DEF ApplyOverride, Contains
  <2>2. call[c].step \in 1..N BY <1>1, <2>1, Ordered
  <2> QED BY <1>4, <1>7, <2>2 DEF ApplyOverride, serverVars, seen
<1>8. CASE Replay(c)
  <2>1. ClearStops /\ PassBegins(1) /\ StartReplay(NoStep) /\ Return(c) /\ UNCHANGED steps /\ NoStep \in Nat
      BY <1>8, Bounds DEF Replay
  <2>2. /\ StepsPassInOrder' /\ first' \in 1..N /\ first' + Len(ran') <= N + 1
        /\ first' = 1 /\ ran' = <<>>
      BY <1>1, <2>1, PassBegun DEF PassBegins
  <2>3. InPlace' /\ \A t \in Tasks : Live(t)' => RunInPlace(t)' BY <1>1, <2>1, <2>2, StartInOrder
  <2> QED BY <1>2, <2>1, <2>3 DEF InOrder
<1>9. CASE Stop(c)
  <2>1. ClearStops /\ task' = Cancelled /\ Return(c) /\ UNCHANGED <<steps, first, ran>>
      BY <1>9 DEF Stop, seen
  <2>2. \A t \in Tasks : ~Live(t)' BY <2>1, CancelledTyped DEF Live, OneReplay
  <2>3. InPlace' BY <1>1, <2>1 DEF InPlace, ClearStops, StepsPassInOrder
  <2> QED BY <1>2, <2>1, <2>2, <2>3 DEF InOrder
<1>10. CASE Resume(c)
  <2>1. ClearStops /\ StartReplay(ResumePoint(c)) /\ Return(c) /\ UNCHANGED steps /\ PassGoesOn(c)
      BY <1>10 DEF Resume
  <2> DEFINE s == ResumePoint(c)
             a == ApplyStep(c)
  <2>2. s \in Nat BY ResumePointTyped
  <2>3. a # NoStep => a \in 1..N BY <1>1, <1>10 DEF ApplyStep, CallInPlace, Awaiting, Resume, Dispatched
  <2>4. CASE StoppedAt
    <3>1. Reached(s) /\ UNCHANGED <<first, ran>> BY <1>1, <2>1, <2>4 DEF StoppedAt, ResumePoint, InPlace, PassGoesOn
    <3>2. s # NoStep /\ StartReplay(s) BY <1>1, <2>1, <3>1, Bounds DEF Reached
    <3> HIDE DEF s
    <3>3. PICK q \in Nat : q = s BY <2>2
    <3>4. Reached(q)' BY <3>1, <3>3 DEF Reached
    <3>5. /\ StepsPassInOrder' /\ first' \in 1..N /\ first' + Len(ran') <= N + 1
        BY <1>1, <3>1 DEF InPlace, StepsPassInOrder
    <3>6. InPlace' /\ \A t \in Tasks : Live(t)' => RunInPlace(t)'
        BY <1>1, <2>1, <3>2, <3>3, <3>4, <3>5, StartInOrder
    <3> QED BY <1>2, <2>1, <3>6 DEF InOrder
  <2>5. CASE ~StoppedAt
    <3>1. s = a /\ PassBegins(IF a = NoStep THEN 1 ELSE a) /\ StartReplay(s)
        BY <2>1, <2>5 DEF StoppedAt, ResumePoint, PassGoesOn
    <3> HIDE DEF s, a
    <3>2. PICK q \in Nat : q = s BY <2>2
    <3> DEFINE b == IF q = NoStep THEN 1 ELSE q
    <3>3. b \in 1..N /\ PassBegins(b) BY <1>1, <2>3, <3>1, <3>2
    <3>4. first' = b /\ ran' = <<>> BY <3>3 DEF PassBegins
    <3>5. b # NoStep BY Bounds
    <3> HIDE DEF b
    <3>6. StepsPassInOrder' /\ first' \in 1..N /\ first' + Len(ran') <= N + 1 /\ Reached(b)'
        BY <3>3, PassBegun
    <3>7. IF q = NoStep THEN first' = 1 /\ ran' = <<>> ELSE Reached(q)' BY <3>4, <3>6 DEF b
    <3>8. InPlace' /\ \A t \in Tasks : Live(t)' => RunInPlace(t)'
        BY <1>1, <2>1, <3>1, <3>2, <3>6, <3>7, StartInOrder
    <3> QED BY <1>2, <2>1, <3>8 DEF InOrder
  <2> QED BY <2>4, <2>5
<1>11. ~(ForceFix(c) \/ ForceFixed(c) \/ InsertStep(c) \/ DeleteStep(c))
    BY <1>1 DEF CallInPlace, EditKinds, ForceFix, ForceFixed, InsertStep, DeleteStep, Dispatched, Awaiting
<1> QED BY <1>5, <1>6, <1>7, <1>8, <1>9, <1>10, <1>11 DEF Handle

LEMMA InOrderStays == Unedited /\ Typed /\ OneReplay /\ InOrder /\ [Next]_vars => InOrder'
<1> SUFFICES ASSUME Unedited, Typed, OneReplay, InOrder, [Next]_vars PROVE InOrder' OBVIOUS
<1>1. ASSUME UNCHANGED <<steps, task, pausedStep, failingStep, first, ran, call>> PROVE InOrder'
    BY <1>1, PlaceUnchanged, CallUnchanged DEF InOrder
<1>2. ASSUME NEW c \in Clients, Reload(c) PROVE InOrder' BY <1>1, <1>2 DEF Reload, serverVars, seen
<1>3. CASE UNCHANGED vars BY <1>1, <1>3 DEF vars, serverVars, seen
<1> QED BY <1>2, <1>3, TaskInOrder, ClickInOrder, HandleInOrder DEF Next

LEMMA InOrderInit == Init => InOrder
<1> SUFFICES ASSUME Init PROVE InOrder OBVIOUS
<1>1. /\ steps = [i \in 1..N |-> i] /\ first = 1 /\ ran = <<>> /\ failingStep = NoStep /\ pausedStep = NoStep
      /\ (\A t \in Tasks : task[t].pc = "free") /\ \A c \in Clients : call[c].kind = "none"
    BY DEF Init, Free, Idle
<1>2. first \in 1..N /\ first + Len(ran) <= N + 1
  <2>1. Len(ran) = 0 BY <1>1
  <2> QED BY <1>1, <2>1, Bounds
<1>3. InPlace BY <1>1, <1>2 DEF InPlace, StepsPassInOrder
<1> QED BY <1>1, <1>3 DEF InOrder, Live, CallInPlace, Awaiting, EditKinds

\* However many panels there are, and however often their pages are loaded: while the list is not
\* edited and no cascade is run, the steps that passed since a pass over the list began are
\* consecutive from where it began, through any pauses, failures, stops, resumes with and without
\* an override, and new replays (_run_replay, handle_resume, handle_replay, handle_stop_replay).
THEOREM PassInOrder == ASSUME Unedited PROVE Spec => []StepsPassInOrder
<1>1. Init => OneReplay BY DEF Init, OneReplay, Free
<1>2. InOrder => StepsPassInOrder BY DEF InOrder, InPlace
<1>3. Typed /\ OneReplay /\ InOrder /\ [Next]_vars => InOrder' BY InOrderStays
<1> QED BY <1>1, <1>2, <1>3, TypedInit, TypedStays, OneReplayStays, InOrderInit, PTL DEF Spec

=============================================================================
