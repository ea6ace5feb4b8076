--------------------------- MODULE PanelCaptureProofs ---------------------------
(***************************************************************************)
(* Theorems about PanelCapture.  What holds after every step:              *)
(*   Typed, Held  - the state's types; what a coroutine holds fits the     *)
(*                  place where it is, and a buffer of inputs has one of   *)
(*                  each key;                                              *)
(*   Once         - a function from events to places (the queue, a batch,  *)
(*                  the buffers, a step at work, a position among the      *)
(*                  steps) that every occurrence of an event agrees with;  *)
(* and with one panel:                                                     *)
(*   Solo         - the handler and the poll take turns;                   *)
(*   ArmedForUser, Settled - the page is armed while the agent acts only   *)
(*                  if a load armed it, and what the agent did is nowhere, *)
(*                  a stray, or on its way to being dropped or a stray;    *)
(*   Numbered, Line - steps, buffered inputs, the batch and the queue      *)
(*                  follow one another.                                    *)
(***************************************************************************)
EXTENDS PanelCapture, ListFacts

-----------------------------------------------------------------------------
(***************************************************************************)
(* Types.                                                                  *)
(***************************************************************************)
Places == {"idle", "created", "sleeping", "taking", "own", "ranking", "flushing", "injecting", "arming",
           "disarming", "suspending", "acting", "restoring"}
Coroutines == [pc : Places, batch : Seq(EventRecord), fills : Seq(EventRecord),
               step : EventRecord \cup {NoEvent}, after : Places, cancelled : BOOLEAN]
Workers == Panels \cup Polls

Typed ==
    /\ installed \in BOOLEAN /\ armed \in BOOLEAN /\ queue \in Seq(EventRecord)
    /\ injected \in BOOLEAN /\ recording \in BOOLEAN /\ pollTask \in Polls \cup {NoPoll}
    /\ pending \in Seq(EventRecord) /\ lastClick \in Keys \cup {NoKey} /\ depth \in Nat
    /\ co \in [Workers -> Coroutines]
    /\ steps \in Seq(EventRecord)
    /\ used \in [acts : 0..MaxActs, loads : 0..MaxLoads, calls : 0..MaxCalls]

\* The list is the buffer of inputs: one of each key.
Buffer(list) ==
    /\ \A i \in DOMAIN list : list[i].kind = "input"
    /\ \A i, j \in DOMAIN list : list[i].key = list[j].key => i = j

\* What a coroutine holds fits the place where it is.
Holding(c) ==
    /\ Buffer(c.fills)
    /\ c.pc = "ranking" => c.step \in EventRecord /\ c.after \in {"own", "taking", "flushing"}
    /\ c.pc = "own" \/ (c.pc = "ranking" /\ c.after = "own") => c.batch # <<>>

Held == Buffer(pending) /\ \A w \in Workers : Holding(co[w])

-----------------------------------------------------------------------------
(***************************************************************************)
(* The operators on the buffer and on batches.                             *)
(***************************************************************************)
\* Taking an element out of a list.
LEMMA Removed ==
    ASSUME NEW S, NEW list \in Seq(S), NEW i \in 1..Len(list)
    PROVE  /\ RemoveAt(list, i) \in Seq(S) /\ Len(RemoveAt(list, i)) = Len(list) - 1
           /\ \A k \in 1..(Len(list) - 1) : RemoveAt(list, i)[k] = IF k < i THEN list[k] ELSE list[k + 1]
<1> DEFINE a == SubSeq(list, 1, i - 1)
           b == SubSeq(list, i + 1, Len(list))
<1>1. a \in Seq(S) /\ Len(a) = i - 1 /\ \A k \in 1..(i - 1) : a[k] = list[k] OBVIOUS
<1>2. b \in Seq(S) /\ Len(b) = Len(list) - i /\ \A k \in 1..(Len(list) - i) : b[k] = list[i + k] OBVIOUS
<1>3. RemoveAt(list, i) = a \o b BY DEF RemoveAt
<1> HIDE DEF a, b
<1>4. a \o b \in Seq(S) /\ Len(a \o b) = Len(list) - 1
  <2>0. a \in Seq(S) /\ b \in Seq(S) BY <1>1, <1>2
  <2>1. a \o b \in Seq(S) BY <2>0
  <2>2. Len(a \o b) = Len(a) + Len(b) BY <2>0
  <2> QED BY <1>1, <1>2, <2>1, <2>2
<1>5. ASSUME NEW k \in 1..(Len(list) - 1) PROVE (a \o b)[k] = IF k < i THEN list[k] ELSE list[k + 1]
  <2>1. CASE k < i BY <1>1, <1>2, <2>1
  <2>2. CASE ~(k < i)
    <3>1. (a \o b)[k] = b[k - (i - 1)] BY <1>1, <1>2, <2>2
    <3>2. b[k - (i - 1)] = list[i + (k - (i - 1))] /\ i + (k - (i - 1)) = k + 1 BY <1>2, <2>2
    <3> QED BY <2>2, <3>1, <3>2
  <2> QED BY <2>1, <2>2
<1> QED BY <1>3, <1>4, <1>5

\* Popping the pending fill of an element leaves none of that element.
LEMMA RemovedBuffer ==
    ASSUME NEW list \in Seq(EventRecord), Buffer(list), NEW e, HasFill(list, e)
    PROVE  LET i == PlaceOf(list, e)  less == RemoveAt(list, i) IN
           /\ i \in DOMAIN list /\ list[i].key = e /\ list[i].kind = "input"
           /\ less \in Seq(EventRecord) /\ Buffer(less) /\ ~HasFill(less, e)
           /\ \A k \in DOMAIN less : \E j \in DOMAIN list : less[k] = list[j]
<1> DEFINE i == PlaceOf(list, e)
           less == RemoveAt(list, i)
<1>1. i \in DOMAIN list /\ list[i].key = e BY DEF HasFill, PlaceOf
<1>2. i \in 1..Len(list) /\ DOMAIN list = 1..Len(list) BY <1>1
<1> HIDE DEF i
<1>3. /\ less \in Seq(EventRecord) /\ Len(less) = Len(list) - 1
      /\ \A k \in 1..(Len(list) - 1) : less[k] = IF k < i THEN list[k] ELSE list[k + 1]
    BY <1>2, Removed
<1> HIDE DEF less
<1>4. DOMAIN less = 1..(Len(list) - 1) BY <1>3
<1>5. ASSUME NEW k \in DOMAIN less
      PROVE  LET j == IF k < i THEN k ELSE k + 1 IN j \in DOMAIN list /\ j # i /\ less[k] = list[j]
    BY <1>2, <1>3, <1>4
<1>6. ~HasFill(less, e) BY <1>1, <1>5 DEF HasFill, Buffer
<1>7. \A k \in DOMAIN less : less[k].kind = "input" BY <1>5 DEF Buffer
<1>8. ASSUME NEW k \in DOMAIN less, NEW m \in DOMAIN less, less[k].key = less[m].key PROVE k = m
  <2>1. (IF k < i THEN k ELSE k + 1) = (IF m < i THEN m ELSE m + 1) BY <1>5, <1>8 DEF Buffer
  <2> QED BY <2>1, <1>2, <1>4
<1>9. Buffer(less) BY <1>7, <1>8 DEF Buffer
<1>10. \A k \in DOMAIN less : \E j \in DOMAIN list : less[k] = list[j] BY <1>5
<1>11. list[i].kind = "input" BY <1>1 DEF Buffer
<1> QED BY <1>1, <1>3, <1>6, <1>9, <1>10, <1>11 DEF i, less

\* Assigning a pending fill keeps one of each key.
LEMMA PutBuffer ==
    ASSUME NEW list \in Seq(EventRecord), Buffer(list), NEW x \in EventRecord, x.kind = "input"
    PROVE  /\ Put(list, x) \in Seq(EventRecord) /\ Buffer(Put(list, x))
           /\ \A k \in DOMAIN Put(list, x) : Put(list, x)[k] = x \/ \E j \in DOMAIN list : Put(list, x)[k] = list[j]
<1> DEFINE more == Put(list, x)
<1>1. CASE HasFill(list, x.key)
  <2> DEFINE i == PlaceOf(list, x.key)
  <2>1. i \in DOMAIN list /\ list[i].key = x.key BY <1>1 DEF HasFill, PlaceOf
  <2>2. more = [list EXCEPT ![i] = x] BY <1>1 DEF Put
  <2> HIDE DEF i, more
  <2>3. /\ more \in Seq(EventRecord) /\ DOMAIN more = DOMAIN list /\ Len(more) = Len(list)
        /\ \A k \in DOMAIN list : more[k] = IF k = i THEN x ELSE list[k]
      BY <2>1, <2>2
  <2>4. Buffer(more) BY <2>1, <2>3 DEF Buffer
  <2> QED BY <2>3, <2>4 DEF more
<1>2. CASE ~HasFill(list, x.key)
  <2>1. more = Append(list, x) BY <1>2 DEF Put
  <2> HIDE DEF more
  <2>2. /\ more \in Seq(EventRecord) /\ DOMAIN more = 1..(Len(list) + 1) /\ DOMAIN list = 1..Len(list)
        /\ \A k \in 1..(Len(list) + 1) : more[k] = IF k = Len(list) + 1 THEN x ELSE list[k]
      BY <2>1
  <2>3. Buffer(more) BY <1>2, <2>2 DEF Buffer, HasFill
  <2> QED BY <2>2, <2>3 DEF more
<1> QED BY <1>1, <1>2

\* What is in a buffer was there before or is one of the first n events.
FilledFrom(fills, list, events, n) ==
    \A k \in DOMAIN fills : \/ \E j \in DOMAIN list : fills[k] = list[j]
                            \/ \E j \in 1..n : fills[k] = events[j]

BufferedUpTo(list, events, len, g) ==
    g = [i \in 0..len |-> IF i = 0 THEN list
                          ELSE IF events[i].kind = "input" THEN Put(g[i - 1], events[i]) ELSE g[i - 1]]

\* The recursion of Buffered has a solution.
LEMMA BufferedExists ==
    ASSUME NEW list, NEW events, NEW len \in Nat
    PROVE  \E g : BufferedUpTo(list, events, len, g)
<1> DEFINE Good(n, g) == BufferedUpTo(list, events, n, g)
           Bad == {n \in Nat : ~\E g : Good(n, g)}
<1>1. Good(0, [i \in 0..0 |-> list]) BY DEF BufferedUpTo
<1>2. ASSUME NEW n \in Nat, NEW h, Good(n, h) PROVE \E g : Good(n + 1, g)
  <2> DEFINE e == IF events[n + 1].kind = "input" THEN Put(h[n], events[n + 1]) ELSE h[n]
             g == [i \in 0..(n + 1) |-> IF i = n + 1 THEN e ELSE h[i]]
  <2>1. \A i \in 0..n : h[i] = IF i = 0 THEN list
                               ELSE IF events[i].kind = "input" THEN Put(h[i - 1], events[i]) ELSE h[i - 1]
      BY <1>2 DEF BufferedUpTo
  <2>2. ASSUME NEW i \in 0..(n + 1)
        PROVE  g[i] = IF i = 0 THEN list
                      ELSE IF events[i].kind = "input" THEN Put(g[i - 1], events[i]) ELSE g[i - 1]
    <3>1. CASE i = n + 1
      <4>1. g[i] = e /\ i - 1 \in 0..n /\ i - 1 = n /\ i # 0 /\ i - 1 # n + 1 BY <3>1
      <4>2. g[i - 1] = h[n] BY <4>1
      <4> HIDE DEF g
      <4> QED BY <3>1, <4>1, <4>2
    <3>2. CASE i = 0
      <4>1. g[0] = h[0] OBVIOUS
      <4> QED BY <2>1, <3>2, <4>1
    <3>3. CASE i \in 1..n
      <4>1. g[i] = h[i] /\ g[i - 1] = h[i - 1] /\ i # 0 BY <3>3
      <4> HIDE DEF g
      <4> QED BY <2>1, <3>3, <4>1
    <3> QED BY <3>1, <3>2, <3>3
  <2>3. Good(n + 1, g)
    <3>1. g = [i \in 0..(n + 1) |-> g[i]] OBVIOUS
    <3> HIDE DEF g
    <3> QED BY <2>2, <3>1 DEF BufferedUpTo
  <2> HIDE DEF Good
  <2> QED BY <2>3
<1> HIDE DEF Good
<1>3. Bad = {}
  <2> SUFFICES ASSUME Bad # {} PROVE FALSE OBVIOUS
  <2>0. Bad \in SUBSET Nat OBVIOUS
  <2>1. PICK n \in Bad : \A m \in Bad : n <= m BY <2>0, LeastNat
  <2>2. n # 0 BY <1>1, <2>1
  <2>3. n - 1 \in Nat /\ n - 1 \notin Bad BY <2>0, <2>1, <2>2
  <2>4. PICK h : Good(n - 1, h) BY <2>3
  <2>5. \E g : Good((n - 1) + 1, g) BY <1>2, <2>3, <2>4
  <2> QED BY <2>0, <2>1, <2>5
<1> QED BY <1>3 DEF Good

\* What the inputs of a batch leave in the buffer comes from the buffer or the batch.
LEMMA BufferedKeeps ==
    ASSUME NEW list \in Seq(EventRecord), Buffer(list), NEW events \in Seq(EventRecord),
           NEW n \in 0..Len(events), NEW fills, fills = Buffered(list, events, n)
    PROVE  fills \in Seq(EventRecord) /\ Buffer(fills) /\ FilledFrom(fills, list, events, n)
<1> DEFINE g == CHOOSE f : BufferedUpTo(list, events, n, f)
<1>1. BufferedUpTo(list, events, n, g)
  <2>1. n \in Nat OBVIOUS
  <2> QED BY <2>1, BufferedExists
<1>2. Buffered(list, events, n) = g[n] BY <1>1 DEF Buffered, BufferedUpTo
<1> HIDE DEF g
<1> DEFINE Good(k) == /\ g[k] \in Seq(EventRecord) /\ Buffer(g[k])
                      /\ \A m \in DOMAIN g[k] : \/ \E j \in DOMAIN list : g[k][m] = list[j]
                                                \/ \E j \in 1..k : g[k][m] = events[j]
           Bad == {k \in 0..n : ~Good(k)}
<1>3. \A i \in 0..n : g[i] = IF i = 0 THEN list
                             ELSE IF events[i].kind = "input" THEN Put(g[i - 1], events[i]) ELSE g[i - 1]
    BY <1>1 DEF BufferedUpTo
<1>4. Good(0)
  <2>1. g[0] = list BY <1>3
  <2> QED BY <2>1
<1>5. ASSUME NEW k \in 1..n, Good(k - 1) PROVE Good(k)
  <2>1. events[k] \in EventRecord OBVIOUS
  <2>2. CASE events[k].kind = "input"
    <3>1. g[k] = Put(g[k - 1], events[k]) BY <1>3, <2>2
    <3> DEFINE h == g[k - 1]
    <3>2. h \in Seq(EventRecord) /\ Buffer(h) BY <1>5
    <3>3. \A m \in DOMAIN h : \/ \E j \in DOMAIN list : h[m] = list[j]
                              \/ \E j \in 1..k : h[m] = events[j]
        BY <1>5
    <3>4. g[k] = Put(h, events[k]) BY <3>1
    <3> HIDE DEF h
    <3>5. /\ g[k] \in Seq(EventRecord) /\ Buffer(g[k])
          /\ \A m \in DOMAIN g[k] : g[k][m] = events[k] \/ \E j \in DOMAIN h : g[k][m] = h[j]
        BY <2>1, <2>2, <3>2, <3>4, PutBuffer
    <3> QED BY <3>3, <3>5
  <2>3. CASE events[k].kind # "input"
    <3>1. g[k] = g[k - 1] BY <1>3, <2>3
    <3> QED BY <1>5, <3>1
  <2> QED BY <2>2, <2>3
<1> HIDE DEF Good
<1>6. Bad = {}
  <2> SUFFICES ASSUME Bad # {} PROVE FALSE OBVIOUS
  <2>1. Bad \in SUBSET Nat OBVIOUS
  <2>2. PICK k \in Bad : \A m \in Bad : k <= m BY <2>1, LeastNat
  <2>3. k \in 1..n BY <1>4, <2>2
  <2>4. k - 1 \in 0..n /\ k - 1 \notin Bad BY <2>2, <2>3
  <2> QED BY <1>5, <2>2, <2>3, <2>4
<1>7. Good(n) BY <1>6
<1> QED BY <1>2, <1>7 DEF Good, FilledFrom

\* There is a first event that needs an await, or none.
LEMMA PrefixBounds ==
    ASSUME depth \in Nat, NEW batch \in Seq(EventRecord)
    PROVE  /\ QuietPrefix(batch) \in 0..Len(batch)
           /\ depth > 0 => QuietPrefix(batch) = Len(batch)
<1>1. CASE depth > 0 BY <1>1 DEF QuietPrefix
<1>2. CASE ~(depth > 0)
  <2> DEFINE Ends == {n \in 0..Len(batch) : n = Len(batch) \/ ~IsQuiet(batch, n + 1)}
  <2>1. Len(batch) \in Ends /\ Ends \subseteq Nat OBVIOUS
  <2> HIDE DEF Ends
  <2>2. PICK n \in Ends : \A m \in Ends : n <= m BY <2>1, LeastNat
  <2>3. ASSUME NEW i \in 1..n PROVE IsQuiet(batch, i)
    <3>0. n \in 0..Len(batch) /\ Len(batch) \in Nat BY DEF Ends
    <3>1. i - 1 \in 0..Len(batch) /\ i - 1 < n BY <3>0
    <3>3. i - 1 \notin Ends BY <2>1, <2>2, <3>0, <3>1
    <3>2. (i - 1) + 1 = i OBVIOUS
    <3> QED BY <3>1, <3>2, <3>3 DEF Ends
  <2>4. \E k \in 0..Len(batch) : /\ \A i \in 1..k : IsQuiet(batch, i)
                                 /\ k = Len(batch) \/ ~IsQuiet(batch, k + 1)
      BY <2>2, <2>3 DEF Ends
  <2> QED BY <1>2, <2>4 DEF QuietPrefix
<1> QED BY <1>1, <1>2

\* The first n events of a batch are dealt with: what is left, what is buffered then.
Split(batch, n, rest, fills) ==
    /\ rest \in Seq(EventRecord) /\ Len(rest) = Len(batch) - n
    /\ \A i \in 1..(Len(batch) - n) : rest[i] = batch[n + i]
    /\ fills \in Seq(EventRecord) /\ Buffer(fills) /\ FilledFrom(fills, pending, batch, n)
    /\ depth > 0 => n = Len(batch) /\ fills = pending

\* A batch is split where the poll next awaits.
LEMMA Rest ==
    ASSUME depth \in Nat, pending \in Seq(EventRecord), Buffer(pending), NEW batch \in Seq(EventRecord)
    PROVE  \E n \in 0..Len(batch) : Split(batch, n, Remaining(batch), Fills(batch))
<1>1. PICK n \in 0..Len(batch) : n = QuietPrefix(batch) /\ (depth > 0 => n = Len(batch)) BY PrefixBounds
<1>2. PICK fills : fills = IF depth > 0 THEN pending ELSE Buffered(pending, batch, n) OBVIOUS
<1>3. PICK rest : rest = SubSeq(batch, n + 1, Len(batch)) OBVIOUS
<1>4. Fills(batch) = fills /\ Remaining(batch) = rest BY <1>1, <1>2, <1>3 DEF Fills, Remaining
<1>5. /\ rest \in Seq(EventRecord) /\ Len(rest) = Len(batch) - n
      /\ \A i \in 1..(Len(batch) - n) : rest[i] = batch[n + i]
    BY <1>3
<1>6. fills \in Seq(EventRecord) /\ Buffer(fills) /\ FilledFrom(fills, pending, batch, n)
  <2>1. CASE depth > 0 BY <1>2, <2>1 DEF FilledFrom
  <2>2. CASE ~(depth > 0)
    <3>1. fills = Buffered(pending, batch, n) BY <1>2, <2>2
    <3> QED BY <3>1, BufferedKeeps
  <2> QED BY <2>1, <2>2
<1>7. Split(batch, n, rest, fills) BY <1>1, <1>2, <1>5, <1>6 DEF Split
<1> QED BY <1>4, <1>7

-----------------------------------------------------------------------------
(***************************************************************************)
(* Coroutines, and one of them going on.                                   *)
(***************************************************************************)
LEMMA Workplaces ==
    /\ \A p \in Panels : p \in Workers /\ p \notin Polls
    /\ \A q \in Polls : q \in Workers /\ q \notin Panels /\ q # NoPoll
    /\ MaxActs \in Nat /\ MaxLoads \in Nat /\ MaxCalls \in Nat
BY CaptureAssumption DEF Workers

LEMMA Fields ==
    ASSUME NEW c \in Coroutines
    PROVE  /\ c.pc \in Places /\ c.batch \in Seq(EventRecord) /\ c.fills \in Seq(EventRecord)
           /\ c.step \in EventRecord \cup {NoEvent} /\ c.after \in Places /\ c.cancelled \in BOOLEAN
           /\ c = [pc |-> c.pc, batch |-> c.batch, fills |-> c.fills, step |-> c.step, after |-> c.after,
                   cancelled |-> c.cancelled]
BY DEF Coroutines

LEMMA OverFits == Over \in Coroutines /\ Holding(Over) /\ Over.pc = "idle" /\ ~Over.cancelled
                  /\ Over.batch = <<>> /\ Over.fills = <<>>
<1>1. <<>> \in Seq(EventRecord) OBVIOUS
<1>2. Over \in Coroutines BY <1>1 DEF Over, Coroutines, Places
<1>3. /\ Over.pc = "idle" /\ ~Over.cancelled /\ Over.batch = <<>> /\ Over.fills = <<>> BY DEF Over
<1> QED BY <1>2, <1>3 DEF Holding, Buffer

\* Going somewhere else.
LEMMA Placed ==
    ASSUME NEW c \in Coroutines, NEW pc \in Places
    PROVE  LET d == [c EXCEPT !.pc = pc] IN
           /\ d \in Coroutines /\ d.pc = pc /\ d.batch = c.batch /\ d.fills = c.fills /\ d.step = c.step
           /\ d.after = c.after /\ d.cancelled = c.cancelled
           /\ Holding(c) /\ pc \notin {"own", "ranking"} => Holding(d)
<1> DEFINE d == [c EXCEPT !.pc = pc]
<1>1. /\ d \in Coroutines /\ d.pc = pc /\ d.batch = c.batch /\ d.fills = c.fills /\ d.step = c.step
      /\ d.after = c.after /\ d.cancelled = c.cancelled
    BY DEF Coroutines
<1> HIDE DEF d
<1>2. Holding(c) /\ pc \notin {"own", "ranking"} => Holding(d) BY <1>1 DEF Holding
<1> QED BY <1>1, <1>2 DEF d

\* Emitting a step.
LEMMA Emits ==
    ASSUME NEW c \in Coroutines, NEW x \in EventRecord, NEW after \in {"own", "taking", "flushing"}, NEW d,
           d = Emitting(c, x, after)
    PROVE  /\ d \in Coroutines /\ d.pc = "ranking" /\ d.batch = c.batch /\ d.fills = c.fills /\ d.step = x
           /\ d.after = after /\ d.cancelled = c.cancelled
           /\ Holding(c) /\ (after = "own" => c.batch # <<>>) => Holding(d)
<1>1. /\ d \in Coroutines /\ d.pc = "ranking" /\ d.batch = c.batch /\ d.fills = c.fills /\ d.step = x
      /\ d.after = after /\ d.cancelled = c.cancelled
    BY DEF Coroutines, Emitting, Places
<1> QED BY <1>1 DEF Holding

\* The rest of a list.
LEMMA TailFits ==
    ASSUME NEW list \in Seq(EventRecord), list # <<>>
    PROVE  /\ Tail(list) \in Seq(EventRecord) /\ Len(Tail(list)) = Len(list) - 1 /\ Len(list) \in Nat \ {0}
           /\ (\A i \in 1..(Len(list) - 1) : Tail(list)[i] = list[i + 1])
           /\ DOMAIN list = 1..Len(list) /\ DOMAIN Tail(list) = 1..(Len(list) - 1)
           /\ Head(list) = list[1] /\ 1 \in DOMAIN list /\ list[1] \in EventRecord
           /\ Buffer(list) => Buffer(Tail(list))
<1> DEFINE t == Tail(list)
<1>1. Len(list) \in Nat \ {0} /\ DOMAIN list = 1..Len(list) OBVIOUS
<1>2. t \in Seq(EventRecord) /\ Len(t) = Len(list) - 1 /\ \A i \in 1..(Len(list) - 1) : t[i] = list[i + 1]
    BY <1>1
<1>3. Head(list) = list[1] /\ 1 \in DOMAIN list /\ list[1] \in EventRecord BY <1>1
<1> HIDE DEF t
<1>4. DOMAIN t = 1..(Len(list) - 1) BY <1>2
<1>5. ASSUME Buffer(list) PROVE Buffer(t)
  <2>1. \A i \in DOMAIN t : i + 1 \in DOMAIN list /\ t[i] = list[i + 1] BY <1>1, <1>2, <1>4
  <2>2. \A i \in DOMAIN t : t[i].kind = "input" BY <1>5, <2>1 DEF Buffer
  <2>3. ASSUME NEW i \in DOMAIN t, NEW j \in DOMAIN t, t[i].key = t[j].key PROVE i = j
    <3>1. i + 1 = j + 1 BY <1>5, <2>1, <2>3 DEF Buffer
    <3> QED BY <3>1, <1>4
  <2> QED BY <2>2, <2>3 DEF Buffer
<1> QED BY <1>1, <1>2, <1>3, <1>4, <1>5 DEF t

\* A buffer is flushed from its head.
LEMMA EmitsFill ==
    ASSUME NEW c \in Coroutines, Holding(c), NEW x \in EventRecord, NEW rest \in Seq(EventRecord), Buffer(rest),
           NEW d, d = Emitting([c EXCEPT !.fills = rest], x, "flushing")
    PROVE  /\ d \in Coroutines /\ Holding(d) /\ d.pc = "ranking" /\ d.batch = c.batch
           /\ d.fills = rest /\ d.step = x /\ d.after = "flushing" /\ d.cancelled = c.cancelled
<1>1. /\ d \in Coroutines /\ d.pc = "ranking" /\ d.batch = c.batch
      /\ d.fills = rest /\ d.step = x /\ d.after = "flushing" /\ d.cancelled = c.cancelled
    BY DEF Coroutines, Emitting, Places
<1> QED BY <1>1 DEF Holding

LEMMA Flushes ==
    ASSUME NEW c \in Coroutines, Holding(c), NEW fills, NEW d
    PROVE  fills \in Seq(EventRecord) /\ fills # <<>> /\ Buffer(fills) /\ d = Flushing(c, fills) =>
           /\ d \in Coroutines /\ Holding(d) /\ d.pc = "ranking" /\ d.batch = c.batch
           /\ d.fills = Tail(fills) /\ d.step = fills[1] /\ d.after = "flushing" /\ d.cancelled = c.cancelled
<1>0. HAVE fills \in Seq(EventRecord) /\ fills # <<>> /\ Buffer(fills) /\ d = Flushing(c, fills)
<1>1. PICK rest : rest = Tail(fills) OBVIOUS
<1>2. PICK x : x = fills[1] OBVIOUS
<1>3. rest \in Seq(EventRecord) /\ Buffer(rest) /\ Head(fills) = x /\ x \in EventRecord
    BY <1>0, <1>1, <1>2, TailFits
<1>4. d = Emitting([c EXCEPT !.fills = rest], x, "flushing") BY <1>0, <1>1, <1>3 DEF Flushing
<1>5. /\ d \in Coroutines /\ Holding(d) /\ d.pc = "ranking" /\ d.batch = c.batch
      /\ d.fills = rest /\ d.step = x /\ d.after = "flushing" /\ d.cancelled = c.cancelled
    BY <1>3, <1>4, EmitsFill
<1> QED BY <1>1, <1>2, <1>5

\* One coroutine changes.
Becomes(w, d) == co' = [co EXCEPT ![w] = d]

LEMMA Changed ==
    ASSUME Typed, Held, NEW w \in Workers, NEW d \in Coroutines, Holding(d), Becomes(w, d)
    PROVE  /\ co' \in [Workers -> Coroutines] /\ co'[w] = d
           /\ (\A v \in Workers : v # w => co'[v] = co[v])
           /\ \A v \in Workers : Holding(co'[v])
<1>1. co' \in [Workers -> Coroutines] /\ co'[w] = d /\ (\A v \in Workers : v # w => co'[v] = co[v])
    BY DEF Typed, Becomes
<1> QED BY <1>1 DEF Held

-----------------------------------------------------------------------------
(***************************************************************************)
(* From the answer of the page to the next await (_process_capture_event). *)
(***************************************************************************)
\* What is known of a coroutine.
LEMMA Goer ==
    ASSUME Typed, Held, NEW w \in Workers
    PROVE  co[w] \in Coroutines /\ Holding(co[w]) /\ Buffer(pending) /\ pending \in Seq(EventRecord) /\ depth \in Nat
BY DEF Typed, Held

\* The head of the polling loop.
LEMMA AgainFits ==
    ASSUME NEW c \in Coroutines, Holding(c), NEW d, d = Again(c)
    PROVE  /\ d \in Coroutines /\ Holding(d) /\ (~c.cancelled => ~d.cancelled)
           /\ \/ recording /\ d.pc = "sleeping" /\ d.batch = c.batch /\ d.fills = c.fills
              \/ ~recording /\ d.pc = "idle" /\ d.batch = <<>> /\ d.fills = <<>>
<1>1. CASE recording
  <2>1. d = [c EXCEPT !.pc = "sleeping"] BY <1>1 DEF Again
  <2>2. "sleeping" \in Places /\ "sleeping" \notin {"own", "ranking"} BY DEF Places
  <2>3. /\ d \in Coroutines /\ d.pc = "sleeping" /\ d.batch = c.batch /\ d.fills = c.fills
        /\ d.cancelled = c.cancelled /\ Holding(d)
      BY <2>1, <2>2, Placed
  <2> QED BY <1>1, <2>3
<1>2. CASE ~recording
  <2>1. d = Over BY <1>2 DEF Again
  <2> QED BY <1>2, <2>1, OverFits
<1> QED BY <1>1, <1>2

\* The ways on from a batch of which n events were dealt with.
Passed(d, c, rest, fills) ==
    /\ rest = <<>> /\ fills = <<>> /\ pending' = <<>> /\ lastClick' = NoKey
    /\ d.pc \in {"sleeping", "idle"} /\ d.batch = <<>> /\ d.fills \in {c.fills, <<>>}
    /\ d.pc = "idle" => ~recording

FlushesNow(d, rest, fills) ==
    /\ rest = <<>> /\ fills # <<>> /\ pending' = fills /\ lastClick' = lastClick
    /\ d.pc = "ranking" /\ d.after = "flushing" /\ d.step = fills[1] /\ d.fills = Tail(fills) /\ d.batch = <<>>

FillIsFirst(d, c, rest, fills) ==
    /\ rest # <<>> /\ HasFill(fills, rest[1].key)
    /\ LET i == PlaceOf(fills, rest[1].key) IN pending' = RemoveAt(fills, i) /\ d.step = fills[i]
    /\ lastClick' = lastClick
    /\ d.pc = "ranking" /\ d.after = "own" /\ d.fills = c.fills /\ d.batch = rest

OwnComes(d, c, rest, fills) ==
    /\ rest # <<>> /\ ~HasFill(fills, rest[1].key) /\ pending' = fills
    /\ lastClick' = IF rest[1].kind = "click" THEN rest[1].key ELSE NoKey
    /\ d.pc = "ranking" /\ d.after = "taking" /\ d.step = rest[1] /\ d.fills = c.fills /\ d.batch = Tail(rest)

Goes4(d, c, rest, fills) ==
    \/ Passed(d, c, rest, fills) \/ FlushesNow(d, rest, fills)
    \/ FillIsFirst(d, c, rest, fills) \/ OwnComes(d, c, rest, fills)

LEMMA Rebatched ==
    ASSUME NEW c \in Coroutines, NEW batch \in Seq(EventRecord), NEW d, d = [c EXCEPT !.batch = batch]
    PROVE  /\ d \in Coroutines /\ d.pc = c.pc /\ d.batch = batch /\ d.fills = c.fills /\ d.step = c.step
           /\ d.after = c.after /\ d.cancelled = c.cancelled
BY DEF Coroutines

LEMMA EndGoes ==
    ASSUME NEW c \in Coroutines, Holding(c), c.pc = "taking", NEW q, c = co[q], NEW rest, NEW fills,
           NEW d, d = IF fills = <<>> THEN Again([c EXCEPT !.batch = <<>>])
                      ELSE Flushing([c EXCEPT !.batch = <<>>], fills)
    PROVE  fills \in Seq(EventRecord) /\ Buffer(fills) /\ BatchEnds(q, rest, fills) =>
           /\ d \in Coroutines /\ Holding(d) /\ (~c.cancelled => ~d.cancelled)
           /\ Becomes(q, d) /\ Goes4(d, c, rest, fills)
<1>0. HAVE fills \in Seq(EventRecord) /\ Buffer(fills) /\ BatchEnds(q, rest, fills)
<1>1. PICK b : b = [c EXCEPT !.batch = <<>>] OBVIOUS
<1>2. PICK none : none = <<>> OBVIOUS
<1>3. none \in Seq(EventRecord) BY <1>2
<1>4. b \in Coroutines /\ b.pc = c.pc /\ b.batch = <<>> /\ b.fills = c.fills /\ b.cancelled = c.cancelled
      /\ b.step = c.step /\ b.after = c.after
  <2>1. b = [c EXCEPT !.batch = none] BY <1>1, <1>2
  <2>2. /\ b \in Coroutines /\ b.pc = c.pc /\ b.batch = none /\ b.fills = c.fills /\ b.cancelled = c.cancelled
        /\ b.step = c.step /\ b.after = c.after
      BY <1>3, <2>1, Rebatched
  <2> QED BY <1>2, <2>2
<1>5. Holding(b) BY <1>4 DEF Holding
<1>6. /\ rest = <<>> /\ pending' = fills /\ lastClick' = (IF fills = <<>> THEN NoKey ELSE lastClick)
      /\ Becomes(q, d)
    BY <1>0, <1>1 DEF BatchEnds, Becomes
<1>7. CASE fills = <<>>
  <2>1. d = Again(b) BY <1>1, <1>7
  <2>2. /\ d \in Coroutines /\ Holding(d) /\ (~b.cancelled => ~d.cancelled)
        /\ \/ recording /\ d.pc = "sleeping" /\ d.batch = b.batch /\ d.fills = b.fills
           \/ ~recording /\ d.pc = "idle" /\ d.batch = <<>> /\ d.fills = <<>>
      BY <1>4, <1>5, <2>1, AgainFits
  <2>3. Passed(d, c, rest, fills) BY <1>4, <1>6, <1>7, <2>2 DEF Passed
  <2> QED BY <1>4, <1>6, <2>2, <2>3 DEF Goes4
<1>8. CASE fills # <<>>
  <2>1. d = Flushing(b, fills) BY <1>1, <1>8
  <2>2. /\ d \in Coroutines /\ Holding(d) /\ d.pc = "ranking" /\ d.batch = b.batch
        /\ d.fills = Tail(fills) /\ d.step = fills[1] /\ d.after = "flushing" /\ d.cancelled = b.cancelled
    <3>1. fills \in Seq(EventRecord) /\ Buffer(fills) BY <1>0
    <3>2. b \in Coroutines BY <1>4
    <3> QED BY <1>5, <1>8, <2>1, <3>1, <3>2, Flushes
  <2>3. FlushesNow(d, rest, fills) BY <1>4, <1>6, <1>8, <2>2 DEF FlushesNow
  <2> QED BY <1>4, <1>6, <2>2, <2>3 DEF Goes4
<1> QED BY <1>7, <1>8

LEMMA FirstGoes ==
    ASSUME NEW c \in Coroutines, Holding(c), c.pc = "taking", NEW q, c = co[q], NEW rest, NEW fills
    PROVE  rest \in Seq(EventRecord) /\ fills \in Seq(EventRecord) /\ Buffer(fills) /\ FillComesFirst(q, rest, fills) =>
           \E d : /\ d \in Coroutines /\ Holding(d) /\ (~c.cancelled => ~d.cancelled)
                  /\ Becomes(q, d) /\ Goes4(d, c, rest, fills)
<1>0. HAVE rest \in Seq(EventRecord) /\ fills \in Seq(EventRecord) /\ Buffer(fills) /\ FillComesFirst(q, rest, fills)
<1>1. PICK b : b = [c EXCEPT !.batch = rest] OBVIOUS
<1>2. b \in Coroutines /\ b.pc = c.pc /\ b.batch = rest /\ b.fills = c.fills /\ b.cancelled = c.cancelled
    BY <1>0, <1>1, Rebatched
<1>3. Holding(b) BY <1>2 DEF Holding
<1>4. PICK i : i = PlaceOf(fills, rest[1].key) OBVIOUS
<1>5. PICK x : x = fills[i] OBVIOUS
<1>6. PICK d : d = Emitting(b, x, "own") OBVIOUS
<1>7. /\ rest # <<>> /\ HasFill(fills, rest[1].key) /\ pending' = RemoveAt(fills, i) /\ lastClick' = lastClick
      /\ Becomes(q, d)
    BY <1>0, <1>1, <1>4, <1>5, <1>6 DEF FillComesFirst, Becomes
<1>8. x \in EventRecord
  <2>1. i \in DOMAIN fills BY <1>4, <1>7 DEF HasFill, PlaceOf
  <2> QED BY <1>0, <1>5, <2>1
<1>9. /\ d \in Coroutines /\ d.pc = "ranking" /\ d.batch = rest /\ d.fills = c.fills /\ d.step = x
      /\ d.after = "own" /\ d.cancelled = c.cancelled
    BY <1>2, <1>6, <1>8, Emits
<1>10. Holding(d) BY <1>3, <1>7, <1>8, <1>9, <1>2 DEF Holding
<1>11. FillIsFirst(d, c, rest, fills) BY <1>4, <1>5, <1>7, <1>9 DEF FillIsFirst
<1> QED BY <1>7, <1>9, <1>10, <1>11 DEF Goes4

LEMMA OwnGoes ==
    ASSUME NEW c \in Coroutines, Holding(c), NEW q, c = co[q], NEW rest, NEW x
    PROVE  rest \in Seq(EventRecord) /\ rest # <<>> /\ x = rest[1] =>
           \E d : /\ d = EmitOwn([c EXCEPT !.batch = rest], x)
                  /\ d \in Coroutines /\ Holding(d) /\ d.cancelled = c.cancelled
                  /\ d.pc = "ranking" /\ d.after = "taking" /\ d.step = x /\ d.fills = c.fills /\ d.batch = Tail(rest)
<1>0. HAVE rest \in Seq(EventRecord) /\ rest # <<>> /\ x = rest[1]
<1>1. PICK tail : tail = Tail(rest) OBVIOUS
<1>2. tail \in Seq(EventRecord) /\ x \in EventRecord BY <1>0, <1>1, TailFits
<1>3. PICK b : b = [c EXCEPT !.batch = tail] OBVIOUS
<1>4. b \in Coroutines /\ b.pc = c.pc /\ b.batch = tail /\ b.fills = c.fills /\ b.cancelled = c.cancelled
    BY <1>2, <1>3, Rebatched
<1>5. PICK d : d = Emitting(b, x, "taking") OBVIOUS
<1>6. d = EmitOwn([c EXCEPT !.batch = rest], x)
  <2>1. c = [pc |-> c.pc, batch |-> c.batch, fills |-> c.fills, step |-> c.step, after |-> c.after,
             cancelled |-> c.cancelled]
      BY Fields
  <2>2. [[c EXCEPT !.batch = rest] EXCEPT !.batch = Tail(rest)] = b BY <1>1, <1>3, <2>1
  <2>3. [c EXCEPT !.batch = rest].batch = rest BY <2>1
  <2> QED BY <1>5, <2>2, <2>3 DEF EmitOwn
<1>7. /\ d \in Coroutines /\ d.pc = "ranking" /\ d.batch = tail /\ d.fills = c.fills /\ d.step = x
      /\ d.after = "taking" /\ d.cancelled = c.cancelled
  <2>1. x \in EventRecord BY <1>2
  <2>2. b \in Coroutines BY <1>4
  <2>3. /\ d \in Coroutines /\ d.pc = "ranking" /\ d.batch = b.batch /\ d.fills = b.fills /\ d.step = x
        /\ d.after = "taking" /\ d.cancelled = b.cancelled
      BY <1>5, <2>1, <2>2, Emits
  <2> QED BY <1>4, <2>3
<1>8. Holding(d) BY <1>2, <1>7 DEF Holding
<1> QED BY <1>1, <1>6, <1>7, <1>8

\* The four ways on from a batch.
LEMMA ProcessGoes ==
    ASSUME Typed, Held, NEW q \in Polls, Process(q)
    PROVE  \E n \in 0..Len(co[q].batch) : \E rest, fills, d :
              /\ Split(co[q].batch, n, rest, fills)
              /\ d \in Coroutines /\ Holding(d) /\ ~d.cancelled
              /\ Becomes(q, d) /\ Goes4(d, co[q], rest, fills)
<1>1. PICK c : c = co[q] OBVIOUS
<1>2. c \in Coroutines /\ Holding(c) BY <1>1, Goer, Workplaces
<1>3. c.pc = "taking" /\ ~c.cancelled /\ c.batch \in Seq(EventRecord) BY <1>1, <1>2, Fields DEF Process
<1>4. PICK n \in 0..Len(c.batch) : Split(c.batch, n, Remaining(c.batch), Fills(c.batch))
    BY <1>3, Goer, Workplaces, Rest
<1>5. PICK rest : rest = Remaining(c.batch) OBVIOUS
<1>6. PICK fills : fills = Fills(c.batch) OBVIOUS
<1>7. Split(c.batch, n, rest, fills) BY <1>4, <1>5, <1>6
<1>8. rest \in Seq(EventRecord) /\ fills \in Seq(EventRecord) /\ Buffer(fills) BY <1>7 DEF Split
<1>9. \/ BatchEnds(q, rest, fills)
      \/ FillComesFirst(q, rest, fills)
      \/ ~(rest # <<>> /\ HasFill(fills, rest[1].key)) /\ EventComesOut(q, rest, fills)
    BY <1>1, <1>5, <1>6 DEF Process
<1>10. CASE BatchEnds(q, rest, fills)
  <2>1. PICK d : d = IF fills = <<>> THEN Again([c EXCEPT !.batch = <<>>])
                     ELSE Flushing([c EXCEPT !.batch = <<>>], fills)
      OBVIOUS
  <2>2. /\ d \in Coroutines /\ Holding(d) /\ (~c.cancelled => ~d.cancelled)
        /\ Becomes(q, d) /\ Goes4(d, c, rest, fills)
      BY <1>1, <1>2, <1>3, <1>8, <1>10, <2>1, EndGoes
  <2> QED BY <1>1, <1>3, <1>7, <2>2
<1>11. CASE FillComesFirst(q, rest, fills) BY <1>1, <1>2, <1>3, <1>7, <1>8, <1>11, FirstGoes
<1>12. CASE ~(rest # <<>> /\ HasFill(fills, rest[1].key)) /\ EventComesOut(q, rest, fills)
  <2>1. PICK x : x = rest[1] OBVIOUS
  <2>2. rest # <<>> BY <1>12 DEF EventComesOut
  <2>3. PICK d : /\ d = EmitOwn([c EXCEPT !.batch = rest], x)
                 /\ d \in Coroutines /\ Holding(d) /\ d.cancelled = c.cancelled
                 /\ d.pc = "ranking" /\ d.after = "taking" /\ d.step = x /\ d.fills = c.fills /\ d.batch = Tail(rest)
      BY <1>1, <1>2, <1>8, <2>1, <2>2, OwnGoes
  <2>4. Becomes(q, d) BY <1>1, <1>12, <2>1, <2>3 DEF EventComesOut, Becomes
  <2>5. OwnComes(d, c, rest, fills) BY <1>12, <2>1, <2>2, <2>3 DEF EventComesOut, OwnComes
  <2> QED BY <1>1, <1>3, <1>7, <2>3, <2>4, <2>5 DEF Goes4
<1> QED BY <1>9, <1>10, <1>11, <1>12

-----------------------------------------------------------------------------
(***************************************************************************)
(* The turns of a poll.                                                    *)
(***************************************************************************)
\* The coroutine's next record, d, fits.
Fit(w, d) == Becomes(w, d) /\ d \in Coroutines /\ Holding(d)

Looped(d, c) ==
    /\ ~c.cancelled => ~d.cancelled
    /\ \/ recording /\ d.pc = "sleeping" /\ d.batch = c.batch /\ d.fills = c.fills
       \/ ~recording /\ d.pc = "idle" /\ d.batch = <<>> /\ d.fills = <<>>

Stays(d, c, pc) ==
    d.pc = pc /\ d.batch = c.batch /\ d.fills = c.fills /\ d.cancelled = c.cancelled

LEMMA RankedGoes ==
    ASSUME Typed, Held, NEW w \in Workers, Ranked(w)
    PROVE  /\ co[w].step \in EventRecord /\ steps' = Append(steps, co[w].step)
           /\ co[w].pc = "ranking" /\ ~co[w].cancelled /\ co[w].after \in {"own", "taking", "flushing"}
           /\ \E d : Fit(w, d) /\ Stays(d, co[w], co[w].after)
<1>1. PICK c : c = co[w] OBVIOUS
<1>2. c \in Coroutines /\ Holding(c) BY <1>1, Goer
<1>3. c.pc = "ranking" /\ ~c.cancelled /\ steps' = Append(steps, c.step) BY <1>1 DEF Ranked
<1>4. c.step \in EventRecord /\ c.after \in {"own", "taking", "flushing"} BY <1>2, <1>3 DEF Holding
<1>5. PICK d : d = [c EXCEPT !.pc = c.after, !.step = NoEvent] OBVIOUS
<1>6. d \in Coroutines /\ Stays(d, c, c.after) BY <1>2, <1>4, <1>5 DEF Coroutines, Stays, Places
<1>7. Holding(d) BY <1>2, <1>3, <1>4, <1>6 DEF Holding, Stays
<1>8. Becomes(w, d) BY <1>1, <1>5 DEF Ranked, Becomes
<1> QED BY <1>1, <1>3, <1>4, <1>6, <1>7, <1>8 DEF Fit

LEMMA FlushMoreGoes ==
    ASSUME Typed, Held, NEW w \in Workers, FlushMore(w)
    PROVE  /\ co[w].fills # <<>> /\ co[w].pc = "flushing" /\ ~co[w].cancelled
           /\ \E d : /\ Fit(w, d) /\ d.pc = "ranking" /\ d.after = "flushing" /\ d.batch = co[w].batch
                     /\ d.fills = Tail(co[w].fills) /\ d.step = co[w].fills[1] /\ d.cancelled = co[w].cancelled
<1>1. PICK c : c = co[w] OBVIOUS
<1>2. c \in Coroutines /\ Holding(c) BY <1>1, Goer
<1>3. c.pc = "flushing" /\ ~c.cancelled /\ c.fills # <<>> BY <1>1 DEF FlushMore
<1>4. PICK d : d = Flushing(c, c.fills) OBVIOUS
<1>5. c.fills \in Seq(EventRecord) /\ Buffer(c.fills) BY <1>2, Fields DEF Holding
<1>6. /\ d \in Coroutines /\ Holding(d) /\ d.pc = "ranking" /\ d.batch = c.batch
      /\ d.fills = Tail(c.fills) /\ d.step = c.fills[1] /\ d.after = "flushing" /\ d.cancelled = c.cancelled
    BY <1>2, <1>3, <1>4, <1>5, Flushes
<1>7. Becomes(w, d) BY <1>1, <1>4 DEF FlushMore, Becomes
<1> QED BY <1>1, <1>3, <1>6, <1>7 DEF Fit

LEMMA FlushedGoes ==
    ASSUME Typed, Held, NEW w \in Workers, Flushed(w)
    PROVE  /\ co[w].fills = <<>> /\ co[w].pc = "flushing" /\ ~co[w].cancelled /\ pending' = <<>>
           /\ \E d : /\ Fit(w, d)
                     /\ IF w \in Polls THEN Looped(d, co[w]) ELSE Stays(d, co[w], "disarming")
<1>1. PICK c : c = co[w] OBVIOUS
<1>2. c \in Coroutines /\ Holding(c) BY <1>1, Goer
<1>3. c.pc = "flushing" /\ ~c.cancelled /\ c.fills = <<>> /\ pending' = <<>> BY <1>1 DEF Flushed
<1>4. CASE w \in Polls
  <2>1. PICK d : d = Again(c) OBVIOUS
  <2>2. d \in Coroutines /\ Holding(d) /\ Looped(d, c) BY <1>2, <2>1, AgainFits DEF Looped
  <2>3. Becomes(w, d) BY <1>1, <1>4, <2>1 DEF Flushed, Becomes
  <2> QED BY <1>1, <1>3, <1>4, <2>2, <2>3 DEF Fit
<1>5. CASE w \notin Polls
  <2>1. PICK d : d = [c EXCEPT !.pc = "disarming"] OBVIOUS
  <2>2. "disarming" \in Places /\ "disarming" \notin {"own", "ranking"} BY DEF Places
  <2>3. d \in Coroutines /\ Holding(d) /\ Stays(d, c, "disarming") BY <1>2, <2>1, <2>2, Placed DEF Stays
  <2>4. Becomes(w, d) BY <1>1, <1>5, <2>1 DEF Flushed, Goes, Becomes
  <2> QED BY <1>1, <1>3, <1>5, <2>3, <2>4 DEF Fit
<1> QED BY <1>4, <1>5

LEMMA LoopGoes ==
    ASSUME Typed, Held, NEW q \in Polls, Begin(q) \/ DrainRaises(q)
    PROVE  /\ ~co[q].cancelled /\ co[q].pc \in {"created", "sleeping"}
           /\ \E d : Fit(q, d) /\ Looped(d, co[q])
<1>1. PICK c : c = co[q] OBVIOUS
<1>2. c \in Coroutines /\ Holding(c) BY <1>1, Goer, Workplaces
<1>3. PICK d : d = Again(c) OBVIOUS
<1>4. d \in Coroutines /\ Holding(d) /\ Looped(d, c) BY <1>2, <1>3, AgainFits DEF Looped
<1>5. Becomes(q, d) /\ ~c.cancelled /\ c.pc \in {"created", "sleeping"}
    BY <1>1, <1>3 DEF Begin, DrainRaises, Becomes
<1> QED BY <1>1, <1>4, <1>5 DEF Fit

LEMMA DrainGoes ==
    ASSUME Typed, Held, NEW q \in Polls, Drain(q)
    PROVE  /\ ~co[q].cancelled /\ co[q].pc = "sleeping" /\ queue' = <<>>
           /\ \E d : /\ Fit(q, d) /\ d.pc = "taking" /\ d.batch = queue /\ d.fills = co[q].fills
                     /\ d.cancelled = co[q].cancelled
<1>1. PICK c : c = co[q] OBVIOUS
<1>2. c \in Coroutines /\ Holding(c) /\ queue \in Seq(EventRecord) BY <1>1, Goer, Workplaces DEF Typed
<1>3. PICK d : d = [c EXCEPT !.pc = "taking", !.batch = queue] OBVIOUS
<1>4. d \in Coroutines /\ d.pc = "taking" /\ d.batch = queue /\ d.fills = c.fills /\ d.cancelled = c.cancelled
    BY <1>2, <1>3 DEF Coroutines, Places
<1>5. Holding(d) BY <1>2, <1>4 DEF Holding
<1>6. Becomes(q, d) /\ ~c.cancelled /\ c.pc = "sleeping" /\ queue' = <<>> BY <1>1, <1>3 DEF Drain, Becomes
<1> QED BY <1>1, <1>4, <1>5, <1>6 DEF Fit

\* The second click is skipped; or the event comes out.
Skips(d, c) ==
    /\ d.pc = "taking" /\ d.batch = Tail(c.batch) /\ d.fills = c.fills
    /\ lastClick' = lastClick

ComesOut(d, c) ==
    /\ d.pc = "ranking" /\ d.after = "taking" /\ d.step = c.batch[1] /\ d.batch = Tail(c.batch) /\ d.fills = c.fills
    /\ lastClick' = IF c.batch[1].kind = "click" THEN c.batch[1].key ELSE NoKey

LEMMA ProcessOwnGoes ==
    ASSUME Typed, Held, NEW q \in Polls, ProcessOwn(q)
    PROVE  /\ ~co[q].cancelled /\ co[q].pc = "own" /\ co[q].batch # <<>>
           /\ \E d : Fit(q, d) /\ (Skips(d, co[q]) \/ ComesOut(d, co[q])) /\ d.cancelled = co[q].cancelled
<1>1. PICK c : c = co[q] OBVIOUS
<1>2. c \in Coroutines /\ Holding(c) BY <1>1, Goer, Workplaces
<1>3. PICK rest : rest = c.batch OBVIOUS
<1>4. PICK x : x = rest[1] OBVIOUS
<1>5. PICK tail : tail = Tail(rest) OBVIOUS
<1>6. ~c.cancelled /\ c.pc = "own" /\ rest # <<>> BY <1>1, <1>2, <1>3 DEF ProcessOwn, Holding
<1>7. rest \in Seq(EventRecord) BY <1>2, <1>3, Fields
<1>8. Head(rest) = x BY <1>4, <1>6, <1>7
<1>9. CASE x.kind = "click" /\ x.key = lastClick
  <2>1. tail \in Seq(EventRecord) BY <1>5, <1>6, <1>7, TailFits
  <2>2. PICK d : d = [c EXCEPT !.pc = "taking", !.batch = tail] OBVIOUS
  <2>3. d \in Coroutines /\ d.pc = "taking" /\ d.batch = tail /\ d.fills = c.fills /\ d.cancelled = c.cancelled
      BY <1>2, <2>1, <2>2 DEF Coroutines, Places
  <2>4. Holding(d) BY <1>2, <2>3 DEF Holding
  <2>5. co' = [co EXCEPT ![q].pc = "taking", ![q].batch = Tail(@)] /\ lastClick' = lastClick
      BY <1>1, <1>3, <1>8, <1>9 DEF ProcessOwn
  <2>6. Becomes(q, d)
    <3>1. [co EXCEPT ![q].pc = "taking", ![q].batch = Tail(@)]
            = [co EXCEPT ![q] = [co[q] EXCEPT !.pc = "taking", !.batch = Tail(co[q].batch)]]
        BY <1>1, <1>2, Workplaces DEF Typed, Coroutines
    <3> QED BY <1>1, <1>3, <1>5, <2>2, <2>5, <3>1 DEF Becomes
  <2>7. Skips(d, c) BY <1>3, <1>5, <2>3, <2>5 DEF Skips
  <2> QED BY <1>1, <1>3, <1>6, <2>3, <2>4, <2>6, <2>7 DEF Fit
<1>10. CASE ~(x.kind = "click" /\ x.key = lastClick)
  <2>1. PICK d : /\ d = EmitOwn([c EXCEPT !.batch = rest], x)
                 /\ d \in Coroutines /\ Holding(d) /\ d.cancelled = c.cancelled
                 /\ d.pc = "ranking" /\ d.after = "taking" /\ d.step = x /\ d.fills = c.fills /\ d.batch = Tail(rest)
      BY <1>1, <1>2, <1>4, <1>6, <1>7, OwnGoes
  <2>2. [c EXCEPT !.batch = rest] = c BY <1>2, <1>3 DEF Coroutines
  <2>3. co' = [co EXCEPT ![q] = EmitOwn(c, x)] /\ lastClick' = IF x.kind = "click" THEN x.key ELSE NoKey
      BY <1>1, <1>3, <1>8, <1>10 DEF ProcessOwn
  <2>4. Becomes(q, d) BY <2>1, <2>2, <2>3 DEF Becomes
  <2>5. ComesOut(d, c) BY <1>3, <1>4, <2>1, <2>3 DEF ComesOut
  <2> QED BY <1>1, <1>3, <1>6, <2>1, <2>4, <2>5 DEF Fit
<1> QED BY <1>9, <1>10

LEMMA UnwindGoes ==
    ASSUME Typed, Held, NEW q \in Polls, Unwind(q)
    PROVE  Fit(q, Over)
BY OverFits DEF Unwind, Fit, Becomes

-----------------------------------------------------------------------------
(***************************************************************************)
(* The turns of a handler.                                                 *)
(***************************************************************************)
CoFits == co' \in [Workers -> Coroutines] /\ \A v \in Workers : Holding(co'[v])

LEMMA FitFits ==
    ASSUME Typed, Held, NEW w \in Workers, NEW d, Fit(w, d)
    PROVE  CoFits /\ co'[w] = d /\ (\A v \in Workers : v # w => co'[v] = co[v])
BY Changed DEF Fit, CoFits

LEMMA PlaceGoes ==
    ASSUME Typed, Held, NEW w \in Workers, NEW pc \in Places \ {"own", "ranking"}, Goes(w, pc)
    PROVE  CoFits /\ Stays(co'[w], co[w], pc) /\ (\A v \in Workers : v # w => co'[v] = co[v])
<1>1. PICK c : c = co[w] OBVIOUS
<1>2. c \in Coroutines /\ Holding(c) BY <1>1, Goer
<1>3. PICK d : d = [c EXCEPT !.pc = pc] OBVIOUS
<1>4. d \in Coroutines /\ Holding(d) /\ Stays(d, c, pc) BY <1>2, <1>3, Placed DEF Stays
<1>5. Becomes(w, d)
  <2>1. co' = [co EXCEPT ![w] = [co[w] EXCEPT !.pc = pc]] BY DEF Goes
  <2> QED BY <1>1, <1>3, <2>1 DEF Becomes
<1>6. Fit(w, d) BY <1>4, <1>5 DEF Fit
<1> QED BY <1>1, <1>4, <1>6, FitFits

LEMMA ArmGoes ==
    ASSUME Typed, Held, NEW p \in Panels, Arm(p)
    PROVE  \E q \in Polls :
             /\ co[q] = Over /\ pollTask' = q /\ CoFits /\ co'[p] = Over
             /\ Stays(co'[q], Over, "created")
             /\ \A v \in Workers : v # p /\ v # q => co'[v] = co[v]
<1>1. PICK q \in Polls : co[q] = Over /\ pollTask' = q /\ co' = [co EXCEPT ![q].pc = "created", ![p] = Over]
    BY DEF Arm
<1>2. q \in Workers /\ p \in Workers /\ p # q BY Workplaces
<1>3. PICK d : d = [Over EXCEPT !.pc = "created"] OBVIOUS
<1>4. "created" \in Places /\ "created" \notin {"own", "ranking"} BY DEF Places
<1>5. d \in Coroutines /\ Holding(d) /\ Stays(d, Over, "created") BY <1>3, <1>4, OverFits, Placed DEF Stays
<1>6. co \in [Workers -> Coroutines] /\ \A v \in Workers : Holding(co[v]) BY DEF Typed, Held
<1>7. co' = [co EXCEPT ![q] = d, ![p] = Over] BY <1>1, <1>2, <1>3, <1>6
<1>8. /\ co' \in [Workers -> Coroutines] /\ co'[q] = d /\ co'[p] = Over
      /\ \A v \in Workers : v # p /\ v # q => co'[v] = co[v]
    BY <1>2, <1>5, <1>6, <1>7, OverFits
<1>9. CoFits BY <1>5, <1>6, <1>8, OverFits DEF CoFits
<1> QED BY <1>1, <1>5, <1>8, <1>9

\* A stopped poll: nothing but the mark.
Marked(d, c) == d.pc = c.pc /\ d.batch = c.batch /\ d.fills = c.fills /\ d.step = c.step /\ d.after = c.after

Flushed1(d, c) ==
    /\ d.pc = "ranking" /\ d.after = "flushing" /\ d.batch = c.batch /\ d.fills = Tail(pending)
    /\ d.step = pending[1] /\ d.cancelled = c.cancelled

\* Stopping marks the poll and begins to flush.
LEMMA StopGoes ==
    ASSUME Typed, Held, NEW p \in Panels, Stop(p)
    PROVE  /\ CoFits /\ co[p].pc = "idle" /\ ~recording' /\ pollTask' = NoPoll
           /\ IF pending = <<>> THEN Stays(co'[p], co[p], "disarming") ELSE Flushed1(co'[p], co[p])
           /\ \A q \in Polls : /\ Marked(co'[q], co[q])
                               /\ co[q].cancelled => co'[q].cancelled
                               /\ q = pollTask => co[q] = Over \/ co'[q].cancelled
           /\ \A v \in Panels : v # p => co'[v] = co[v]
<1>1. PICK c : c = co[p] OBVIOUS
<1>2. c \in Coroutines /\ Holding(c) /\ Buffer(pending) /\ pending \in Seq(EventRecord) /\ p \in Workers
    BY <1>1, Goer, Workplaces
<1>3. PICK d : d = IF pending = <<>> THEN [c EXCEPT !.pc = "disarming"] ELSE Flushing(c, pending) OBVIOUS
<1>4. /\ d \in Coroutines /\ Holding(d)
      /\ IF pending = <<>> THEN Stays(d, c, "disarming") ELSE Flushed1(d, c)
  <2>1. CASE pending = <<>>
    <3>1. "disarming" \in Places /\ "disarming" \notin {"own", "ranking"} BY DEF Places
    <3> QED BY <1>2, <1>3, <2>1, <3>1, Placed DEF Stays
  <2>2. CASE pending # <<>>
    <3>1. d = Flushing(c, pending) BY <1>3, <2>2
    <3>2. /\ d \in Coroutines /\ Holding(d) /\ d.pc = "ranking" /\ d.batch = c.batch
          /\ d.fills = Tail(pending) /\ d.step = pending[1] /\ d.after = "flushing" /\ d.cancelled = c.cancelled
        BY <1>2, <2>2, <3>1, Flushes
    <3> QED BY <2>2, <3>2 DEF Flushed1
  <2> QED BY <2>1, <2>2
<1>5. PICK mid : mid = Cancelled OBVIOUS
<1>6. /\ mid \in [Workers -> Coroutines] /\ (\A v \in Workers : Holding(mid[v]))
      /\ (\A v \in Panels : mid[v] = co[v])
      /\ \A q \in Polls : /\ Marked(mid[q], co[q])
                          /\ co[q].cancelled => mid[q].cancelled
                          /\ q = pollTask => co[q] = Over \/ mid[q].cancelled
  <2>0. co \in [Workers -> Coroutines] /\ (\A v \in Workers : Holding(co[v])) /\ pollTask \in Polls \cup {NoPoll}
      BY DEF Typed, Held
  <2>1. CASE pollTask = NoPoll \/ co[pollTask] = Over
    <3>1. mid = co BY <1>5, <2>1 DEF Cancelled
    <3> QED BY <2>0, <2>1, <3>1, Workplaces DEF Marked
  <2>2. CASE ~(pollTask = NoPoll \/ co[pollTask] = Over)
    <3>1. mid = [co EXCEPT ![pollTask].cancelled = TRUE] BY <1>5, <2>2 DEF Cancelled
    <3>2. pollTask \in Polls /\ pollTask \in Workers BY <2>0, <2>2, Workplaces
    <3>3. PICK e : e = [co[pollTask] EXCEPT !.cancelled = TRUE] OBVIOUS
    <3>4. co[pollTask] \in Coroutines /\ Holding(co[pollTask]) BY <2>0, <3>2
    <3>5. e \in Coroutines /\ Marked(e, co[pollTask]) /\ e.cancelled BY <3>3, <3>4 DEF Coroutines, Marked
    <3>6. Holding(e) BY <3>4, <3>5 DEF Holding, Marked
    <3>7. /\ mid \in [Workers -> Coroutines] /\ mid[pollTask] = e
          /\ \A v \in Workers : v # pollTask => mid[v] = co[v]
        BY <2>0, <3>1, <3>2, <3>3, <3>5
    <3>8. \A v \in Workers : Holding(mid[v]) BY <2>0, <3>6, <3>7
    <3>9. \A v \in Panels : mid[v] = co[v] BY <3>2, <3>7, Workplaces
    <3>10. ASSUME NEW q \in Polls
           PROVE  /\ Marked(mid[q], co[q]) /\ (co[q].cancelled => mid[q].cancelled)
                  /\ q = pollTask => co[q] = Over \/ mid[q].cancelled
      <4>1. CASE q = pollTask BY <3>5, <3>7, <4>1
      <4>2. CASE q # pollTask BY <3>7, <4>2, Workplaces DEF Marked
      <4> QED BY <4>1, <4>2
    <3> QED BY <3>7, <3>8, <3>9, <3>10
  <2> QED BY <2>1, <2>2
<1>7. /\ co[p].pc = "idle" /\ ~recording' /\ pollTask' = NoPoll
      /\ co' = [mid EXCEPT ![p] = IF pending = <<>> THEN [@ EXCEPT !.pc = "disarming"] ELSE Flushing(@, pending)]
    BY <1>5 DEF Stop, Called
<1>8. mid[p] = c BY <1>1, <1>6
<1>9. co' = [mid EXCEPT ![p] = d] BY <1>2, <1>3, <1>6, <1>7, <1>8
<1>10. /\ co' \in [Workers -> Coroutines] /\ co'[p] = d /\ \A v \in Workers : v # p => co'[v] = mid[v]
    BY <1>2, <1>4, <1>6, <1>9
<1>11. CoFits BY <1>4, <1>6, <1>10 DEF CoFits
<1>12. \A q \in Polls : co'[q] = mid[q] BY <1>10, Workplaces
<1>13. \A v \in Panels : v # p => co'[v] = co[v] BY <1>6, <1>10, Workplaces
<1>14. IF pending = <<>> THEN Stays(co'[p], co[p], "disarming") ELSE Flushed1(co'[p], co[p])
    BY <1>1, <1>4, <1>10
<1>15. \A q \in Polls : /\ Marked(co'[q], co[q])
                        /\ co[q].cancelled => co'[q].cancelled
                        /\ q = pollTask => co[q] = Over \/ co'[q].cancelled
    BY <1>6, <1>12
<1> QED BY <1>7, <1>11, <1>13, <1>14, <1>15

-----------------------------------------------------------------------------
(***************************************************************************)
(* The types hold in every reachable state.                                *)
(***************************************************************************)
\* The types of all but the coroutines.
PlainTyped ==
    /\ installed \in BOOLEAN /\ armed \in BOOLEAN /\ queue \in Seq(EventRecord)
    /\ injected \in BOOLEAN /\ recording \in BOOLEAN /\ pollTask \in Polls \cup {NoPoll}
    /\ pending \in Seq(EventRecord) /\ Buffer(pending) /\ lastClick \in Keys \cup {NoKey} /\ depth \in Nat
    /\ steps \in Seq(EventRecord)
    /\ used \in [acts : 0..MaxActs, loads : 0..MaxLoads, calls : 0..MaxCalls]

LEMMA Plain == Typed /\ Held <=> PlainTyped /\ co \in [Workers -> Coroutines] /\ \A v \in Workers : Holding(co[v])
BY DEF Typed, Held, PlainTyped

\* What an act adds to the queue.
NewEvent(x, by) == x \in EventRecord /\ x.id = used.acts + 1 /\ x.by = by

LEMMA ActGoes ==
    ASSUME Typed, NEW by \in {"user", "agent"}, Act(by)
    PROVE  /\ used' \in [acts : 0..MaxActs, loads : 0..MaxLoads, calls : 0..MaxCalls]
           /\ used'.acts = used.acts + 1 /\ used'.loads = used.loads /\ armed
           /\ \E x : NewEvent(x, by) /\ queue' = Append(queue, x)
           /\ UNCHANGED <<installed, armed, stateVars, co, steps, seen>>
<1>1. used.acts \in 0..MaxActs /\ used.acts < MaxActs /\ MaxActs \in Nat BY Workplaces DEF Typed, Act
<1>2. /\ used' \in [acts : 0..MaxActs, loads : 0..MaxLoads, calls : 0..MaxCalls]
      /\ used'.acts = used.acts + 1 /\ used'.loads = used.loads
  <2>1. used.acts + 1 \in 0..MaxActs BY <1>1
  <2>2. used' = [used EXCEPT !.acts = used.acts + 1] BY DEF Act
  <2>3. used \in [acts : 0..MaxActs, loads : 0..MaxLoads, calls : 0..MaxCalls] BY DEF Typed
  <2> QED BY <2>1, <2>2, <2>3
<1>3. PICK kind \in Kinds, k \in Keys :
        queue' = Append(queue, [id |-> used'.acts, kind |-> kind, key |-> k, by |-> by])
    BY DEF Act
<1>4. NewEvent([id |-> used'.acts, kind |-> kind, key |-> k, by |-> by], by)
    BY <1>1, <1>2 DEF NewEvent, EventRecord
<1> QED BY <1>2, <1>3, <1>4 DEF Act

LEMMA CallTyped ==
    ASSUME Typed, NEW p, Called(p)
    PROVE  used' \in [acts : 0..MaxActs, loads : 0..MaxLoads, calls : 0..MaxCalls]
           /\ used'.acts = used.acts /\ used'.loads = used.loads
<1>1. used \in [acts : 0..MaxActs, loads : 0..MaxLoads, calls : 0..MaxCalls] BY DEF Typed
<1>2. used.calls + 1 \in 0..MaxCalls BY <1>1, Workplaces DEF Called
<1>3. used' = [used EXCEPT !.calls = used.calls + 1] BY DEF Called
<1> QED BY <1>1, <1>2, <1>3

LEMMA PollTyped ==
    ASSUME Typed, Held, NEW q \in Polls, PollStep(q)
    PROVE  PlainTyped' /\ CoFits
<1>0. PlainTyped /\ q \in Workers BY Plain, Workplaces
<1>1. CASE Begin(q)
  <2>1. PICK d : Fit(q, d) BY <1>1, LoopGoes
  <2> QED BY <1>0, <1>1, <2>1, FitFits DEF PlainTyped, Begin, pageVars, stateVars, Buffer
<1>2. CASE Drain(q)
  <2>1. PICK d : Fit(q, d) BY <1>2, DrainGoes
  <2>2. <<>> \in Seq(EventRecord) OBVIOUS
  <2> QED BY <1>0, <1>2, <2>1, <2>2, FitFits DEF PlainTyped, Drain, stateVars, Buffer
<1>3. CASE DrainRaises(q)
  <2>1. PICK d : Fit(q, d) BY <1>3, LoopGoes
  <2>2. <<>> \in Seq(EventRecord) OBVIOUS
  <2> QED BY <1>0, <1>3, <2>1, <2>2, FitFits DEF PlainTyped, DrainRaises, stateVars, Buffer
<1>4. CASE Process(q)
  <2>1. PICK n \in 0..Len(co[q].batch) : \E rest, fills, d :
              /\ Split(co[q].batch, n, rest, fills)
              /\ d \in Coroutines /\ Holding(d) /\ ~d.cancelled
              /\ Becomes(q, d) /\ Goes4(d, co[q], rest, fills)
      BY <1>4, ProcessGoes
  <2>2. PICK rest, fills, d : /\ Split(co[q].batch, n, rest, fills)
                              /\ Fit(q, d) /\ Goes4(d, co[q], rest, fills)
      BY <2>1 DEF Fit
  <2>3. rest \in Seq(EventRecord) /\ fills \in Seq(EventRecord) /\ Buffer(fills) BY <2>2 DEF Split
  <2>4. pending' \in Seq(EventRecord) /\ Buffer(pending') /\ lastClick' \in Keys \cup {NoKey}
    <3>1. CASE Passed(d, co[q], rest, fills) BY <2>3, <3>1 DEF Passed
    <3>2. CASE FlushesNow(d, rest, fills) BY <1>0, <2>3, <3>2 DEF FlushesNow, PlainTyped
    <3>3. CASE FillIsFirst(d, co[q], rest, fills) BY <1>0, <2>3, <3>3, RemovedBuffer DEF FillIsFirst, PlainTyped
    <3>4. CASE OwnComes(d, co[q], rest, fills)
      <4>1. rest[1] \in EventRecord BY <2>3, <3>4, TailFits DEF OwnComes
      <4>2. rest[1].key \in Keys BY <4>1 DEF EventRecord
      <4> QED BY <2>3, <3>4, <4>2 DEF OwnComes
    <3> QED BY <2>2, <3>1, <3>2, <3>3, <3>4 DEF Goes4
  <2>5. Buffer(pending)' BY <2>4 DEF Buffer
  <2> QED BY <1>0, <1>4, <2>2, <2>4, <2>5, FitFits DEF PlainTyped, Process, pageVars
<1>5. CASE ProcessOwn(q)
  <2>1. PICK d : Fit(q, d) /\ (Skips(d, co[q]) \/ ComesOut(d, co[q])) BY <1>5, ProcessOwnGoes
  <2>2. lastClick' \in Keys \cup {NoKey}
    <3>1. co[q].batch \in Seq(EventRecord) /\ co[q].batch # <<>> BY <1>0, <1>5, ProcessOwnGoes, Goer, Fields
    <3>2. co[q].batch[1] \in EventRecord BY <3>1, TailFits
    <3>3. co[q].batch[1].key \in Keys BY <3>2 DEF EventRecord
    <3> QED BY <1>0, <2>1, <3>3 DEF Skips, ComesOut, PlainTyped
  <2> QED BY <1>0, <1>5, <2>1, <2>2, FitFits DEF PlainTyped, ProcessOwn, pageVars, Buffer
<1>6. CASE Ranked(q)
  <2>0. co[q].step \in EventRecord /\ steps' = Append(steps, co[q].step) BY <1>0, <1>6, RankedGoes
  <2>1. steps' \in Seq(EventRecord) BY <1>0, <2>0 DEF PlainTyped
  <2>2. PICK d : Fit(q, d) BY <1>0, <1>6, RankedGoes
  <2> QED BY <1>0, <1>6, <2>1, <2>2, FitFits DEF PlainTyped, Ranked, pageVars, stateVars, Buffer
<1>7. CASE FlushMore(q)
  <2>1. PICK d : Fit(q, d) BY <1>0, <1>7, FlushMoreGoes
  <2> QED BY <1>0, <1>7, <2>1, FitFits DEF PlainTyped, FlushMore, pageVars, stateVars, Buffer
<1>8. CASE Flushed(q)
  <2>1. pending' = <<>> BY <1>0, <1>8, FlushedGoes
  <2>2. PICK d : Fit(q, d) BY <1>0, <1>8, FlushedGoes
  <2>3. pending' \in Seq(EventRecord) /\ Buffer(pending)' /\ lastClick' \in Keys \cup {NoKey}
      BY <1>8, <2>1 DEF Flushed, Buffer
  <2> QED BY <1>0, <1>8, <2>2, <2>3, FitFits DEF PlainTyped, Flushed, pageVars
<1>9. CASE Unwind(q)
  <2>1. Fit(q, Over) BY <1>9, UnwindGoes
  <2> QED BY <1>0, <1>9, <2>1, FitFits DEF PlainTyped, Unwind, pageVars, stateVars, Buffer
<1> QED BY <1>1, <1>2, <1>3, <1>4, <1>5, <1>6, <1>7, <1>8, <1>9 DEF PollStep

LEMMA HandlerTyped ==
    ASSUME Typed, Held, NEW p \in Panels, Start(p) \/ Stop(p) \/ Suspend(p) \/ HandlerStep(p)
    PROVE  PlainTyped' /\ CoFits
<1>0. PlainTyped /\ p \in Workers /\ p \notin Polls BY Plain, Workplaces
<1>1. <<>> \in Seq(EventRecord) OBVIOUS
<1>2. CASE Start(p)
  <2>1. (IF injected THEN "arming" ELSE "injecting") \in Places \ {"own", "ranking"} BY DEF Places
  <2>2. CoFits BY <1>0, <1>2, <2>1, PlaceGoes DEF Start
  <2>3. used' \in [acts : 0..MaxActs, loads : 0..MaxLoads, calls : 0..MaxCalls] BY <1>2, CallTyped DEF Start
  <2> QED BY <1>0, <1>2, <2>2, <2>3 DEF PlainTyped, Start, pageVars, Buffer
<1>3. CASE Stop(p)
  <2>1. CoFits /\ pollTask' = NoPoll BY <1>3, StopGoes
  <2>2. used' \in [acts : 0..MaxActs, loads : 0..MaxLoads, calls : 0..MaxCalls] BY <1>3, CallTyped DEF Stop
  <2> QED BY <1>0, <1>3, <2>1, <2>2 DEF PlainTyped, Stop, pageVars, Buffer
<1>4. CASE Suspend(p)
  <2>1. (IF depth = 0 /\ recording THEN "suspending" ELSE "acting") \in Places \ {"own", "ranking"} BY DEF Places
  <2>2. CoFits BY <1>0, <1>4, <2>1, PlaceGoes DEF Suspend
  <2>3. used' \in [acts : 0..MaxActs, loads : 0..MaxLoads, calls : 0..MaxCalls] BY <1>4, CallTyped DEF Suspend
  <2>4. pending' \in Seq(EventRecord) /\ Buffer(pending)' /\ lastClick' \in Keys \cup {NoKey} /\ depth' \in Nat
    <3>1. CASE depth = 0
      <4>1. pending' = <<>> /\ lastClick' = NoKey /\ depth' = depth + 1 BY <1>4, <3>1 DEF Suspend
      <4> QED BY <1>0, <1>1, <4>1 DEF PlainTyped, Buffer
    <3>2. CASE depth # 0
      <4>1. pending' = pending /\ lastClick' = lastClick /\ depth' = depth + 1 BY <1>4, <3>2 DEF Suspend
      <4> QED BY <1>0, <4>1 DEF PlainTyped, Buffer
    <3> QED BY <3>1, <3>2
  <2> QED BY <1>0, <1>4, <2>2, <2>3, <2>4 DEF PlainTyped, Suspend, pageVars
<1>5. CASE Inject(p)
  <2>1. "arming" \in Places \ {"own", "ranking"} BY DEF Places
  <2>2. CoFits BY <1>0, <1>5, <2>1, PlaceGoes DEF Inject
  <2> QED BY <1>0, <1>1, <1>5, <2>2 DEF PlainTyped, Inject, stateVars, Buffer
<1>6. CASE Arm(p)
  <2>1. PICK q \in Polls : pollTask' = q /\ CoFits BY <1>6, ArmGoes
  <2> QED BY <1>0, <1>6, <2>1 DEF PlainTyped, Arm, Buffer
<1>7. CASE Disarm(p)
  <2>1. Fit(p, Over) BY <1>7, OverFits DEF Disarm, Fit, Becomes
  <2> QED BY <1>0, <1>7, <2>1, FitFits DEF PlainTyped, Disarm, stateVars, Buffer
<1>8. CASE Suspended(p)
  <2>1. "acting" \in Places \ {"own", "ranking"} BY DEF Places
  <2>2. CoFits BY <1>0, <1>8, <2>1, PlaceGoes DEF Suspended
  <2> QED BY <1>0, <1>8, <2>2 DEF PlainTyped, Suspended, stateVars, Buffer
<1>9. CASE Resume(p)
  <2>1. (IF depth' = 0 /\ recording THEN "restoring" ELSE "idle") \in Places \ {"own", "ranking"} BY DEF Places
  <2>2. CoFits BY <1>0, <1>9, <2>1, PlaceGoes DEF Resume
  <2>3. depth' \in Nat BY <1>0, <1>9 DEF PlainTyped, Resume
  <2> QED BY <1>0, <1>9, <2>2, <2>3 DEF PlainTyped, Resume, pageVars, Buffer
<1>10. CASE Restore(p)
  <2>1. "idle" \in Places \ {"own", "ranking"} BY DEF Places
  <2>2. CoFits BY <1>0, <1>10, <2>1, PlaceGoes DEF Restore
  <2> QED BY <1>0, <1>1, <1>10, <2>2 DEF PlainTyped, Restore, stateVars, Buffer
<1>11. CASE Ranked(p)
  <2>0. co[p].step \in EventRecord /\ steps' = Append(steps, co[p].step) BY <1>0, <1>11, RankedGoes
  <2>1. steps' \in Seq(EventRecord) BY <1>0, <2>0 DEF PlainTyped
  <2>2. PICK d : Fit(p, d) BY <1>0, <1>11, RankedGoes
  <2> QED BY <1>0, <1>11, <2>1, <2>2, FitFits DEF PlainTyped, Ranked, pageVars, stateVars, Buffer
<1>12. CASE FlushMore(p)
  <2>1. PICK d : Fit(p, d) BY <1>0, <1>12, FlushMoreGoes
  <2> QED BY <1>0, <1>12, <2>1, FitFits DEF PlainTyped, FlushMore, pageVars, stateVars, Buffer
<1>13. CASE Flushed(p)
  <2>1. pending' = <<>> BY <1>0, <1>13, FlushedGoes
  <2>2. PICK d : Fit(p, d) BY <1>0, <1>13, FlushedGoes
  <2>3. pending' \in Seq(EventRecord) /\ Buffer(pending)' /\ lastClick' \in Keys \cup {NoKey}
      BY <1>0, <1>13, <2>1 DEF Flushed, Buffer, PlainTyped
  <2> QED BY <1>0, <1>13, <2>2, <2>3, FitFits DEF PlainTyped, Flushed, pageVars
<1> QED BY <1>2, <1>3, <1>4, <1>5, <1>6, <1>7, <1>8, <1>9, <1>10, <1>11, <1>12, <1>13 DEF HandlerStep

LEMMA PageTyped ==
    ASSUME Typed, Held, UserActs \/ Load \/ \E p \in Panels : AgentActs(p)
    PROVE  PlainTyped' /\ co' = co
<1>0. PlainTyped BY Plain
<1>1. ASSUME NEW by \in {"user", "agent"}, Act(by) PROVE PlainTyped' /\ co' = co
  <2>1. PICK x : NewEvent(x, by) /\ queue' = Append(queue, x) BY <1>1, ActGoes
  <2>2. queue' \in Seq(EventRecord) BY <1>0, <2>1 DEF PlainTyped, NewEvent
  <2> QED BY <1>0, <1>1, <2>2, ActGoes DEF PlainTyped, stateVars, Buffer
<1>2. CASE Load
  <2>1. <<>> \in Seq(EventRecord) OBVIOUS
  <2>2. used' \in [acts : 0..MaxActs, loads : 0..MaxLoads, calls : 0..MaxCalls] /\ armed' \in BOOLEAN
      BY <1>0, <1>2, Workplaces DEF PlainTyped, Load
  <2> QED BY <1>0, <1>2, <2>1, <2>2 DEF PlainTyped, Load, stateVars, Buffer
<1> QED BY <1>1, <1>2 DEF UserActs, AgentActs

LEMMA TypedStays == Typed /\ Held /\ [Next]_vars => Typed' /\ Held'
<1> SUFFICES ASSUME Typed, Held, [Next]_vars PROVE Typed' /\ Held' OBVIOUS
<1>0. PlainTyped /\ co \in [Workers -> Coroutines] /\ (\A v \in Workers : Holding(co[v])) BY Plain
<1>1. PlainTyped' /\ (CoFits \/ co' = co)
  <2>1. CASE UNCHANGED vars BY <1>0, <2>1 DEF vars, PlainTyped, pageVars, stateVars, Buffer
  <2> QED BY <2>1, PollTyped, HandlerTyped, PageTyped DEF Next
<1>2. CoFits BY <1>0, <1>1 DEF CoFits
<1>3. Workers' = Workers BY DEF Workers
<1>4. (\A v \in Workers : Holding(co[v]))' BY <1>2 DEF CoFits, Holding, Buffer, Workers
<1>5. (co \in [Workers -> Coroutines])' BY <1>2 DEF CoFits, Workers, Coroutines, EventRecord
<1>6. (Typed /\ Held <=> PlainTyped /\ co \in [Workers -> Coroutines] /\ \A v \in Workers : Holding(co[v]))'
    BY Plain, PTL
<1> QED BY <1>1, <1>4, <1>5, <1>6

LEMMA TypedInit == Init => Typed /\ Held
<1> SUFFICES ASSUME Init PROVE Typed /\ Held OBVIOUS
<1>1. <<>> \in Seq(EventRecord) OBVIOUS
<1>2. PlainTyped
  <2>1. used \in [acts : 0..MaxActs, loads : 0..MaxLoads, calls : 0..MaxCalls] BY Workplaces DEF Init
  <2>2. pending = <<>> /\ queue = <<>> /\ steps = <<>> BY DEF Init
  <2>3. pending \in Seq(EventRecord) /\ queue \in Seq(EventRecord) /\ steps \in Seq(EventRecord) BY <1>1, <2>2
  <2>4. Buffer(pending) BY <2>2 DEF Buffer
  <2>5. /\ installed \in BOOLEAN /\ armed \in BOOLEAN /\ injected \in BOOLEAN /\ recording \in BOOLEAN
        /\ pollTask \in Polls \cup {NoPoll} /\ lastClick \in Keys \cup {NoKey} /\ depth \in Nat
      BY DEF Init
  <2> QED BY <2>1, <2>3, <2>4, <2>5 DEF PlainTyped
<1>3. co \in [Workers -> Coroutines] /\ \A v \in Workers : co[v] = Over BY OverFits DEF Init, Workers
<1> QED BY <1>2, <1>3, OverFits, Plain

\* The types of the recorder's state and of every coroutine between two awaits: the queue in the
\* page, the drained batch, the pending fills, the step being ranked (_auto_record_poll).
THEOREM CaptureTyped == Spec => [](Typed /\ Held)
BY TypedInit, TypedStays, PTL DEF Spec

-----------------------------------------------------------------------------
(***************************************************************************)
(* Every event is at one place.                                            *)
(***************************************************************************)
Nowhere == <<"nowhere", NoPoll>>
InQueue == <<"queue", NoPoll>>
InFills == <<"fills", NoPoll>>
InBatch(w) == <<"batch", w>>
AtWork(w) == <<"step", w>>
InSteps(i) == <<"steps", i>>

\* Inputs may be emitted twice: they are never told apart.
StepAt(x, place) == IF x.kind = "input" THEN InFills ELSE place

AllAt(at, list, place) == \A i \in DOMAIN list : at[list[i].id] = place
Sorted(list) == \A i, j \in DOMAIN list : i < j => list[i].id < list[j].id

WorkAt(at, w, c) ==
    /\ AllAt(at, c.batch, InBatch(w)) /\ Sorted(c.batch) /\ AllAt(at, c.fills, InFills)
    /\ c.pc = "ranking" => at[c.step.id] = StepAt(c.step, AtWork(w))

StepsAt(at, list) == \A i \in DOMAIN list : at[list[i].id] = StepAt(list[i], InSteps(i))

AtOnePlace(at) ==
    /\ at = [id \in 1..MaxActs |-> at[id]]
    /\ \A id \in 1..MaxActs : id > used.acts => at[id] = Nowhere
    /\ AllAt(at, queue, InQueue) /\ Sorted(queue)
    /\ \A w \in Workers : WorkAt(at, w, co[w])
    /\ AllAt(at, pending, InFills)
    /\ StepsAt(at, steps)

Once == \E at : AtOnePlace(at)

\* Only events at the place differ.
Moved(at, at2, place) == \A id \in 1..MaxActs : at2[id] # at[id] => at[id] = place

LEMMA Ids ==
    ASSUME NEW list \in Seq(EventRecord), NEW i \in DOMAIN list
    PROVE  list[i] \in EventRecord /\ list[i].id \in 1..MaxActs
<1>1. list[i] \in EventRecord OBVIOUS
<1> QED BY <1>1 DEF EventRecord

LEMMA PlacesDiffer ==
    /\ Nowhere # InQueue /\ Nowhere # InFills /\ InQueue # InFills
    /\ \A w : /\ InBatch(w) \notin {Nowhere, InQueue, InFills} /\ AtWork(w) \notin {Nowhere, InQueue, InFills}
              /\ InSteps(w) \notin {Nowhere, InQueue, InFills}
    /\ \A v, w : /\ InBatch(v) # AtWork(w) /\ InBatch(v) # InSteps(w) /\ AtWork(v) # InSteps(w)
                 /\ InBatch(v) = InBatch(w) => v = w
                 /\ AtWork(v) = AtWork(w) => v = w
                 /\ InSteps(v) = InSteps(w) => v = w
BY DEF Nowhere, InQueue, InFills, InBatch, AtWork, InSteps

LEMMA ListStays ==
    ASSUME NEW at, NEW at2, NEW from, Moved(at, at2, from), NEW list \in Seq(EventRecord),
           NEW place, place # from, AllAt(at, list, place)
    PROVE  AllAt(at2, list, place)
BY Ids DEF AllAt, Moved

LEMMA WorkStays ==
    ASSUME NEW at, NEW at2, NEW from, Moved(at, at2, from), NEW w, NEW c \in Coroutines, Holding(c),
           from \notin {InFills, InBatch(w), AtWork(w)}, WorkAt(at, w, c)
    PROVE  WorkAt(at2, w, c)
<1>1. PICK batch : batch = c.batch OBVIOUS
<1>2. PICK fills : fills = c.fills OBVIOUS
<1>3. batch \in Seq(EventRecord) /\ fills \in Seq(EventRecord) BY <1>1, <1>2, Fields
<1>4. AllAt(at, batch, InBatch(w)) /\ Sorted(batch) /\ AllAt(at, fills, InFills) BY <1>1, <1>2 DEF WorkAt
<1>5. AllAt(at2, batch, InBatch(w)) /\ AllAt(at2, fills, InFills) BY <1>3, <1>4, ListStays
<1>6. ASSUME c.pc = "ranking" PROVE at2[c.step.id] = StepAt(c.step, AtWork(w))
  <2>1. c.step \in EventRecord BY <1>6 DEF Holding
  <2>2. c.step.id \in 1..MaxActs BY <2>1 DEF EventRecord
  <2>3. at[c.step.id] = StepAt(c.step, AtWork(w)) BY <1>6 DEF WorkAt
  <2> QED BY <2>2, <2>3 DEF Moved, StepAt
<1> QED BY <1>1, <1>2, <1>4, <1>5, <1>6 DEF WorkAt

LEMMA StepsStay ==
    ASSUME NEW at, NEW at2, NEW from, Moved(at, at2, from), NEW list \in Seq(EventRecord),
           from # InFills, (\A i : from # InSteps(i)), StepsAt(at, list)
    PROVE  StepsAt(at2, list)
BY Ids DEF StepsAt, Moved, StepAt

\* The rest of a list, when its first event moves.
LEMMA TailStays ==
    ASSUME NEW list \in Seq(EventRecord), list # <<>>, Sorted(list)
    PROVE  /\ Sorted(Tail(list))
           /\ \A i \in DOMAIN Tail(list) : Tail(list)[i].id # list[1].id
           /\ \A at, place : AllAt(at, list, place) => AllAt(at, Tail(list), place)
<1>1. /\ Len(list) \in Nat \ {0} /\ DOMAIN list = 1..Len(list) /\ DOMAIN Tail(list) = 1..(Len(list) - 1)
      /\ \A i \in 1..(Len(list) - 1) : Tail(list)[i] = list[i + 1]
    BY TailFits
<1> DEFINE t == Tail(list)
<1>2. \A i \in DOMAIN t : i \in Nat /\ i + 1 \in DOMAIN list /\ t[i] = list[i + 1] /\ 1 < i + 1 BY <1>1
<1>3. 1 \in DOMAIN list BY <1>1
<1> HIDE DEF t
<1>4. Sorted(t)
  <2>1. ASSUME NEW i \in DOMAIN t, NEW j \in DOMAIN t, i < j PROVE t[i].id < t[j].id
    <3>1. i + 1 \in DOMAIN list /\ j + 1 \in DOMAIN list /\ i + 1 < j + 1 BY <1>2, <2>1
    <3>2. list[i + 1].id < list[j + 1].id BY <3>1 DEF Sorted
    <3> QED BY <1>2, <3>2
  <2> QED BY <2>1 DEF Sorted
<1>5. ASSUME NEW i \in DOMAIN t PROVE t[i].id # list[1].id
  <2>1. list[1].id < list[i + 1].id BY <1>2, <1>3 DEF Sorted
  <2>2. list[1].id \in 1..MaxActs /\ list[i + 1].id \in 1..MaxActs BY <1>2, <1>3, Ids
  <2> QED BY <1>2, <2>1, <2>2, Workplaces
<1>6. ASSUME NEW at, NEW place, AllAt(at, list, place) PROVE AllAt(at, t, place) BY <1>2, <1>6 DEF AllAt
<1> QED BY <1>4, <1>5, <1>6 DEF t

LEMMA OnceIsOnce == ASSUME steps \in Seq(EventRecord), Once PROVE ActsOnce
<1>1. PICK at : AtOnePlace(at) BY DEF Once
<1>2. ASSUME NEW i \in DOMAIN steps, NEW j \in DOMAIN steps, steps[i].id = steps[j].id, steps[i].kind # "input"
      PROVE  i = j
  <2>1. at[steps[i].id] = InSteps(i) BY <1>1, <1>2 DEF AtOnePlace, StepsAt, StepAt
  <2>2. at[steps[j].id] = InFills \/ at[steps[j].id] = InSteps(j) BY <1>1 DEF AtOnePlace, StepsAt, StepAt
  <2> QED BY <1>2, <2>1, <2>2, PlacesDiffer
<1> QED BY <1>2 DEF ActsOnce

LEMMA OnceInit == Init => Once
<1> SUFFICES ASSUME Init PROVE Once OBVIOUS
<1>1. PICK at : at = [id \in 1..MaxActs |-> Nowhere] OBVIOUS
<1>2. queue = <<>> /\ pending = <<>> /\ steps = <<>> /\ \A w \in Workers : co[w] = Over BY DEF Init, Workers
<1>3. at = [id \in 1..MaxActs |-> at[id]] /\ \A id \in 1..MaxActs : at[id] = Nowhere BY <1>1
<1>4. AllAt(at, queue, InQueue) /\ Sorted(queue) /\ AllAt(at, pending, InFills) /\ StepsAt(at, steps)
    BY <1>2 DEF AllAt, Sorted, StepsAt
<1>5. ASSUME NEW w \in Workers PROVE WorkAt(at, w, co[w])
  <2>1. co[w] = Over BY <1>2
  <2> QED BY <2>1, OverFits DEF WorkAt, AllAt, Sorted
<1> QED BY <1>3, <1>4, <1>5 DEF Once, AtOnePlace

-----------------------------------------------------------------------------
(***************************************************************************)
(* Steps in which no event changes its place.                              *)
(***************************************************************************)
\* No event changes its place; some may be dropped.
LEMMA StillOnce ==
    ASSUME NEW at, AtOnePlace(at), used'.acts = used.acts, queue' \in {queue, <<>>}, pending' \in {pending, <<>>},
           steps' = steps, \A w \in Workers : WorkAt(at, w, co'[w])
    PROVE  Once'
<1>1. /\ at = [id \in 1..MaxActs |-> at[id]] /\ (\A id \in 1..MaxActs : id > used'.acts => at[id] = Nowhere)
      /\ AllAt(at, queue', InQueue) /\ Sorted(queue') /\ AllAt(at, pending', InFills) /\ StepsAt(at, steps')
    BY DEF AtOnePlace, AllAt, Sorted
<1>2. AtOnePlace(at)'
    BY <1>1 DEF AtOnePlace, AllAt, Sorted, StepsAt, WorkAt, Workers, Nowhere, InQueue, InFills, InBatch, AtWork,
                InSteps, StepAt
<1> QED BY <1>2 DEF Once

LEMMA StaysAt ==
    ASSUME NEW at, NEW w, NEW c, WorkAt(at, w, c), NEW d, NEW pc, Stays(d, c, pc), pc # "ranking"
    PROVE  WorkAt(at, w, d)
BY DEF WorkAt, Stays

LEMMA LoopedAt ==
    ASSUME NEW at, NEW w, NEW c, WorkAt(at, w, c), NEW d, Looped(d, c)
    PROVE  WorkAt(at, w, d)
<1>1. CASE d.batch = c.batch /\ d.fills = c.fills /\ d.pc = "sleeping" BY <1>1 DEF WorkAt
<1>2. CASE d.batch = <<>> /\ d.fills = <<>> /\ d.pc = "idle" BY <1>2 DEF WorkAt, AllAt, Sorted
<1> QED BY <1>1, <1>2 DEF Looped

LEMMA OverAt == ASSUME NEW at, NEW w PROVE WorkAt(at, w, Over)
BY OverFits DEF WorkAt, AllAt, Sorted

\* The first of some fills is emitted.
LEMMA FillAt ==
    ASSUME NEW at, NEW w, NEW c, WorkAt(at, w, c), NEW d, NEW fills
    PROVE  fills \in Seq(EventRecord) /\ fills # <<>> /\ Buffer(fills) /\ AllAt(at, fills, InFills)
           /\ d.batch = c.batch /\ d.fills = Tail(fills) /\ d.step = fills[1] => WorkAt(at, w, d)
<1>0. HAVE fills \in Seq(EventRecord) /\ fills # <<>> /\ Buffer(fills) /\ AllAt(at, fills, InFills)
           /\ d.batch = c.batch /\ d.fills = Tail(fills) /\ d.step = fills[1]
<1>1. /\ 1 \in DOMAIN fills /\ Len(fills) \in Nat \ {0} /\ DOMAIN fills = 1..Len(fills)
      /\ DOMAIN Tail(fills) = 1..(Len(fills) - 1)
      /\ \A i \in 1..(Len(fills) - 1) : Tail(fills)[i] = fills[i + 1]
    BY <1>0, TailFits
<1>2. ASSUME NEW i \in DOMAIN Tail(fills) PROVE at[Tail(fills)[i].id] = InFills
  <2>1. i + 1 \in DOMAIN fills /\ Tail(fills)[i] = fills[i + 1] BY <1>1
  <2> QED BY <1>0, <2>1 DEF AllAt
<1>3. d.step.kind = "input" /\ at[d.step.id] = InFills BY <1>0, <1>1 DEF Buffer, AllAt
<1>4. AllAt(at, d.fills, InFills) BY <1>0, <1>2 DEF AllAt
<1> QED BY <1>0, <1>3, <1>4 DEF WorkAt, StepAt

LEMMA Others ==
    ASSUME Typed, Held, NEW at, AtOnePlace(at), NEW w \in Workers, NEW d, Fit(w, d), WorkAt(at, w, d)
    PROVE  \A v \in Workers : WorkAt(at, v, co'[v])
BY FitFits DEF AtOnePlace

\* The steps in which no event changes its place.
LEMMA QuietPoll ==
    ASSUME Typed, Held, NEW at, AtOnePlace(at), NEW w \in Workers,
           \/ w \in Polls /\ (Begin(w) \/ DrainRaises(w) \/ Unwind(w))
           \/ FlushMore(w) \/ Flushed(w)
    PROVE  Once'
<1>1. WorkAt(at, w, co[w]) BY DEF AtOnePlace
<1>2. CASE w \in Polls /\ (Begin(w) \/ DrainRaises(w))
  <2>1. PICK d : Fit(w, d) /\ Looped(d, co[w]) BY <1>2, LoopGoes
  <2>2. \A v \in Workers : WorkAt(at, v, co'[v]) BY <1>1, <2>1, LoopedAt, Others
  <2>3. used' = used /\ queue' \in {queue, <<>>} /\ pending' = pending /\ steps' = steps
      BY <1>2 DEF Begin, DrainRaises, pageVars, stateVars
  <2> QED BY <2>2, <2>3, StillOnce
<1>3. CASE w \in Polls /\ Unwind(w)
  <2>1. Fit(w, Over) BY <1>3, UnwindGoes
  <2>2. \A v \in Workers : WorkAt(at, v, co'[v]) BY <2>1, OverAt, Others
  <2>3. used' = used /\ queue' = queue /\ pending' = pending /\ steps' = steps
      BY <1>3 DEF Unwind, pageVars, stateVars
  <2> QED BY <2>2, <2>3, StillOnce
<1>4. CASE FlushMore(w)
  <2>1. PICK d : /\ Fit(w, d) /\ d.pc = "ranking" /\ d.after = "flushing" /\ d.batch = co[w].batch
                 /\ d.fills = Tail(co[w].fills) /\ d.step = co[w].fills[1] /\ d.cancelled = co[w].cancelled
      BY <1>4, FlushMoreGoes
  <2>2. PICK fills : fills = co[w].fills OBVIOUS
  <2>3. fills # <<>> /\ fills \in Seq(EventRecord) /\ Buffer(fills)
      BY <1>4, <2>2, FlushMoreGoes, Goer, Fields DEF Holding
  <2>4. AllAt(at, fills, InFills) BY <1>1, <2>2 DEF WorkAt
  <2>5. WorkAt(at, w, d) BY <1>1, <2>1, <2>2, <2>3, <2>4, FillAt
  <2>6. \A v \in Workers : WorkAt(at, v, co'[v]) BY <2>1, <2>5, Others
  <2>7. used' = used /\ queue' = queue /\ pending' = pending /\ steps' = steps
      BY <1>4 DEF FlushMore, pageVars, stateVars
  <2> QED BY <2>6, <2>7, StillOnce
<1>5. CASE Flushed(w)
  <2>1. PICK d : Fit(w, d) /\ IF w \in Polls THEN Looped(d, co[w]) ELSE Stays(d, co[w], "disarming")
      BY <1>5, FlushedGoes
  <2>2. WorkAt(at, w, d)
    <3>1. CASE w \in Polls BY <1>1, <2>1, <3>1, LoopedAt
    <3>2. CASE w \notin Polls
      <4>1. Stays(d, co[w], "disarming") /\ "disarming" # "ranking" BY <2>1, <3>2
      <4> QED BY <1>1, <4>1, StaysAt
    <3> QED BY <3>1, <3>2
  <2>3. \A v \in Workers : WorkAt(at, v, co'[v]) BY <2>1, <2>2, Others
  <2>4. used' = used /\ queue' = queue /\ pending' = <<>> /\ steps' = steps
      BY <1>5, FlushedGoes DEF Flushed, pageVars
  <2> QED BY <2>3, <2>4, StillOnce
<1> QED BY <1>2, <1>3, <1>4, <1>5

LEMMA QuietHandler ==
    ASSUME Typed, Held, NEW at, AtOnePlace(at), NEW p \in Panels,
           \/ Start(p) \/ Stop(p) \/ Suspend(p) \/ Inject(p) \/ Arm(p) \/ Disarm(p) \/ Suspended(p)
           \/ Resume(p) \/ Restore(p)
    PROVE  Once'
<1>0. p \in Workers BY Workplaces
<1>1. \A w \in Workers : WorkAt(at, w, co[w]) BY DEF AtOnePlace
<1>2. ASSUME NEW pc \in Places \ {"own", "ranking"}, Goes(p, pc) PROVE \A w \in Workers : WorkAt(at, w, co'[w])
  <2>1. Stays(co'[p], co[p], pc) /\ (\A v \in Workers : v # p => co'[v] = co[v]) BY <1>0, <1>2, PlaceGoes
  <2>2. WorkAt(at, p, co'[p]) BY <1>0, <1>1, <2>1, StaysAt
  <2> QED BY <1>1, <2>1, <2>2
<1>3. CASE Stop(p)
  <2>1. /\ IF pending = <<>> THEN Stays(co'[p], co[p], "disarming") ELSE Flushed1(co'[p], co[p])
        /\ \A q \in Polls : Marked(co'[q], co[q])
        /\ \A v \in Panels : v # p => co'[v] = co[v]
      BY <1>3, StopGoes
  <2>2. ASSUME NEW q \in Polls PROVE WorkAt(at, q, co'[q]) BY <1>1, <2>1, Workplaces DEF WorkAt, Marked
  <2>3. WorkAt(at, p, co'[p])
    <3>1. CASE pending = <<>>
      <4>1. Stays(co'[p], co[p], "disarming") /\ "disarming" # "ranking" BY <2>1, <3>1
      <4> QED BY <1>0, <1>1, <4>1, StaysAt
    <3>2. CASE pending # <<>>
      <4>1. PICK fills : fills = pending OBVIOUS
      <4>2. fills \in Seq(EventRecord) /\ fills # <<>> /\ Buffer(fills) /\ AllAt(at, fills, InFills)
          BY <3>2, <4>1 DEF Typed, Held, AtOnePlace
      <4>3. co'[p].batch = co[p].batch /\ co'[p].fills = Tail(fills) /\ co'[p].step = fills[1]
          BY <2>1, <3>2, <4>1 DEF Flushed1
      <4>4. WorkAt(at, p, co[p]) BY <1>0, <1>1
      <4> QED BY <4>2, <4>3, <4>4, FillAt
    <3> QED BY <3>1, <3>2
  <2>4. \A w \in Workers : WorkAt(at, w, co'[w]) BY <1>1, <2>1, <2>2, <2>3 DEF Workers
  <2>5. queue' = queue /\ pending' = pending /\ steps' = steps BY <1>3 DEF Stop, pageVars
  <2>6. used'.acts = used.acts BY <1>3, CallTyped DEF Stop
  <2> QED BY <2>4, <2>5, <2>6, StillOnce
<1>4. CASE Arm(p)
  <2>1. PICK q \in Polls : /\ co'[p] = Over /\ Stays(co'[q], Over, "created")
                           /\ \A v \in Workers : v # p /\ v # q => co'[v] = co[v]
      BY <1>4, ArmGoes
  <2>2. WorkAt(at, q, co'[q])
    <3>1. "created" # "ranking" OBVIOUS
    <3> QED BY <2>1, <3>1, OverAt, StaysAt
  <2>3. \A w \in Workers : WorkAt(at, w, co'[w]) BY <1>1, <2>1, <2>2, OverAt
  <2>4. used' = used /\ queue' = queue /\ pending' = pending /\ steps' = steps BY <1>4 DEF Arm
  <2> QED BY <2>3, <2>4, StillOnce
<1>5. CASE Disarm(p)
  <2>1. Fit(p, Over) BY <1>5, OverFits DEF Disarm, Fit, Becomes
  <2>2. \A w \in Workers : WorkAt(at, w, co'[w]) BY <1>0, <2>1, OverAt, Others
  <2>3. used' = used /\ queue' = queue /\ pending' = pending /\ steps' = steps BY <1>5 DEF Disarm, stateVars
  <2> QED BY <2>2, <2>3, StillOnce
<1>6. CASE Start(p)
  <2>1. (IF injected THEN "arming" ELSE "injecting") \in Places \ {"own", "ranking"} BY DEF Places
  <2>2. \A w \in Workers : WorkAt(at, w, co'[w]) BY <1>2, <1>6, <2>1 DEF Start
  <2>3. queue' = queue /\ pending' = pending /\ steps' = steps BY <1>6 DEF Start, pageVars
  <2>4. used'.acts = used.acts BY <1>6, CallTyped DEF Start
  <2> QED BY <2>2, <2>3, <2>4, StillOnce
<1>7. CASE Suspend(p)
  <2>1. (IF depth = 0 /\ recording THEN "suspending" ELSE "acting") \in Places \ {"own", "ranking"} BY DEF Places
  <2>2. \A w \in Workers : WorkAt(at, w, co'[w]) BY <1>2, <1>7, <2>1 DEF Suspend
  <2>3. queue' = queue /\ pending' \in {pending, <<>>} /\ steps' = steps BY <1>7 DEF Suspend, pageVars
  <2>4. used'.acts = used.acts BY <1>7, CallTyped DEF Suspend
  <2> QED BY <2>2, <2>3, <2>4, StillOnce
<1>8. CASE Inject(p) \/ Suspended(p) \/ Resume(p) \/ Restore(p)
  <2>1. PICK pc \in Places \ {"own", "ranking"} : Goes(p, pc)
    <3>1. /\ "arming" \in Places \ {"own", "ranking"} /\ "acting" \in Places \ {"own", "ranking"}
          /\ "idle" \in Places \ {"own", "ranking"}
          /\ (IF depth' = 0 /\ recording THEN "restoring" ELSE "idle") \in Places \ {"own", "ranking"}
        BY DEF Places
    <3>2. CASE Inject(p) BY <3>1, <3>2 DEF Inject
    <3>3. CASE Suspended(p) BY <3>1, <3>3 DEF Suspended
    <3>4. CASE Resume(p) BY <3>1, <3>4 DEF Resume
    <3>5. CASE Restore(p) BY <3>1, <3>5 DEF Restore
    <3> QED BY <1>8, <3>2, <3>3, <3>4, <3>5
  <2>2. \A w \in Workers : WorkAt(at, w, co'[w]) BY <1>2, <2>1
  <2>3. used' = used /\ queue' \in {queue, <<>>} /\ pending' = pending /\ steps' = steps
      BY <1>8 DEF Inject, Suspended, Resume, Restore, pageVars, stateVars
  <2> QED BY <2>2, <2>3, StillOnce
<1> QED BY <1>3, <1>4, <1>5, <1>6, <1>7, <1>8

-----------------------------------------------------------------------------
(***************************************************************************)
(* Steps in which events change their places.                              *)
(***************************************************************************)
LEMMA MovedOnce ==
    ASSUME Typed, Held, NEW at, AtOnePlace(at), NEW at2, at2 = [id \in 1..MaxActs |-> at2[id]],
           NEW w \in Workers, NEW from, from \in {InBatch(w), AtWork(w), InQueue}, Moved(at, at2, from),
           NEW d, Fit(w, d), WorkAt(at2, w, d), used' = used,
           AllAt(at2, queue', InQueue), Sorted(queue'), AllAt(at2, pending', InFills), StepsAt(at2, steps')
    PROVE  Once'
<1>1. \A id \in 1..MaxActs : id > used'.acts => at2[id] = Nowhere
    BY PlacesDiffer DEF AtOnePlace, Moved
<1>2. ASSUME NEW v \in Workers PROVE WorkAt(at2, v, co'[v])
  <2>1. CASE v = w BY <2>1, FitFits
  <2>2. CASE v # w
    <3>1. co'[v] = co[v] BY <2>2, FitFits
    <3>2. co[v] \in Coroutines /\ Holding(co[v]) /\ WorkAt(at, v, co[v]) BY Goer DEF AtOnePlace
    <3>3. from \notin {InFills, InBatch(v), AtWork(v)} BY <2>2, PlacesDiffer
    <3> QED BY <3>1, <3>2, <3>3, WorkStays
  <2> QED BY <2>1, <2>2
<1>3. AtOnePlace(at2)'
    BY <1>1, <1>2 DEF AtOnePlace, AllAt, Sorted, StepsAt, WorkAt, Workers, Nowhere, InQueue, InFills, InBatch,
                      AtWork, InSteps, StepAt
<1> QED BY <1>3 DEF Once

LEMMA ActOnce ==
    ASSUME Typed, Held, NEW at, AtOnePlace(at), NEW by \in {"user", "agent"}, Act(by)
    PROVE  Once'
<1>1. PICK x : NewEvent(x, by) /\ queue' = Append(queue, x) BY ActGoes
<1>2. /\ used'.acts = used.acts + 1 /\ UNCHANGED <<stateVars, co, steps>>
      /\ used.acts \in 0..MaxActs /\ MaxActs \in Nat /\ x \in EventRecord /\ x.id = used.acts + 1
      /\ queue \in Seq(EventRecord)
    BY <1>1, ActGoes, Workplaces DEF Typed, NewEvent
<1>3. x.id \in 1..MaxActs BY <1>2 DEF EventRecord
<1>4. PICK at2 : at2 = [at EXCEPT ![x.id] = InQueue] OBVIOUS
<1>5. /\ at2 = [id \in 1..MaxActs |-> at2[id]] /\ at2[x.id] = InQueue
      /\ \A id \in 1..MaxActs : id # x.id => at2[id] = at[id]
    BY <1>3, <1>4 DEF AtOnePlace
<1>6. at[x.id] = Nowhere BY <1>2, <1>3 DEF AtOnePlace
<1>7. Moved(at, at2, Nowhere) BY <1>5, <1>6 DEF Moved
<1>8. \A id \in 1..MaxActs : id > used'.acts => at2[id] = Nowhere BY <1>2, <1>5 DEF AtOnePlace
<1>9. AllAt(at2, queue, InQueue) /\ AllAt(at2, pending, InFills) /\ StepsAt(at2, steps)
  <2>1. /\ AllAt(at, queue, InQueue) /\ AllAt(at, pending, InFills) /\ StepsAt(at, steps)
        /\ pending \in Seq(EventRecord) /\ steps \in Seq(EventRecord)
      BY DEF AtOnePlace, Typed
  <2> QED BY <1>2, <1>7, <2>1, ListStays, StepsStay, PlacesDiffer
<1>10. AllAt(at2, queue', InQueue) /\ Sorted(queue')
  <2>1. /\ DOMAIN queue' = 1..(Len(queue) + 1) /\ DOMAIN queue = 1..Len(queue) /\ Len(queue) \in Nat
        /\ \A i \in 1..(Len(queue) + 1) : queue'[i] = IF i = Len(queue) + 1 THEN x ELSE queue[i]
      BY <1>1, <1>2
  <2>2. AllAt(at2, queue', InQueue) BY <1>5, <1>9, <2>1 DEF AllAt
  <2>3. ASSUME NEW i \in DOMAIN queue PROVE queue[i].id <= used.acts
    <3>1. queue[i].id \in 1..MaxActs BY <1>2, Ids
    <3>2. at[queue[i].id] = InQueue BY DEF AtOnePlace, AllAt
    <3> QED BY <1>2, <3>1, <3>2, PlacesDiffer DEF AtOnePlace
  <2>4. ASSUME NEW i \in DOMAIN queue', NEW j \in DOMAIN queue', i < j PROVE queue'[i].id < queue'[j].id
    <3>1. i \in DOMAIN queue /\ queue'[i] = queue[i] BY <2>1, <2>4
    <3>2. CASE j = Len(queue) + 1
      <4>1. queue[i].id \in 1..MaxActs BY <1>2, <3>1, Ids
      <4> QED BY <1>2, <2>1, <2>3, <3>1, <3>2, <4>1
    <3>3. CASE j # Len(queue) + 1
      <4>1. j \in DOMAIN queue /\ queue'[j] = queue[j] BY <2>1, <3>3
      <4> QED BY <2>4, <3>1, <4>1 DEF AtOnePlace, Sorted
    <3> QED BY <3>2, <3>3
  <2> QED BY <2>2, <2>4 DEF Sorted
<1>11. ASSUME NEW v \in Workers PROVE WorkAt(at2, v, co'[v])
  <2>1. co'[v] = co[v] BY <1>2
  <2>2. co[v] \in Coroutines /\ Holding(co[v]) /\ WorkAt(at, v, co[v]) BY Goer DEF AtOnePlace
  <2>3. Nowhere \notin {InFills, InBatch(v), AtWork(v)} BY PlacesDiffer
  <2> QED BY <1>7, <2>1, <2>2, <2>3, WorkStays
<1>12. pending' = pending /\ steps' = steps BY <1>2 DEF stateVars
<1>13. AtOnePlace(at2)'
    BY <1>5, <1>8, <1>9, <1>10, <1>11, <1>12 DEF AtOnePlace, AllAt, Sorted, StepsAt, WorkAt, Workers, Nowhere,
        InQueue, InFills, InBatch, AtWork, InSteps, StepAt
<1> QED BY <1>13 DEF Once

LEMMA LoadOnce == ASSUME Typed, Held, NEW at, AtOnePlace(at), Load PROVE Once'
<1>1. used'.acts = used.acts /\ queue' = <<>> /\ pending' = pending /\ steps' = steps /\ co' = co
    BY DEF Typed, Load, stateVars
<1>2. \A w \in Workers : WorkAt(at, w, co'[w]) BY <1>1 DEF AtOnePlace
<1> QED BY <1>1, <1>2, StillOnce

LEMMA DrainOnce == ASSUME Typed, Held, NEW at, AtOnePlace(at), NEW q \in Polls, Drain(q) PROVE Once'
<1>1. PICK d : Fit(q, d) /\ d.pc = "taking" /\ d.batch = queue /\ d.fills = co[q].fills BY DrainGoes
<1>2. PICK at2 : at2 = [id \in 1..MaxActs |-> IF at[id] = InQueue THEN InBatch(q) ELSE at[id]] OBVIOUS
<1>3. at2 = [id \in 1..MaxActs |-> at2[id]] /\ Moved(at, at2, InQueue) BY <1>2 DEF Moved
<1>4. q \in Workers /\ queue \in Seq(EventRecord) /\ pending \in Seq(EventRecord) /\ steps \in Seq(EventRecord)
    BY Workplaces DEF Typed
<1>5. AllAt(at2, queue, InBatch(q)) /\ Sorted(queue)
  <2>1. AllAt(at, queue, InQueue) /\ Sorted(queue) BY DEF AtOnePlace
  <2> QED BY <1>2, <1>4, <2>1, Ids DEF AllAt
<1>6. AllAt(at2, pending, InFills) /\ StepsAt(at2, steps) /\ AllAt(at2, co[q].fills, InFills)
  <2>1. /\ AllAt(at, pending, InFills) /\ StepsAt(at, steps) /\ WorkAt(at, q, co[q]) BY <1>4 DEF AtOnePlace
  <2>2. AllAt(at, co[q].fills, InFills) BY <2>1 DEF WorkAt
  <2>3. PICK fills \in Seq(EventRecord) : fills = co[q].fills BY <1>4, Goer, Fields
  <2>4. AllAt(at2, fills, InFills) /\ AllAt(at2, pending, InFills)
      BY <1>3, <1>4, <2>1, <2>2, <2>3, ListStays, PlacesDiffer
  <2>5. StepsAt(at2, steps) BY <1>3, <1>4, <2>1, StepsStay, PlacesDiffer
  <2> QED BY <2>3, <2>4, <2>5
<1>7. WorkAt(at2, q, d) BY <1>1, <1>5, <1>6 DEF WorkAt
<1>8. used' = used /\ queue' = <<>> /\ pending' = pending /\ steps' = steps BY DEF Drain, stateVars
<1>9. AllAt(at2, queue', InQueue) /\ Sorted(queue') BY <1>8 DEF AllAt, Sorted
<1> QED BY <1>1, <1>3, <1>4, <1>6, <1>7, <1>8, <1>9, MovedOnce

LEMMA RankedOnce == ASSUME Typed, Held, NEW at, AtOnePlace(at), NEW w \in Workers, Ranked(w) PROVE Once'
<1>1. /\ co[w].step \in EventRecord /\ steps' = Append(steps, co[w].step) /\ co[w].pc = "ranking"
      /\ co[w].after \in {"own", "taking", "flushing"}
    BY RankedGoes
<1>2. PICK d : Fit(w, d) /\ Stays(d, co[w], co[w].after) BY RankedGoes
<1>3. PICK x : x = co[w].step OBVIOUS
<1>4. PICK n : n = Len(steps) + 1 OBVIOUS
<1>5. x \in EventRecord /\ x.id \in 1..MaxActs /\ at[x.id] = StepAt(x, AtWork(w))
    BY <1>1, <1>3 DEF AtOnePlace, WorkAt, EventRecord
<1>6. PICK at2 : at2 = [id \in 1..MaxActs |-> IF at[id] = AtWork(w) THEN InSteps(n) ELSE at[id]] OBVIOUS
<1>7. at2 = [id \in 1..MaxActs |-> at2[id]] /\ Moved(at, at2, AtWork(w)) BY <1>6 DEF Moved
<1>8. queue \in Seq(EventRecord) /\ pending \in Seq(EventRecord) /\ steps \in Seq(EventRecord) BY DEF Typed
<1>9. /\ AllAt(at, pending, InFills) /\ StepsAt(at, steps) /\ WorkAt(at, w, co[w]) /\ AllAt(at, queue, InQueue)
      /\ Sorted(queue)
    BY DEF AtOnePlace
<1>10. AllAt(at2, pending, InFills) /\ AllAt(at2, queue, InQueue)
    BY <1>7, <1>8, <1>9, ListStays, PlacesDiffer
<1>11. StepsAt(at2, steps) BY <1>7, <1>8, <1>9, StepsStay, PlacesDiffer
<1>12. at2[x.id] = StepAt(x, InSteps(n))
  <2>1. CASE x.kind = "input" BY <1>5, <1>6, <2>1, PlacesDiffer DEF StepAt
  <2>2. CASE x.kind # "input" BY <1>5, <1>6, <2>2 DEF StepAt
  <2> QED BY <2>1, <2>2
<1>13. StepsAt(at2, steps')
  <2>1. /\ DOMAIN steps' = 1..n /\ DOMAIN steps = 1..(n - 1) /\ n \in Nat
        /\ \A i \in 1..n : steps'[i] = IF i = n THEN x ELSE steps[i]
      BY <1>1, <1>3, <1>4, <1>8
  <2> QED BY <1>11, <1>12, <2>1 DEF StepsAt
<1>14. WorkAt(at2, w, d)
  <2>1. PICK batch \in Seq(EventRecord) : batch = co[w].batch BY Goer, Fields
  <2>2. PICK fills \in Seq(EventRecord) : fills = co[w].fills BY Goer, Fields
  <2>3. AllAt(at, batch, InBatch(w)) /\ Sorted(batch) /\ AllAt(at, fills, InFills) BY <1>9, <2>1, <2>2 DEF WorkAt
  <2>4. AllAt(at2, batch, InBatch(w)) /\ AllAt(at2, fills, InFills) BY <1>7, <2>3, ListStays, PlacesDiffer
  <2> QED BY <1>1, <1>2, <2>1, <2>2, <2>3, <2>4 DEF WorkAt, Stays
<1>15. used' = used /\ queue' = queue /\ pending' = pending BY DEF Ranked, pageVars, stateVars
<1>16. /\ AllAt(at2, queue', InQueue) /\ Sorted(queue') /\ AllAt(at2, pending', InFills) BY <1>9, <1>10, <1>15
<1> QED BY <1>2, <1>7, <1>13, <1>14, <1>15, <1>16, MovedOnce

IsMap(at) == at = [id \in 1..MaxActs |-> at[id]]
FirstOf(list, x, at, place) ==
    list \in Seq(EventRecord) /\ list # <<>> /\ x = list[1] /\ AllAt(at, list, place) /\ Sorted(list)
Takes(at, at2, x, place) == at2 = [at EXCEPT ![x.id] = StepAt(x, place)]
Taken(at, at2, x, list, w) ==
    /\ IsMap(at2) /\ Moved(at, at2, InBatch(w))
    /\ at2[x.id] = StepAt(x, AtWork(w)) /\ AllAt(at2, Tail(list), InBatch(w)) /\ Sorted(Tail(list))

\* The first event of a batch goes to work.
LEMMA HeadMoves ==
    ASSUME NEW at, NEW w, NEW list, NEW x, NEW at2
    PROVE  IsMap(at) /\ FirstOf(list, x, at, InBatch(w)) /\ Takes(at, at2, x, AtWork(w)) =>
           Taken(at, at2, x, list, w)
<1>0. HAVE IsMap(at) /\ FirstOf(list, x, at, InBatch(w)) /\ Takes(at, at2, x, AtWork(w))
<1>00. list \in Seq(EventRecord) /\ list # <<>> /\ x = list[1] /\ AllAt(at, list, InBatch(w)) /\ Sorted(list)
    BY <1>0 DEF FirstOf
<1>1. 1 \in DOMAIN list /\ Tail(list) \in Seq(EventRecord) BY <1>00, TailFits
<1>2. x.id \in 1..MaxActs BY <1>00, <1>1, Ids
<1>3. at2 = [id \in 1..MaxActs |-> at2[id]] /\ at2[x.id] = StepAt(x, AtWork(w))
      /\ \A id \in 1..MaxActs : id # x.id => at2[id] = at[id]
    BY <1>0, <1>2 DEF IsMap, Takes
<1>4. at[x.id] = InBatch(w) BY <1>00, <1>1 DEF AllAt
<1>5. PICK tail : tail = Tail(list) OBVIOUS
<1>6. Sorted(tail) /\ (\A i \in DOMAIN tail : tail[i].id # x.id) /\ AllAt(at, tail, InBatch(w))
    BY <1>00, <1>5, TailStays
<1>7. AllAt(at2, tail, InBatch(w))
  <2>1. tail \in Seq(EventRecord) BY <1>1, <1>5
  <2>2. \A i \in DOMAIN tail : tail[i].id \in 1..MaxActs BY <2>1, Ids
  <2> QED BY <1>3, <1>6, <2>2 DEF AllAt
<1> QED BY <1>3, <1>4, <1>5, <1>6, <1>7 DEF Moved, Taken, IsMap

LEMMA ProcessOwnOnce == ASSUME Typed, Held, NEW at, AtOnePlace(at), NEW q \in Polls, ProcessOwn(q) PROVE Once'
<1>1. PICK d : Fit(q, d) /\ (Skips(d, co[q]) \/ ComesOut(d, co[q])) BY ProcessOwnGoes
<1>2. q \in Workers /\ pending \in Seq(EventRecord) /\ steps \in Seq(EventRecord) /\ queue \in Seq(EventRecord)
    BY Workplaces DEF Typed
<1>3. PICK batch : batch = co[q].batch OBVIOUS
<1>4. batch \in Seq(EventRecord) /\ batch # <<>> BY <1>2, <1>3, ProcessOwnGoes, Goer, Fields
<1>5. PICK fills \in Seq(EventRecord) : fills = co[q].fills BY <1>2, Goer, Fields
<1>6. /\ AllAt(at, pending, InFills) /\ StepsAt(at, steps) /\ WorkAt(at, q, co[q]) /\ AllAt(at, queue, InQueue)
      /\ Sorted(queue) /\ at = [id \in 1..MaxActs |-> at[id]]
    BY <1>2 DEF AtOnePlace
<1>7. AllAt(at, batch, InBatch(q)) /\ Sorted(batch) /\ AllAt(at, fills, InFills) BY <1>3, <1>5, <1>6 DEF WorkAt
<1>8. used' = used /\ queue' = queue /\ pending' = pending /\ steps' = steps BY DEF ProcessOwn, pageVars
<1>9. CASE Skips(d, co[q])
  <2>1. AllAt(at, Tail(batch), InBatch(q)) /\ Sorted(Tail(batch)) BY <1>4, <1>7, TailStays
  <2>2. WorkAt(at, q, d) BY <1>3, <1>5, <1>7, <1>9, <2>1 DEF WorkAt, Skips
  <2>3. \A v \in Workers : WorkAt(at, v, co'[v]) BY <1>1, <1>2, <2>2, Others
  <2> QED BY <1>8, <2>3, StillOnce
<1>10. CASE ComesOut(d, co[q])
  <2>1. PICK x : x = batch[1] OBVIOUS
  <2>2. PICK at2 : Takes(at, at2, x, AtWork(q)) BY DEF Takes
  <2>3. /\ at2 = [id \in 1..MaxActs |-> at2[id]] /\ Moved(at, at2, InBatch(q))
        /\ at2[x.id] = StepAt(x, AtWork(q)) /\ AllAt(at2, Tail(batch), InBatch(q)) /\ Sorted(Tail(batch))
    <3>1. FirstOf(batch, x, at, InBatch(q)) BY <1>4, <1>7, <2>1 DEF FirstOf
    <3>2. IsMap(at) BY <1>6 DEF IsMap
    <3>3. Taken(at, at2, x, batch, q) BY <3>1, <3>2, <2>2, HeadMoves
    <3> QED BY <3>3 DEF Taken, IsMap
  <2>4. AllAt(at2, pending, InFills) /\ AllAt(at2, queue, InQueue) /\ AllAt(at2, fills, InFills)
      BY <1>2, <1>5, <1>6, <1>7, <2>3, ListStays, PlacesDiffer
  <2>5. StepsAt(at2, steps) BY <1>2, <1>6, <2>3, StepsStay, PlacesDiffer
  <2>6. WorkAt(at2, q, d) BY <1>3, <1>5, <1>10, <2>1, <2>3, <2>4 DEF WorkAt, ComesOut
  <2>7. /\ AllAt(at2, queue', InQueue) /\ Sorted(queue') /\ AllAt(at2, pending', InFills) /\ StepsAt(at2, steps')
      BY <1>6, <1>8, <2>4, <2>5
  <2> QED BY <1>1, <1>2, <1>8, <2>3, <2>6, <2>7, MovedOnce
<1> QED BY <1>1, <1>9, <1>10

Passes(at, at2, batch, n) ==
    at2 = [id \in 1..MaxActs |-> IF \E i \in 1..n : batch[i].id = id THEN InFills ELSE at[id]]
Dealt(at, at2, rest, fills, w) ==
    /\ IsMap(at2) /\ Moved(at, at2, InBatch(w))
    /\ AllAt(at2, fills, InFills) /\ AllAt(at2, rest, InBatch(w)) /\ Sorted(rest)

\* The first n events of a batch are dealt with.
LEMMA PrefixMoves ==
    ASSUME Typed, Held, NEW at, AtOnePlace(at), NEW q \in Workers, NEW batch, batch = co[q].batch,
           NEW n \in 0..Len(batch), NEW rest, NEW fills, Split(batch, n, rest, fills),
           NEW at2, Passes(at, at2, batch, n)
    PROVE  Dealt(at, at2, rest, fills, q)
<1>0. at2 = [id \in 1..MaxActs |-> IF \E i \in 1..n : batch[i].id = id THEN InFills ELSE at[id]] BY DEF Passes
<1>1. batch \in Seq(EventRecord) /\ Len(batch) \in Nat /\ DOMAIN batch = 1..Len(batch)
  <2>1. batch \in Seq(EventRecord) BY Goer, Fields
  <2> QED BY <2>1
<1>2. AllAt(at, batch, InBatch(q)) /\ Sorted(batch) /\ AllAt(at, pending, InFills) BY DEF AtOnePlace, WorkAt
<1>3. at2 = [id \in 1..MaxActs |-> at2[id]] BY <1>0
<1>4. ASSUME NEW i \in 1..n PROVE i \in DOMAIN batch /\ at[batch[i].id] = InBatch(q) /\ at2[batch[i].id] = InFills
  <2>1. i \in DOMAIN batch BY <1>1
  <2>2. batch[i].id \in 1..MaxActs BY <1>1, <2>1, Ids
  <2> QED BY <1>0, <1>2, <2>1, <2>2 DEF AllAt
<1>5. Moved(at, at2, InBatch(q)) BY <1>0, <1>4 DEF Moved
<1>6. /\ rest \in Seq(EventRecord) /\ Len(rest) = Len(batch) - n
      /\ (\A i \in 1..(Len(batch) - n) : rest[i] = batch[n + i])
      /\ fills \in Seq(EventRecord) /\ FilledFrom(fills, pending, batch, n)
    BY DEF Split
<1>7. DOMAIN rest = 1..(Len(batch) - n) BY <1>1, <1>6
<1>8. \A i \in DOMAIN rest : n + i \in DOMAIN batch /\ rest[i] = batch[n + i] /\ n + i \notin 1..n BY <1>1, <1>6, <1>7
<1>9. Sorted(rest)
  <2>1. ASSUME NEW i \in DOMAIN rest, NEW j \in DOMAIN rest, i < j PROVE rest[i].id < rest[j].id
    <3>1. n + i \in DOMAIN batch /\ n + j \in DOMAIN batch /\ n + i < n + j BY <1>7, <1>8, <2>1
    <3> QED BY <1>2, <1>8, <3>1 DEF Sorted
  <2> QED BY <2>1 DEF Sorted
<1>10. ASSUME NEW i \in DOMAIN rest PROVE at2[rest[i].id] = InBatch(q)
  <2>1. n + i \in DOMAIN batch /\ rest[i] = batch[n + i] BY <1>8
  <2>2. batch[n + i].id \in 1..MaxActs /\ at[batch[n + i].id] = InBatch(q) BY <1>1, <1>2, <2>1, Ids DEF AllAt
  <2>3. ASSUME NEW j \in 1..n PROVE batch[j].id # batch[n + i].id
    <3>1. j \in DOMAIN batch /\ j < n + i BY <1>1, <1>4, <1>7
    <3>2. batch[j].id < batch[n + i].id BY <1>2, <2>1, <3>1 DEF Sorted
    <3>3. batch[j].id \in 1..MaxActs BY <1>1, <3>1, Ids
    <3> QED BY <2>2, <3>2, <3>3, Workplaces
  <2> QED BY <1>0, <2>1, <2>2, <2>3
<1>11. ASSUME NEW i \in DOMAIN fills PROVE at2[fills[i].id] = InFills
  <2>1. CASE \E j \in 1..n : fills[i] = batch[j] BY <1>4, <2>1
  <2>2. CASE \E j \in DOMAIN pending : fills[i] = pending[j]
    <3>1. PICK j \in DOMAIN pending : fills[i] = pending[j] BY <2>2
    <3>2. pending \in Seq(EventRecord) BY DEF Typed
    <3>3. pending[j].id \in 1..MaxActs BY <3>2, Ids
    <3>4. at[pending[j].id] = InFills BY <1>2 DEF AllAt
    <3> QED BY <1>0, <3>1, <3>3, <3>4
  <2> QED BY <1>6, <2>1, <2>2 DEF FilledFrom
<1> QED BY <1>3, <1>5, <1>9, <1>10, <1>11 DEF AllAt, Dealt, IsMap

LEMMA ProcessOnce == ASSUME Typed, Held, NEW at, AtOnePlace(at), NEW q \in Polls, Process(q) PROVE Once'
<1>1. PICK n \in 0..Len(co[q].batch) : \E rest, fills, d :
            /\ Split(co[q].batch, n, rest, fills)
            /\ d \in Coroutines /\ Holding(d) /\ ~d.cancelled
            /\ Becomes(q, d) /\ Goes4(d, co[q], rest, fills)
    BY ProcessGoes
<1>2. PICK rest, fills, d : /\ Split(co[q].batch, n, rest, fills)
                            /\ Fit(q, d) /\ Goes4(d, co[q], rest, fills)
    BY <1>1 DEF Fit
<1>3. PICK batch : batch = co[q].batch OBVIOUS
<1>4. q \in Workers /\ pending \in Seq(EventRecord) /\ steps \in Seq(EventRecord) /\ queue \in Seq(EventRecord)
    BY Workplaces DEF Typed
<1>5. PICK at2 : Passes(at, at2, batch, n) BY DEF Passes
<1>6. /\ at2 = [id \in 1..MaxActs |-> at2[id]] /\ Moved(at, at2, InBatch(q))
      /\ AllAt(at2, fills, InFills) /\ AllAt(at2, rest, InBatch(q)) /\ Sorted(rest)
  <2>1. n \in 0..Len(batch) /\ Split(batch, n, rest, fills) BY <1>2, <1>3
  <2>2. Dealt(at, at2, rest, fills, q) BY <1>3, <1>4, <1>5, <2>1, PrefixMoves
  <2> QED BY <2>2 DEF Dealt, IsMap
<1>7. rest \in Seq(EventRecord) /\ fills \in Seq(EventRecord) /\ Buffer(fills) BY <1>2 DEF Split
<1>8. /\ StepsAt(at, steps) /\ WorkAt(at, q, co[q]) /\ AllAt(at, queue, InQueue) /\ Sorted(queue)
    BY <1>4 DEF AtOnePlace
<1>9. PICK held \in Seq(EventRecord) : held = co[q].fills BY <1>4, Goer, Fields
<1>10. AllAt(at, held, InFills) BY <1>8, <1>9 DEF WorkAt
<1>11. AllAt(at2, queue, InQueue) /\ AllAt(at2, held, InFills)
    BY <1>4, <1>6, <1>8, <1>10, ListStays, PlacesDiffer
<1>12. StepsAt(at2, steps) BY <1>4, <1>6, <1>8, StepsStay, PlacesDiffer
<1>13. used' = used /\ queue' = queue /\ steps' = steps BY DEF Process, pageVars
<1>14. AllAt(at2, queue', InQueue) /\ Sorted(queue') /\ StepsAt(at2, steps') BY <1>8, <1>11, <1>12, <1>13
<1>15. ASSUME WorkAt(at2, q, d), AllAt(at2, pending', InFills) PROVE Once'
    BY <1>2, <1>4, <1>6, <1>13, <1>14, <1>15, MovedOnce
<1>16. CASE Passed(d, co[q], rest, fills)
  <2>1. AllAt(at2, d.fills, InFills) BY <1>9, <1>11, <1>16 DEF Passed, AllAt
  <2>2. WorkAt(at2, q, d) BY <1>16, <2>1 DEF Passed, WorkAt, AllAt, Sorted
  <2>3. AllAt(at2, pending', InFills) BY <1>16 DEF Passed, AllAt
  <2> QED BY <1>15, <2>2, <2>3
<1>17. CASE FlushesNow(d, rest, fills)
  <2>1. AllAt(at2, pending', InFills) BY <1>6, <1>17 DEF FlushesNow
  <2>2. PICK c : c = [batch |-> d.batch, fills |-> held, pc |-> "taking"] OBVIOUS
  <2>3. WorkAt(at2, q, c) BY <1>11, <1>17, <2>2 DEF FlushesNow, WorkAt, AllAt, Sorted
  <2>4. d.batch = c.batch /\ d.fills = Tail(fills) /\ d.step = fills[1] /\ fills # <<>>
      BY <1>17, <2>2 DEF FlushesNow
  <2>5. WorkAt(at2, q, d) BY <1>6, <1>7, <2>3, <2>4, FillAt
  <2> QED BY <1>15, <2>1, <2>5
<1>18. CASE FillIsFirst(d, co[q], rest, fills)
  <2>1. PICK i : i = PlaceOf(fills, rest[1].key) OBVIOUS
  <2>2. PICK less : less = RemoveAt(fills, i) OBVIOUS
  <2>3. /\ i \in DOMAIN fills /\ fills[i].kind = "input"
        /\ \A k \in DOMAIN less : \E j \in DOMAIN fills : less[k] = fills[j]
      BY <1>7, <1>18, <2>1, <2>2, RemovedBuffer DEF FillIsFirst
  <2>4. /\ pending' = less /\ d.step = fills[i] /\ d.pc = "ranking" /\ d.fills = held /\ d.batch = rest
      BY <1>9, <1>18, <2>1, <2>2 DEF FillIsFirst
  <2>5. AllAt(at2, less, InFills) BY <1>6, <2>3 DEF AllAt
  <2>6. at2[d.step.id] = StepAt(d.step, AtWork(q)) BY <1>6, <2>3, <2>4 DEF AllAt, StepAt
  <2>7. WorkAt(at2, q, d) BY <1>6, <1>11, <2>4, <2>6 DEF WorkAt
  <2> QED BY <1>15, <2>4, <2>5, <2>7
<1>19. CASE OwnComes(d, co[q], rest, fills)
  <2>1. PICK x : x = rest[1] OBVIOUS
  <2>2. rest # <<>> /\ pending' = fills /\ d.pc = "ranking" /\ d.step = x /\ d.fills = held /\ d.batch = Tail(rest)
      BY <1>9, <1>19, <2>1 DEF OwnComes
  <2>3. PICK at3 : Takes(at2, at3, x, AtWork(q)) BY DEF Takes
  <2>4. /\ at3 = [id \in 1..MaxActs |-> at3[id]] /\ Moved(at2, at3, InBatch(q))
        /\ at3[x.id] = StepAt(x, AtWork(q)) /\ AllAt(at3, Tail(rest), InBatch(q)) /\ Sorted(Tail(rest))
    <3>1. FirstOf(rest, x, at2, InBatch(q)) BY <1>6, <1>7, <2>1, <2>2 DEF FirstOf
    <3>2. IsMap(at2) BY <1>6 DEF IsMap
    <3>3. Taken(at2, at3, x, rest, q) BY <3>1, <3>2, <2>3, HeadMoves
    <3> QED BY <3>3 DEF Taken, IsMap
  <2>5. Moved(at, at3, InBatch(q)) BY <1>6, <2>4 DEF Moved
  <2>6. AllAt(at3, queue, InQueue) /\ AllAt(at3, held, InFills) /\ AllAt(at3, fills, InFills)
      BY <1>4, <1>6, <1>7, <1>11, <2>4, ListStays, PlacesDiffer
  <2>7. StepsAt(at3, steps) BY <1>4, <1>12, <2>4, StepsStay, PlacesDiffer
  <2>8. WorkAt(at3, q, d) BY <2>2, <2>4, <2>6 DEF WorkAt
  <2>9. AllAt(at3, queue', InQueue) /\ Sorted(queue') /\ StepsAt(at3, steps') /\ AllAt(at3, pending', InFills)
      BY <1>8, <1>13, <2>2, <2>6, <2>7
  <2> QED BY <1>2, <1>4, <1>13, <2>4, <2>5, <2>8, <2>9, MovedOnce
<1> QED BY <1>2, <1>16, <1>17, <1>18, <1>19 DEF Goes4

LEMMA OnceStays == Typed /\ Held /\ Once /\ [Next]_vars => Once'
<1> SUFFICES ASSUME Typed, Held, Once, [Next]_vars PROVE Once' OBVIOUS
<1>1. PICK at : AtOnePlace(at) BY DEF Once
<1>2. CASE UNCHANGED vars
  <2>1. \A w \in Workers : WorkAt(at, w, co'[w]) BY <1>1, <1>2 DEF AtOnePlace, vars
  <2>2. used' = used /\ queue' = queue /\ pending' = pending /\ steps' = steps
      BY <1>2 DEF vars, pageVars, stateVars
  <2> QED BY <1>1, <2>1, <2>2, StillOnce
<1>3. CASE UserActs \/ Load \/ \E p \in Panels : AgentActs(p) BY <1>1, <1>3, ActOnce, LoadOnce DEF UserActs, AgentActs
<1>4. ASSUME NEW q \in Polls, PollStep(q) PROVE Once'
  <2>1. q \in Workers BY Workplaces
  <2> QED BY <1>1, <1>4, <2>1, QuietPoll, DrainOnce, ProcessOnce, ProcessOwnOnce, RankedOnce DEF PollStep
<1>5. ASSUME NEW p \in Panels, Start(p) \/ Stop(p) \/ Suspend(p) \/ HandlerStep(p) PROVE Once'
  <2>1. p \in Workers BY Workplaces
  <2> QED BY <1>1, <1>5, <2>1, QuietPoll, QuietHandler, RankedOnce DEF HandlerStep
<1> QED BY <1>2, <1>3, <1>4, <1>5 DEF Next

\* A click or key on the page becomes at most one recorded step, whatever the order of drains,
\* page loads, stops in the middle of a batch, cancelled polls and messages of any number of
\* panels (_process_capture_event, handle_stop_recording).
THEOREM EventsActOnce == Spec => []ActsOnce
<1>1. Typed /\ Once => ActsOnce BY OnceIsOnce DEF Typed
<1> QED BY <1>1, TypedInit, TypedStays, OnceInit, OnceStays, PTL DEF Spec

-----------------------------------------------------------------------------
(***************************************************************************)
(* One panel: its handler and the poll take turns.                         *)
(***************************************************************************)
OnePanel == \E p : Panels = {p}

AtWorkNow == {"created", "sleeping", "taking", "own", "ranking", "flushing"}
Working(c) == ~c.cancelled /\ c.pc \in AtWorkNow

Polling(q, c, task) == c.pc \in AtWorkNow \cup {"idle"} /\ (Working(c) => task = q)

Handles(c, rec, task, deep) ==
    /\ ~c.cancelled /\ c.batch = <<>> /\ c.pc \notin {"created", "sleeping", "taking", "own"}
    /\ c.pc \in {"injecting", "arming"} => rec /\ task = NoPoll
    /\ c.pc \in {"ranking", "flushing", "disarming"} => ~rec
    /\ c.pc = "ranking" => c.after = "flushing"
    /\ c.pc \in {"suspending", "restoring"} => rec
    /\ deep = IF c.pc \in {"suspending", "acting"} THEN 1 ELSE 0

Solo ==
    /\ pollTask # NoPoll => recording
    /\ \A q \in Polls : Polling(q, co[q], pollTask)
    /\ \A p \in Panels : Handles(co[p], recording, pollTask, depth)

LEMMA SoloInit == Init => Solo
<1> SUFFICES ASSUME Init PROVE Solo OBVIOUS
<1>1. \A w \in Workers : co[w] = Over BY DEF Init, Workers
<1>2. pollTask = NoPoll /\ ~recording /\ depth = 0 BY DEF Init
<1> QED BY <1>1, <1>2, OverFits, Workplaces DEF Solo, Polling, Handles, Working, AtWorkNow

\* A poll's turn.
LEMMA PollGoes ==
    ASSUME Typed, Held, Solo, NEW q \in Polls, PollStep(q)
    PROVE  /\ recording' = recording /\ pollTask' = pollTask /\ depth' = depth
           /\ (\A v \in Workers : v # q => co'[v] = co[v]) /\ CoFits
           /\ Polling(q, co'[q], pollTask)
           /\ ~Unwind(q) => Working(co[q])
<1>0. q \in Workers /\ Polling(q, co[q], pollTask) BY Workplaces DEF Solo
<1>1. CASE Begin(q) \/ DrainRaises(q)
  <2>1. PICK d : Fit(q, d) /\ Looped(d, co[q]) BY <1>1, LoopGoes
  <2>2. Working(co[q]) BY <1>1, LoopGoes DEF Working, AtWorkNow
  <2>3. recording' = recording /\ pollTask' = pollTask /\ depth' = depth
      BY <1>1 DEF Begin, DrainRaises, stateVars
  <2>4. Polling(q, d, pollTask) BY <1>0, <2>1, <2>2 DEF Polling, Looped, Working, AtWorkNow
  <2> QED BY <1>0, <2>1, <2>2, <2>3, <2>4, FitFits
<1>2. CASE Drain(q)
  <2>1. PICK d : Fit(q, d) /\ d.pc = "taking" BY <1>2, DrainGoes
  <2>2. Working(co[q]) BY <1>2, DrainGoes DEF Working, AtWorkNow
  <2>3. recording' = recording /\ pollTask' = pollTask /\ depth' = depth BY <1>2 DEF Drain, stateVars
  <2>4. Polling(q, d, pollTask) BY <1>0, <2>1, <2>2 DEF Polling, Working, AtWorkNow
  <2> QED BY <1>0, <2>1, <2>2, <2>3, <2>4, FitFits
<1>3. CASE Process(q)
  <2>1. PICK n \in 0..Len(co[q].batch) : \E rest, fills, d :
              /\ Split(co[q].batch, n, rest, fills)
              /\ d \in Coroutines /\ Holding(d) /\ ~d.cancelled
              /\ Becomes(q, d) /\ Goes4(d, co[q], rest, fills)
      BY <1>3, ProcessGoes
  <2>2. PICK rest, fills, d : Fit(q, d) /\ Goes4(d, co[q], rest, fills) BY <2>1 DEF Fit
  <2>3. Working(co[q]) BY <1>3 DEF Process, Working, AtWorkNow
  <2>4. recording' = recording /\ pollTask' = pollTask /\ depth' = depth BY <1>3 DEF Process
  <2>5. d.pc \in {"sleeping", "idle", "ranking"}
      BY <2>2 DEF Goes4, Passed, FlushesNow, FillIsFirst, OwnComes
  <2>6. Polling(q, d, pollTask) BY <1>0, <2>3, <2>5 DEF Polling, Working, AtWorkNow
  <2> QED BY <1>0, <2>2, <2>3, <2>4, <2>6, FitFits
<1>4. CASE ProcessOwn(q)
  <2>1. PICK d : Fit(q, d) /\ (Skips(d, co[q]) \/ ComesOut(d, co[q])) BY <1>4, ProcessOwnGoes
  <2>2. Working(co[q]) BY <1>4, ProcessOwnGoes DEF Working, AtWorkNow
  <2>3. recording' = recording /\ pollTask' = pollTask /\ depth' = depth BY <1>4 DEF ProcessOwn
  <2>4. Polling(q, d, pollTask) BY <1>0, <2>1, <2>2 DEF Polling, Working, AtWorkNow, Skips, ComesOut
  <2> QED BY <1>0, <2>1, <2>2, <2>3, <2>4, FitFits
<1>5. CASE Ranked(q)
  <2>1. PICK d : Fit(q, d) /\ Stays(d, co[q], co[q].after) BY <1>0, <1>5, RankedGoes
  <2>2. Working(co[q]) /\ co[q].after \in {"own", "taking", "flushing"}
      BY <1>0, <1>5, RankedGoes DEF Working, AtWorkNow
  <2>3. recording' = recording /\ pollTask' = pollTask /\ depth' = depth BY <1>5 DEF Ranked, stateVars
  <2>4. Polling(q, d, pollTask) BY <1>0, <2>1, <2>2 DEF Polling, Working, AtWorkNow, Stays
  <2> QED BY <1>0, <2>1, <2>2, <2>3, <2>4, FitFits
<1>6. CASE FlushMore(q)
  <2>1. PICK d : Fit(q, d) /\ d.pc = "ranking" BY <1>0, <1>6, FlushMoreGoes
  <2>2. Working(co[q]) BY <1>0, <1>6, FlushMoreGoes DEF Working, AtWorkNow
  <2>3. recording' = recording /\ pollTask' = pollTask /\ depth' = depth BY <1>6 DEF FlushMore, stateVars
  <2>4. Polling(q, d, pollTask) BY <1>0, <2>1, <2>2 DEF Polling, Working, AtWorkNow
  <2> QED BY <1>0, <2>1, <2>2, <2>3, <2>4, FitFits
<1>7. CASE Flushed(q)
  <2>1. PICK d : Fit(q, d) /\ Looped(d, co[q]) BY <1>0, <1>7, FlushedGoes
  <2>2. Working(co[q]) BY <1>0, <1>7, FlushedGoes DEF Working, AtWorkNow
  <2>3. recording' = recording /\ pollTask' = pollTask /\ depth' = depth BY <1>7 DEF Flushed
  <2>4. Polling(q, d, pollTask) BY <1>0, <2>1, <2>2 DEF Polling, Working, AtWorkNow, Looped
  <2> QED BY <1>0, <2>1, <2>2, <2>3, <2>4, FitFits
<1>8. CASE Unwind(q)
  <2>1. Fit(q, Over) BY <1>8, UnwindGoes
  <2>2. recording' = recording /\ pollTask' = pollTask /\ depth' = depth BY <1>8 DEF Unwind, stateVars
  <2>3. Polling(q, Over, pollTask) BY OverFits DEF Polling, Working, AtWorkNow
  <2> QED BY <1>0, <1>8, <2>1, <2>2, <2>3, FitFits
<1> QED BY <1>1, <1>2, <1>3, <1>4, <1>5, <1>6, <1>7, <1>8 DEF PollStep

LEMMA PollSolo == ASSUME Typed, Held, Solo, NEW q \in Polls, PollStep(q) PROVE Solo'
<1>1. /\ recording' = recording /\ pollTask' = pollTask /\ depth' = depth
      /\ (\A v \in Workers : v # q => co'[v] = co[v]) /\ Polling(q, co'[q], pollTask)
    BY PollGoes
<1>2. \A p \in Panels : co'[p] = co[p] BY <1>1, Workplaces
<1>3. ASSUME NEW v \in Polls PROVE Polling(v, co'[v], pollTask')
  <2>1. CASE v = q BY <1>1, <2>1
  <2>2. CASE v # q BY <1>1, <2>2, Workplaces DEF Solo
  <2> QED BY <2>1, <2>2
<1>4. \A p \in Panels : Handles(co'[p], recording', pollTask', depth') BY <1>1, <1>2 DEF Solo
<1>5. pollTask' # NoPoll => recording' BY <1>1 DEF Solo
<1> QED BY <1>3, <1>4, <1>5 DEF Solo

\* The panel's turn.
LEMMA PanelSolo ==
    ASSUME Typed, Held, Solo, NEW p, Panels = {p}, Start(p) \/ Stop(p) \/ Suspend(p) \/ HandlerStep(p)
    PROVE  Solo'
<1>0. p \in Panels /\ p \in Workers /\ p \notin Polls /\ Handles(co[p], recording, pollTask, depth)
      /\ depth \in Nat /\ (pollTask # NoPoll => recording)
    BY Workplaces DEF Solo, Typed
<1>1. ASSUME \A v \in Workers : v # p => co'[v] = co[v], pollTask' = pollTask, pollTask # NoPoll => recording',
             Handles(co'[p], recording', pollTask, depth')
      PROVE  Solo'
  <2>1. \A q \in Polls : Polling(q, co'[q], pollTask') BY <1>0, <1>1, Workplaces DEF Solo
  <2>2. \A v \in Panels : Handles(co'[v], recording', pollTask', depth') BY <1>1
  <2> QED BY <1>1, <2>1, <2>2 DEF Solo
<1>2. CASE Start(p)
  <2>1. (IF injected THEN "arming" ELSE "injecting") \in Places \ {"own", "ranking"} BY DEF Places
  <2>2. Stays(co'[p], co[p], IF injected THEN "arming" ELSE "injecting") /\ \A v \in Workers : v # p => co'[v] = co[v]
      BY <1>0, <1>2, <2>1, PlaceGoes DEF Start
  <2>3. ~recording /\ recording' /\ depth' = depth /\ pollTask' = pollTask /\ co[p].pc = "idle"
      BY <1>2 DEF Start, Called
  <2>4. Handles(co'[p], recording', pollTask, depth') BY <1>0, <2>2, <2>3 DEF Handles, Stays
  <2> QED BY <1>1, <2>2, <2>3, <2>4
<1>3. CASE Stop(p)
  <2>1. /\ co[p].pc = "idle" /\ ~recording' /\ pollTask' = NoPoll
        /\ IF pending = <<>> THEN Stays(co'[p], co[p], "disarming") ELSE Flushed1(co'[p], co[p])
        /\ \A q \in Polls : /\ Marked(co'[q], co[q])
                            /\ co[q].cancelled => co'[q].cancelled
                            /\ q = pollTask => co[q] = Over \/ co'[q].cancelled
      BY <1>0, <1>3, StopGoes
  <2>2. depth' = depth BY <1>3 DEF Stop
  <2>3. Handles(co'[p], recording', pollTask', depth') BY <1>0, <2>1, <2>2 DEF Handles, Stays, Flushed1
  <2>4. ASSUME NEW q \in Polls PROVE Polling(q, co'[q], pollTask')
    <3>1. Polling(q, co[q], pollTask) BY DEF Solo
    <3>2. ~Working(co'[q])
      <4>1. CASE q = pollTask BY <2>1, <4>1, OverFits DEF Working, Marked, AtWorkNow
      <4>2. CASE q # pollTask BY <2>1, <3>1, <4>2 DEF Working, Marked, Polling
      <4> QED BY <4>1, <4>2
    <3> QED BY <2>1, <3>1, <3>2 DEF Polling, Marked
  <2> QED BY <2>1, <2>3, <2>4 DEF Solo
<1>4. CASE Suspend(p)
  <2>1. (IF depth = 0 /\ recording THEN "suspending" ELSE "acting") \in Places \ {"own", "ranking"} BY DEF Places
  <2>2. /\ Stays(co'[p], co[p], IF depth = 0 /\ recording THEN "suspending" ELSE "acting")
        /\ \A v \in Workers : v # p => co'[v] = co[v]
      BY <1>0, <1>4, <2>1, PlaceGoes DEF Suspend
  <2>3. recording' = recording /\ depth' = depth + 1 /\ pollTask' = pollTask /\ co[p].pc = "idle"
      BY <1>4 DEF Suspend, Called
  <2>4. Handles(co'[p], recording', pollTask, depth') BY <1>0, <2>2, <2>3 DEF Handles, Stays
  <2> QED BY <1>0, <1>1, <2>2, <2>3, <2>4
<1>5. CASE Inject(p)
  <2>1. "arming" \in Places \ {"own", "ranking"} BY DEF Places
  <2>2. Stays(co'[p], co[p], "arming") /\ \A v \in Workers : v # p => co'[v] = co[v]
      BY <1>0, <1>5, <2>1, PlaceGoes DEF Inject
  <2>3. recording' = recording /\ depth' = depth /\ pollTask' = pollTask /\ co[p].pc = "injecting"
      BY <1>5 DEF Inject, stateVars
  <2>4. Handles(co'[p], recording', pollTask, depth') BY <1>0, <2>2, <2>3 DEF Handles, Stays
  <2> QED BY <1>0, <1>1, <2>2, <2>3, <2>4
<1>6. CASE Arm(p)
  <2>1. PICK q \in Polls :
             /\ co[q] = Over /\ pollTask' = q /\ co'[p] = Over
             /\ Stays(co'[q], Over, "created")
             /\ \A v \in Workers : v # p /\ v # q => co'[v] = co[v]
      BY <1>0, <1>6, ArmGoes
  <2>2. recording' = recording /\ depth' = depth /\ co[p].pc = "arming" BY <1>6 DEF Arm
  <2>3. recording /\ pollTask = NoPoll /\ depth = 0 BY <1>0, <2>2 DEF Handles
  <2>4. Handles(co'[p], recording', pollTask', depth') BY <2>1, <2>2, <2>3, OverFits DEF Handles
  <2>5. ASSUME NEW v \in Polls PROVE Polling(v, co'[v], pollTask')
    <3>1. CASE v = q BY <2>1, <3>1, OverFits DEF Polling, Stays, AtWorkNow
    <3>2. CASE v # q
      <4>1. co'[v] = co[v] BY <1>0, <2>1, <3>2, Workplaces
      <4> QED BY <2>3, <4>1, Workplaces DEF Polling, Solo
    <3> QED BY <3>1, <3>2
  <2> QED BY <2>2, <2>3, <2>4, <2>5 DEF Solo
<1>7. CASE Disarm(p)
  <2>1. Fit(p, Over) BY <1>7, OverFits DEF Disarm, Fit, Becomes
  <2>2. co'[p] = Over /\ \A v \in Workers : v # p => co'[v] = co[v] BY <1>0, <2>1, FitFits
  <2>3. recording' = recording /\ depth' = depth /\ pollTask' = pollTask /\ co[p].pc = "disarming"
      BY <1>7 DEF Disarm, stateVars
  <2>4. Handles(co'[p], recording', pollTask, depth') BY <1>0, <2>2, <2>3, OverFits DEF Handles
  <2> QED BY <1>0, <1>1, <2>2, <2>3, <2>4
<1>8. CASE Suspended(p)
  <2>1. "acting" \in Places \ {"own", "ranking"} BY DEF Places
  <2>2. Stays(co'[p], co[p], "acting") /\ \A v \in Workers : v # p => co'[v] = co[v]
      BY <1>0, <1>8, <2>1, PlaceGoes DEF Suspended
  <2>3. recording' = recording /\ depth' = depth /\ pollTask' = pollTask /\ co[p].pc = "suspending"
      BY <1>8 DEF Suspended, stateVars
  <2>4. Handles(co'[p], recording', pollTask, depth') BY <1>0, <2>2, <2>3 DEF Handles, Stays
  <2> QED BY <1>0, <1>1, <2>2, <2>3, <2>4
<1>9. CASE Resume(p)
  <2>1. (IF depth' = 0 /\ recording THEN "restoring" ELSE "idle") \in Places \ {"own", "ranking"} BY DEF Places
  <2>2. /\ Stays(co'[p], co[p], IF depth' = 0 /\ recording THEN "restoring" ELSE "idle")
        /\ \A v \in Workers : v # p => co'[v] = co[v]
      BY <1>0, <1>9, <2>1, PlaceGoes DEF Resume
  <2>3. recording' = recording /\ pollTask' = pollTask /\ co[p].pc = "acting" BY <1>9 DEF Resume
  <2>4. depth' = 0 BY <1>0, <1>9, <2>3 DEF Handles, Resume
  <2>5. Handles(co'[p], recording', pollTask, depth') BY <1>0, <2>2, <2>3, <2>4 DEF Handles, Stays
  <2> QED BY <1>0, <1>1, <2>2, <2>3, <2>5
<1>10. CASE Restore(p)
  <2>1. "idle" \in Places \ {"own", "ranking"} BY DEF Places
  <2>2. Stays(co'[p], co[p], "idle") /\ \A v \in Workers : v # p => co'[v] = co[v]
      BY <1>0, <1>10, <2>1, PlaceGoes DEF Restore
  <2>3. recording' = recording /\ depth' = depth /\ pollTask' = pollTask /\ co[p].pc = "restoring"
      BY <1>10 DEF Restore, stateVars
  <2>4. Handles(co'[p], recording', pollTask, depth') BY <1>0, <2>2, <2>3 DEF Handles, Stays
  <2> QED BY <1>0, <1>1, <2>2, <2>3, <2>4
<1>11. CASE Ranked(p)
  <2>1. PICK d : Fit(p, d) /\ Stays(d, co[p], co[p].after) BY <1>0, <1>11, RankedGoes
  <2>2. co'[p] = d /\ \A v \in Workers : v # p => co'[v] = co[v] BY <1>0, <2>1, FitFits
  <2>3. recording' = recording /\ depth' = depth /\ pollTask' = pollTask /\ co[p].pc = "ranking"
      BY <1>11 DEF Ranked, stateVars
  <2>4. Handles(co'[p], recording', pollTask, depth') BY <1>0, <2>1, <2>2, <2>3 DEF Handles, Stays
  <2> QED BY <1>0, <1>1, <2>2, <2>3, <2>4
<1>12. CASE FlushMore(p)
  <2>1. PICK d : Fit(p, d) /\ d.pc = "ranking" /\ d.after = "flushing" /\ d.batch = co[p].batch
                 /\ d.cancelled = co[p].cancelled
      BY <1>0, <1>12, FlushMoreGoes
  <2>2. co'[p] = d /\ \A v \in Workers : v # p => co'[v] = co[v] BY <1>0, <2>1, FitFits
  <2>3. recording' = recording /\ depth' = depth /\ pollTask' = pollTask /\ co[p].pc = "flushing"
      BY <1>12 DEF FlushMore, stateVars
  <2>4. Handles(co'[p], recording', pollTask, depth') BY <1>0, <2>1, <2>2, <2>3 DEF Handles
  <2> QED BY <1>0, <1>1, <2>2, <2>3, <2>4
<1>13. CASE Flushed(p)
  <2>1. PICK d : Fit(p, d) /\ Stays(d, co[p], "disarming") BY <1>0, <1>13, FlushedGoes
  <2>2. co'[p] = d /\ \A v \in Workers : v # p => co'[v] = co[v] BY <1>0, <2>1, FitFits
  <2>3. recording' = recording /\ depth' = depth /\ pollTask' = pollTask /\ co[p].pc = "flushing"
      BY <1>13 DEF Flushed
  <2>4. Handles(co'[p], recording', pollTask, depth') BY <1>0, <2>1, <2>2, <2>3 DEF Handles, Stays
  <2> QED BY <1>0, <1>1, <2>2, <2>3, <2>4
<1> QED BY <1>2, <1>3, <1>4, <1>5, <1>6, <1>7, <1>8, <1>9, <1>10, <1>11, <1>12, <1>13 DEF HandlerStep

LEMMA SoloStays == ASSUME OnePanel PROVE Typed /\ Held /\ Solo /\ [Next]_vars => Solo'
<1> SUFFICES ASSUME Typed, Held, Solo, [Next]_vars PROVE Solo' OBVIOUS
<1>1. PICK p : Panels = {p} BY DEF OnePanel
<1>2. CASE UNCHANGED vars BY <1>2 DEF vars, stateVars, Solo
<1>3. CASE UserActs \/ Load \/ \E v \in Panels : AgentActs(v)
    BY <1>3 DEF UserActs, Load, AgentActs, Act, stateVars, Solo
<1> QED BY <1>1, <1>2, <1>3, PollSolo, PanelSolo DEF Next

\* Whoever works on the steps is alone.
LEMMA Alone ==
    ASSUME Solo, OnePanel, NEW v \in Workers, NEW w \in Workers, Working(co[v]), Working(co[w])
    PROVE  v = w
<1>1. PICK p : Panels = {p} BY DEF OnePanel
<1>2. \A u \in Panels : Working(co[u]) => ~recording BY DEF Solo, Handles, Working, AtWorkNow
<1>3. \A u \in Polls : Working(co[u]) => pollTask = u /\ recording BY Workplaces DEF Solo, Polling
<1> QED BY <1>1, <1>2, <1>3 DEF Workers

-----------------------------------------------------------------------------
(***************************************************************************)
(* The events of a list, whatever their order.                             *)
(***************************************************************************)
StepOf(c) == IF c.pc = "ranking" THEN {c.step} ELSE {}
Holds(c) == ToSet(c.batch) \cup ToSet(c.fills) \cup StepOf(c)

LEMMA EmptySet == ToSet(<<>>) = {}
BY DEF ToSet

LEMMA ListSet ==
    ASSUME NEW list \in Seq(EventRecord)
    PROVE  /\ ToSet(list) \subseteq EventRecord /\ ToSet(list) = {list[i] : i \in DOMAIN list}
           /\ \A i \in DOMAIN list : list[i] \in ToSet(list)
BY DEF ToSet

LEMMA TailSet ==
    ASSUME NEW list
    PROVE  list \in Seq(EventRecord) /\ list # <<>> =>
           /\ list[1] \in ToSet(list) /\ list[1] \in EventRecord /\ Tail(list) \in Seq(EventRecord)
           /\ ToSet(Tail(list)) \subseteq ToSet(list)
<1>0. HAVE list \in Seq(EventRecord) /\ list # <<>>
<1>1. PICK t : t = Tail(list) OBVIOUS
<1>2. /\ t \in Seq(EventRecord) /\ 1 \in DOMAIN list /\ Len(list) \in Nat \ {0}
      /\ DOMAIN list = 1..Len(list) /\ DOMAIN t = 1..(Len(list) - 1)
      /\ \A i \in 1..(Len(list) - 1) : t[i] = list[i + 1]
    BY <1>0, <1>1, TailFits
<1>3. \A i \in DOMAIN t : i + 1 \in DOMAIN list /\ t[i] = list[i + 1] BY <1>2
<1>4. ToSet(t) \subseteq ToSet(list) BY <1>3 DEF ToSet
<1>5. list[1] \in ToSet(list) /\ list[1] \in EventRecord BY <1>0, <1>2, TailFits DEF ToSet
<1> QED BY <1>1, <1>2, <1>4, <1>5

LEMMA AppendSet ==
    ASSUME NEW list \in Seq(EventRecord), NEW x \in EventRecord
    PROVE  ToSet(Append(list, x)) = ToSet(list) \cup {x}
<1>1. PICK more : more = Append(list, x) OBVIOUS
<1>2. /\ DOMAIN more = 1..(Len(list) + 1) /\ DOMAIN list = 1..Len(list) /\ Len(list) \in Nat
      /\ \A i \in 1..(Len(list) + 1) : more[i] = IF i = Len(list) + 1 THEN x ELSE list[i]
    BY <1>1
<1>3. \A i \in DOMAIN list : i \in DOMAIN more /\ more[i] = list[i] BY <1>2
<1>4. Len(list) + 1 \in DOMAIN more /\ more[Len(list) + 1] = x BY <1>2
<1>5. \A i \in DOMAIN more : more[i] = x \/ (i \in DOMAIN list /\ more[i] = list[i]) BY <1>2
<1> QED BY <1>1, <1>3, <1>4, <1>5 DEF ToSet

\* The buffered fill of an element taken out.
LEMMA LessSet ==
    ASSUME NEW list \in Seq(EventRecord), Buffer(list), NEW e, HasFill(list, e), NEW i, i = PlaceOf(list, e)
    PROVE  /\ list[i] \in ToSet(list) /\ list[i].key = e
           /\ ToSet(RemoveAt(list, i)) \subseteq ToSet(list)
           /\ \A x \in ToSet(RemoveAt(list, i)) : x.key # e
<1>1. PICK less : less = RemoveAt(list, i) OBVIOUS
<1>2. /\ i \in DOMAIN list /\ list[i].key = e
      /\ less \in Seq(EventRecord) /\ ~HasFill(less, e)
      /\ \A k \in DOMAIN less : \E j \in DOMAIN list : less[k] = list[j]
    BY <1>1, RemovedBuffer
<1> QED BY <1>1, <1>2 DEF ToSet, HasFill

LEMMA SplitSet ==
    ASSUME NEW batch, NEW n \in 0..Len(batch), NEW rest, NEW fills, Split(batch, n, rest, fills)
    PROVE  batch \in Seq(EventRecord) =>
           /\ ToSet(rest) \subseteq ToSet(batch) /\ ToSet(fills) \subseteq ToSet(pending) \cup ToSet(batch)
           /\ Sorted(batch) => \A x \in ToSet(fills), y \in ToSet(rest) : x \in ToSet(pending) \/ x.id < y.id
<1>0. HAVE batch \in Seq(EventRecord)
<1>1. /\ rest \in Seq(EventRecord) /\ Len(rest) = Len(batch) - n
      /\ \A i \in 1..(Len(batch) - n) : rest[i] = batch[n + i]
      /\ FilledFrom(fills, pending, batch, n)
    BY DEF Split
<1>2. DOMAIN batch = 1..Len(batch) /\ Len(batch) \in Nat /\ n \in Nat BY <1>0
<1>3. DOMAIN rest = 1..(Len(batch) - n) BY <1>1, <1>2
<1>4. \A i \in DOMAIN rest : n + i \in DOMAIN batch /\ rest[i] = batch[n + i] BY <1>1, <1>2, <1>3
<1>5. \A i \in 1..n : i \in DOMAIN batch BY <1>2
<1>6. ASSUME Sorted(batch), NEW x \in ToSet(fills), NEW y \in ToSet(rest) PROVE x \in ToSet(pending) \/ x.id < y.id
  <2>1. PICK k \in DOMAIN fills : x = fills[k] BY <1>6 DEF ToSet
  <2>2. PICK i \in DOMAIN rest : y = rest[i] BY <1>6 DEF ToSet
  <2>3. CASE \E j \in DOMAIN pending : fills[k] = pending[j] BY <2>1, <2>3 DEF ToSet
  <2>4. CASE \E j \in 1..n : fills[k] = batch[j]
    <3>1. PICK j \in 1..n : fills[k] = batch[j] BY <2>4
    <3>2. j \in DOMAIN batch /\ n + i \in DOMAIN batch /\ j < n + i BY <1>2, <1>3, <1>4, <1>5
    <3> QED BY <1>4, <1>6, <2>1, <2>2, <3>1, <3>2 DEF Sorted
  <2> QED BY <1>1, <2>1, <2>3, <2>4 DEF FilledFrom
<1>7. ToSet(rest) \subseteq ToSet(batch) BY <1>4 DEF ToSet
<1>8. ToSet(fills) \subseteq ToSet(pending) \cup ToSet(batch) BY <1>1, <1>5 DEF ToSet, FilledFrom
<1> QED BY <1>6, <1>7, <1>8

LEMMA BufferTail ==
    ASSUME NEW list
    PROVE  list \in Seq(EventRecord) /\ list # <<>> /\ Buffer(list) =>
           \A x \in ToSet(Tail(list)) : x.key # list[1].key
<1>0. HAVE list \in Seq(EventRecord) /\ list # <<>> /\ Buffer(list)
<1>1. PICK t : t = Tail(list) OBVIOUS
<1>2. /\ 1 \in DOMAIN list /\ Len(list) \in Nat \ {0}
      /\ DOMAIN list = 1..Len(list) /\ DOMAIN t = 1..(Len(list) - 1)
      /\ \A i \in 1..(Len(list) - 1) : t[i] = list[i + 1]
    BY <1>0, <1>1, TailFits
<1>3. \A i \in DOMAIN t : i + 1 \in DOMAIN list /\ t[i] = list[i + 1] /\ i + 1 # 1 BY <1>2
<1>4. \A x \in ToSet(t) : x.key # list[1].key BY <1>0, <1>2, <1>3 DEF Buffer, ToSet
<1> QED BY <1>1, <1>4

-----------------------------------------------------------------------------
(***************************************************************************)
(* Where events come from.                                                 *)
(***************************************************************************)
Present(x, qu, pe, st, cs) ==
    \/ x \in ToSet(qu) \cup ToSet(pe) \cup ToSet(st)
    \/ \E w \in Workers : x \in Holds(cs[w])

NoNews == \A x : Present(x, queue', pending', steps', co') => Present(x, queue, pending, steps, co)

\* One coroutine goes on, with what it or the shared lists hold.
LEMMA OneGoes ==
    ASSUME NEW w \in Workers, \A v \in Workers : v # w => co'[v] = co[v],
           Holds(co'[w]) \subseteq Holds(co[w]) \cup ToSet(queue) \cup ToSet(pending),
           ToSet(queue') \subseteq ToSet(queue),
           ToSet(pending') \subseteq ToSet(pending) \cup Holds(co[w]),
           ToSet(steps') \subseteq ToSet(steps) \cup Holds(co[w])
    PROVE  NoNews
BY DEF NoNews, Present

\* Emitting and flushing, of polls and handlers.
LEMMA EmitNews == ASSUME Typed, Held, NEW w \in Workers, Ranked(w) \/ FlushMore(w) \/ Flushed(w) PROVE NoNews
<1>0. co[w] \in Coroutines /\ Holding(co[w]) BY Goer
<1>1. CASE Ranked(w)
  <2>1. PICK d : Fit(w, d) /\ Stays(d, co[w], co[w].after) BY <1>1, RankedGoes
  <2>2. co'[w] = d /\ \A v \in Workers : v # w => co'[v] = co[v] BY <2>1, FitFits
  <2>3. /\ co[w].step \in EventRecord /\ steps' = Append(steps, co[w].step) /\ co[w].pc = "ranking"
        /\ co[w].after # "ranking" /\ steps \in Seq(EventRecord)
      BY <1>1, RankedGoes DEF Typed
  <2>4. queue' = queue /\ pending' = pending BY <1>1 DEF Ranked, pageVars, stateVars
  <2>5. ToSet(steps') = ToSet(steps) \cup {co[w].step} BY <2>3, AppendSet
  <2>6. Holds(d) \subseteq Holds(co[w]) /\ co[w].step \in Holds(co[w]) BY <2>1, <2>3 DEF Stays, Holds, StepOf
  <2> QED BY <2>2, <2>4, <2>5, <2>6, OneGoes
<1>2. CASE FlushMore(w)
  <2>1. PICK d : /\ Fit(w, d) /\ d.pc = "ranking" /\ d.batch = co[w].batch
                 /\ d.fills = Tail(co[w].fills) /\ d.step = co[w].fills[1]
      BY <1>2, FlushMoreGoes
  <2>2. co'[w] = d /\ \A v \in Workers : v # w => co'[v] = co[v] BY <2>1, FitFits
  <2>3. queue' = queue /\ pending' = pending /\ steps' = steps BY <1>2 DEF FlushMore, pageVars, stateVars
  <2>4. co[w].fills[1] \in ToSet(co[w].fills) /\ ToSet(Tail(co[w].fills)) \subseteq ToSet(co[w].fills)
      BY <1>0, <1>2, FlushMoreGoes, TailSet, Fields
  <2>5. Holds(d) \subseteq Holds(co[w]) BY <2>1, <2>4 DEF Holds, StepOf
  <2> QED BY <2>2, <2>3, <2>5, OneGoes
<1>3. CASE Flushed(w)
  <2>1. PICK d : Fit(w, d) /\ (Looped(d, co[w]) \/ Stays(d, co[w], "disarming")) BY <1>3, FlushedGoes
  <2>2. co'[w] = d /\ \A v \in Workers : v # w => co'[v] = co[v] BY <2>1, FitFits
  <2>3. queue' = queue /\ pending' = <<>> /\ steps' = steps BY <1>3 DEF Flushed, pageVars
  <2>4. Holds(d) \subseteq Holds(co[w]) BY <2>1, EmptySet DEF Looped, Stays, Holds, StepOf
  <2> QED BY <2>2, <2>3, <2>4, OneGoes, EmptySet
<1> QED BY <1>1, <1>2, <1>3

LEMMA PollNews == ASSUME Typed, Held, NEW q \in Polls, PollStep(q) PROVE NoNews
<1>0. q \in Workers /\ co[q] \in Coroutines /\ Holding(co[q]) BY Workplaces, Goer
<1>1. CASE Begin(q) \/ DrainRaises(q)
  <2>1. PICK d : Fit(q, d) /\ Looped(d, co[q]) BY <1>1, LoopGoes
  <2>2. co'[q] = d /\ \A v \in Workers : v # q => co'[v] = co[v] BY <1>0, <2>1, FitFits
  <2>3. queue' \in {queue, <<>>} /\ pending' = pending /\ steps' = steps
      BY <1>1 DEF Begin, DrainRaises, stateVars, pageVars
  <2>4. Holds(d) \subseteq Holds(co[q]) BY <2>1, EmptySet DEF Looped, Holds, StepOf
  <2> QED BY <1>0, <2>2, <2>3, <2>4, OneGoes, EmptySet
<1>2. CASE Drain(q)
  <2>1. PICK d : Fit(q, d) /\ d.pc = "taking" /\ d.batch = queue /\ d.fills = co[q].fills BY <1>2, DrainGoes
  <2>2. co'[q] = d /\ \A v \in Workers : v # q => co'[v] = co[v] BY <1>0, <2>1, FitFits
  <2>3. queue' = <<>> /\ pending' = pending /\ steps' = steps BY <1>2 DEF Drain, stateVars
  <2>4. Holds(d) \subseteq Holds(co[q]) \cup ToSet(queue) BY <2>1 DEF Holds, StepOf
  <2> QED BY <1>0, <2>2, <2>3, <2>4, OneGoes, EmptySet
<1>3. CASE Process(q)
  <2>1. PICK n \in 0..Len(co[q].batch) : \E rest, fills, d :
              /\ Split(co[q].batch, n, rest, fills)
              /\ d \in Coroutines /\ Holding(d) /\ ~d.cancelled
              /\ Becomes(q, d) /\ Goes4(d, co[q], rest, fills)
      BY <1>3, ProcessGoes
  <2>2. PICK rest, fills, d : Split(co[q].batch, n, rest, fills) /\ Fit(q, d) /\ Goes4(d, co[q], rest, fills)
      BY <2>1 DEF Fit
  <2>3. co'[q] = d /\ \A v \in Workers : v # q => co'[v] = co[v] BY <1>0, <2>2, FitFits
  <2>4. queue' = queue /\ steps' = steps BY <1>3 DEF Process, pageVars
  <2>5. rest \in Seq(EventRecord) /\ fills \in Seq(EventRecord) /\ Buffer(fills) BY <2>2 DEF Split
  <2>6. ToSet(rest) \subseteq ToSet(co[q].batch) /\ ToSet(fills) \subseteq ToSet(pending) \cup ToSet(co[q].batch)
      BY <1>0, <2>2, SplitSet, Fields
  <2>7. /\ Holds(d) \subseteq Holds(co[q]) \cup ToSet(pending)
        /\ ToSet(pending') \subseteq ToSet(pending) \cup Holds(co[q])
    <3>1. CASE Passed(d, co[q], rest, fills) BY <3>1, EmptySet DEF Passed, Holds, StepOf
    <3>2. CASE FlushesNow(d, rest, fills)
      <4>1. fills[1] \in ToSet(fills) /\ ToSet(Tail(fills)) \subseteq ToSet(fills) BY <2>5, <3>2, TailSet DEF FlushesNow
      <4> QED BY <2>6, <3>2, <4>1, EmptySet DEF FlushesNow, Holds, StepOf
    <3>3. CASE FillIsFirst(d, co[q], rest, fills)
      <4>1. PICK i : i = PlaceOf(fills, rest[1].key) OBVIOUS
      <4>2. fills[i] \in ToSet(fills) /\ ToSet(RemoveAt(fills, i)) \subseteq ToSet(fills)
          BY <2>5, <3>3, <4>1, LessSet DEF FillIsFirst
      <4>3. pending' = RemoveAt(fills, i) /\ d.step = fills[i] /\ d.fills = co[q].fills /\ d.batch = rest
          BY <3>3, <4>1 DEF FillIsFirst
      <4> QED BY <2>6, <4>2, <4>3 DEF Holds, StepOf
    <3>4. CASE OwnComes(d, co[q], rest, fills)
      <4>1. rest[1] \in ToSet(rest) /\ ToSet(Tail(rest)) \subseteq ToSet(rest) BY <2>5, <3>4, TailSet DEF OwnComes
      <4> QED BY <2>6, <3>4, <4>1 DEF OwnComes, Holds, StepOf
    <3> QED BY <2>2, <3>1, <3>2, <3>3, <3>4 DEF Goes4
  <2> QED BY <1>0, <2>3, <2>4, <2>7, OneGoes
<1>4. CASE ProcessOwn(q)
  <2>1. PICK d : Fit(q, d) /\ (Skips(d, co[q]) \/ ComesOut(d, co[q])) BY <1>4, ProcessOwnGoes
  <2>2. co'[q] = d /\ \A v \in Workers : v # q => co'[v] = co[v] BY <1>0, <2>1, FitFits
  <2>3. queue' = queue /\ pending' = pending /\ steps' = steps BY <1>4 DEF ProcessOwn, pageVars
  <2>4. co[q].batch[1] \in ToSet(co[q].batch) /\ ToSet(Tail(co[q].batch)) \subseteq ToSet(co[q].batch)
      BY <1>0, <1>4, ProcessOwnGoes, TailSet, Fields
  <2>5. Holds(d) \subseteq Holds(co[q]) BY <2>1, <2>4 DEF Skips, ComesOut, Holds, StepOf
  <2> QED BY <1>0, <2>2, <2>3, <2>5, OneGoes
<1>5. CASE Unwind(q)
  <2>1. Fit(q, Over) BY <1>5, UnwindGoes
  <2>2. co'[q] = Over /\ \A v \in Workers : v # q => co'[v] = co[v] BY <1>0, <2>1, FitFits
  <2>3. queue' = queue /\ pending' = pending /\ steps' = steps BY <1>5 DEF Unwind, pageVars, stateVars
  <2>4. Holds(Over) = {} BY OverFits, EmptySet DEF Holds, StepOf
  <2> QED BY <1>0, <2>2, <2>3, <2>4, OneGoes
<1>6. ASSUME ~(Ranked(q) \/ FlushMore(q) \/ Flushed(q)) PROVE NoNews
    BY <1>1, <1>2, <1>3, <1>4, <1>5, <1>6 DEF PollStep
<1> QED BY <1>6, <1>0, EmitNews

LEMMA PanelNews ==
    ASSUME Typed, Held, NEW p \in Panels, Start(p) \/ Stop(p) \/ Suspend(p) \/ HandlerStep(p)
    PROVE  NoNews
<1>0. p \in Workers /\ p \notin Polls /\ co[p] \in Coroutines /\ Holding(co[p]) BY Workplaces, Goer
<1>1. ASSUME NEW pc \in Places \ {"own", "ranking"}, Goes(p, pc),
             queue' \in {queue, <<>>}, pending' \in {pending, <<>>}, steps' = steps
      PROVE  NoNews
  <2>1. Stays(co'[p], co[p], pc) /\ (\A v \in Workers : v # p => co'[v] = co[v]) BY <1>0, <1>1, PlaceGoes
  <2>2. Holds(co'[p]) \subseteq Holds(co[p]) BY <1>1, <2>1 DEF Stays, Holds, StepOf
  <2> QED BY <1>0, <1>1, <2>1, <2>2, OneGoes, EmptySet
<1>2. CASE Start(p)
  <2>1. (IF injected THEN "arming" ELSE "injecting") \in Places \ {"own", "ranking"} BY DEF Places
  <2> QED BY <1>1, <1>2, <2>1 DEF Start, pageVars
<1>3. CASE Stop(p)
  <2>1. /\ IF pending = <<>> THEN Stays(co'[p], co[p], "disarming") ELSE Flushed1(co'[p], co[p])
        /\ \A q \in Polls : Marked(co'[q], co[q])
        /\ \A v \in Panels : v # p => co'[v] = co[v]
      BY <1>3, StopGoes
  <2>2. queue' = queue /\ pending' = pending /\ steps' = steps BY <1>3 DEF Stop, pageVars
  <2>3. Holds(co'[p]) \subseteq Holds(co[p]) \cup ToSet(pending)
    <3>1. CASE pending = <<>> BY <2>1, <3>1 DEF Stays, Holds, StepOf
    <3>2. CASE pending # <<>>
      <4>1. pending[1] \in ToSet(pending) /\ ToSet(Tail(pending)) \subseteq ToSet(pending)
          BY <3>2, TailSet DEF Typed
      <4> QED BY <2>1, <3>2, <4>1 DEF Flushed1, Holds, StepOf
    <3> QED BY <3>1, <3>2
  <2>4. \A q \in Polls : Holds(co'[q]) = Holds(co[q]) BY <2>1 DEF Marked, Holds, StepOf
  <2>5. \A v \in Workers : Holds(co'[v]) \subseteq Holds(co[v]) \cup ToSet(pending)
      BY <2>1, <2>3, <2>4 DEF Workers
  <2> QED BY <2>2, <2>5 DEF NoNews, Present
<1>4. CASE Suspend(p)
  <2>1. (IF depth = 0 /\ recording THEN "suspending" ELSE "acting") \in Places \ {"own", "ranking"} BY DEF Places
  <2> QED BY <1>1, <1>4, <2>1 DEF Suspend, pageVars
<1>5. CASE Inject(p)
  <2>1. "arming" \in Places \ {"own", "ranking"} BY DEF Places
  <2> QED BY <1>1, <1>5, <2>1 DEF Inject, stateVars
<1>6. CASE Arm(p)
  <2>1. PICK q \in Polls : /\ co[q] = Over /\ co'[p] = Over /\ Stays(co'[q], Over, "created")
                           /\ \A v \in Workers : v # p /\ v # q => co'[v] = co[v]
      BY <1>6, ArmGoes
  <2>2. queue' = queue /\ pending' = pending /\ steps' = steps BY <1>6 DEF Arm
  <2>3. Holds(co'[p]) = {} /\ Holds(co'[q]) = {} BY <2>1, OverFits, EmptySet DEF Stays, Holds, StepOf
  <2>4. \A v \in Workers : Holds(co'[v]) \subseteq Holds(co[v]) BY <2>1, <2>3
  <2> QED BY <2>2, <2>4 DEF NoNews, Present
<1>7. CASE Disarm(p)
  <2>1. Fit(p, Over) BY <1>7, OverFits DEF Disarm, Fit, Becomes
  <2>2. co'[p] = Over /\ \A v \in Workers : v # p => co'[v] = co[v] BY <1>0, <2>1, FitFits
  <2>3. queue' = queue /\ pending' = pending /\ steps' = steps BY <1>7 DEF Disarm, stateVars
  <2>4. Holds(Over) = {} BY OverFits, EmptySet DEF Holds, StepOf
  <2> QED BY <1>0, <2>2, <2>3, <2>4, OneGoes
<1>8. CASE Suspended(p)
  <2>1. "acting" \in Places \ {"own", "ranking"} BY DEF Places
  <2> QED BY <1>1, <1>8, <2>1 DEF Suspended, stateVars
<1>9. CASE Resume(p)
  <2>1. (IF depth' = 0 /\ recording THEN "restoring" ELSE "idle") \in Places \ {"own", "ranking"} BY DEF Places
  <2> QED BY <1>1, <1>9, <2>1 DEF Resume, pageVars
<1>10. CASE Restore(p)
  <2>1. "idle" \in Places \ {"own", "ranking"} BY DEF Places
  <2> QED BY <1>1, <1>10, <2>1 DEF Restore, stateVars
<1> QED BY <1>0, <1>2, <1>3, <1>4, <1>5, <1>6, <1>7, <1>8, <1>9, <1>10, EmitNews DEF HandlerStep

\* An act of somebody is the only event that was not there before.
LEMMA NothingAppears ==
    ASSUME Typed, Held, [Next]_vars
    PROVE  \/ NoNews
           \/ \E by \in {"user", "agent"} : (by = "agent" => \E p \in Panels : co[p].pc = "acting") /\ Act(by)
<1>1. CASE UNCHANGED vars BY <1>1 DEF vars, pageVars, stateVars, NoNews, Present
<1>2. CASE Load
  <2>1. queue' = <<>> /\ pending' = pending /\ steps' = steps /\ co' = co BY <1>2 DEF Load, stateVars
  <2> QED BY <2>1, EmptySet DEF NoNews, Present
<1> QED BY <1>1, <1>2, PollNews, PanelNews DEF Next, UserActs, AgentActs

-----------------------------------------------------------------------------
(***************************************************************************)
(* While the agent acts, only a page that was loaded meanwhile is armed.   *)
(***************************************************************************)
Arms(c, arm, rec, load) ==
    /\ c.pc = "acting" /\ arm => load
    /\ arm => rec \/ load \/ c.pc \in {"ranking", "flushing", "disarming"}

ArmedForUser == \A p \in Panels : Arms(co[p], armed, recording, reloaded)

\* The handler's turns keep it so.
LEMMA PanelArms ==
    ASSUME Typed, Held, Solo, NEW p, Panels = {p}, Arms(co[p], armed, recording, reloaded),
           Start(p) \/ Stop(p) \/ Suspend(p) \/ HandlerStep(p)
    PROVE  Arms(co'[p], armed', recording', reloaded')
<1>0. p \in Panels /\ p \in Workers /\ p \notin Polls /\ Handles(co[p], recording, pollTask, depth) /\ depth \in Nat
    BY Workplaces DEF Solo, Typed
<1>1. CASE Start(p)
  <2>1. (IF injected THEN "arming" ELSE "injecting") \in Places \ {"own", "ranking"} BY DEF Places
  <2>2. Stays(co'[p], co[p], IF injected THEN "arming" ELSE "injecting") BY <1>0, <1>1, <2>1, PlaceGoes DEF Start
  <2> QED BY <1>1, <2>2 DEF Start, Arms, seen, Stays
<1>2. CASE Stop(p)
  <2>1. IF pending = <<>> THEN Stays(co'[p], co[p], "disarming") ELSE Flushed1(co'[p], co[p])
      BY <1>0, <1>2, StopGoes
  <2> QED BY <1>2, <2>1 DEF Stop, Arms, Stays, Flushed1
<1>3. CASE Suspend(p)
  <2>1. (IF depth = 0 /\ recording THEN "suspending" ELSE "acting") \in Places \ {"own", "ranking"} BY DEF Places
  <2>2. Stays(co'[p], co[p], IF depth = 0 /\ recording THEN "suspending" ELSE "acting")
      BY <1>0, <1>3, <2>1, PlaceGoes DEF Suspend
  <2>3. recording' = recording /\ armed' = armed /\ reloaded' = reloaded /\ co[p].pc = "idle"
      BY <1>3 DEF Suspend, Called, pageVars, seen
  <2>4. depth = 0 BY <1>0, <2>3 DEF Handles
  <2> QED BY <2>2, <2>3, <2>4 DEF Arms, Stays
<1>4. CASE Inject(p)
  <2>1. "arming" \in Places \ {"own", "ranking"} BY DEF Places
  <2>2. Stays(co'[p], co[p], "arming") BY <1>0, <1>4, <2>1, PlaceGoes DEF Inject
  <2> QED BY <1>0, <1>4, <2>2 DEF Inject, Arms, seen, Stays, Handles, stateVars
<1>5. CASE Arm(p)
  <2>1. co'[p] = Over BY <1>0, <1>5, ArmGoes
  <2> QED BY <1>0, <1>5, <2>1, OverFits DEF Arm, Arms, seen, Handles
<1>6. CASE Disarm(p)
  <2>1. Fit(p, Over) BY <1>6, OverFits DEF Disarm, Fit, Becomes
  <2>2. co'[p] = Over BY <1>0, <2>1, FitFits
  <2> QED BY <1>6, <2>2, OverFits DEF Disarm, Arms
<1>7. CASE Suspended(p)
  <2>1. "acting" \in Places \ {"own", "ranking"} BY DEF Places
  <2>2. Stays(co'[p], co[p], "acting") BY <1>0, <1>7, <2>1, PlaceGoes DEF Suspended
  <2> QED BY <1>7, <2>2 DEF Suspended, Arms, seen, Stays
<1>8. CASE Resume(p)
  <2>1. (IF depth' = 0 /\ recording THEN "restoring" ELSE "idle") \in Places \ {"own", "ranking"} BY DEF Places
  <2>2. Stays(co'[p], co[p], IF depth' = 0 /\ recording THEN "restoring" ELSE "idle")
      BY <1>0, <1>8, <2>1, PlaceGoes DEF Resume
  <2> QED BY <1>8, <2>2 DEF Resume, Arms, seen, Stays, pageVars
<1>9. CASE Restore(p)
  <2>1. "idle" \in Places \ {"own", "ranking"} BY DEF Places
  <2>2. Stays(co'[p], co[p], "idle") BY <1>0, <1>9, <2>1, PlaceGoes DEF Restore
  <2> QED BY <1>0, <1>9, <2>2 DEF Restore, Arms, seen, Stays, Handles, stateVars
<1>10. CASE Ranked(p)
  <2>1. PICK d : Fit(p, d) /\ Stays(d, co[p], co[p].after) BY <1>0, <1>10, RankedGoes
  <2>2. co'[p] = d BY <1>0, <2>1, FitFits
  <2> QED BY <1>0, <1>10, <2>1, <2>2 DEF Ranked, Arms, seen, Stays, Handles, pageVars, stateVars
<1>11. CASE FlushMore(p)
  <2>1. PICK d : Fit(p, d) /\ d.pc = "ranking" BY <1>0, <1>11, FlushMoreGoes
  <2>2. co'[p] = d BY <1>0, <2>1, FitFits
  <2> QED BY <1>11, <2>1, <2>2 DEF FlushMore, Arms, seen, pageVars, stateVars
<1>12. CASE Flushed(p)
  <2>1. PICK d : Fit(p, d) /\ Stays(d, co[p], "disarming") BY <1>0, <1>12, FlushedGoes
  <2>2. co'[p] = d BY <1>0, <2>1, FitFits
  <2> QED BY <1>12, <2>1, <2>2 DEF Flushed, Arms, seen, Stays, pageVars
<1> QED BY <1>1, <1>2, <1>3, <1>4, <1>5, <1>6, <1>7, <1>8, <1>9, <1>10, <1>11, <1>12 DEF HandlerStep

LEMMA ArmsStay == ASSUME OnePanel PROVE Typed /\ Held /\ Solo /\ ArmedForUser /\ [Next]_vars => ArmedForUser'
<1> SUFFICES ASSUME Typed, Held, Solo, ArmedForUser, [Next]_vars
             PROVE  \A p \in Panels : Arms(co'[p], armed', recording', reloaded')
    BY DEF ArmedForUser
<1>1. PICK p : Panels = {p} BY DEF OnePanel
<1>2. CASE Load BY <1>1, <1>2 DEF Load, Arms
<1>3. Arms(co[p], armed, recording, reloaded) BY <1>1 DEF ArmedForUser
<1>4. CASE UNCHANGED vars BY <1>1, <1>3, <1>4 DEF vars, stateVars, pageVars, seen
<1>5. CASE UserActs \/ \E v \in Panels : AgentActs(v)
    BY <1>1, <1>3, <1>5 DEF UserActs, AgentActs, Act, stateVars, seen
<1>6. ASSUME NEW q \in Polls, PollStep(q) PROVE Arms(co'[p], armed', recording', reloaded')
  <2>1. recording' = recording /\ co'[p] = co[p] BY <1>1, <1>6, PollGoes, Workplaces
  <2>2. armed' = armed /\ reloaded' = reloaded
      BY <1>6 DEF PollStep, Begin, Drain, DrainRaises, Process, ProcessOwn, Ranked, FlushMore, Flushed, Unwind,
                  pageVars, seen
  <2> QED BY <1>3, <2>1, <2>2
<1>7. ASSUME Start(p) \/ Stop(p) \/ Suspend(p) \/ HandlerStep(p)
      PROVE  Arms(co'[p], armed', recording', reloaded')
    BY <1>1, <1>3, <1>7, PanelArms
<1> QED BY <1>1, <1>2, <1>4, <1>5, <1>6, <1>7 DEF Next

-----------------------------------------------------------------------------
(***************************************************************************)
(* What the agent does is dropped, or one of the strays.                   *)
(***************************************************************************)
Settled(x) == x.by = "agent" => x.id \in strays

\* What a coroutine holds and will not drop while capturing is suspended.
Fixed(c) == ToSet(c.fills) \cup StepOf(c) \cup (IF c.pc = "taking" THEN {} ELSE ToSet(c.batch))

Kept(x, pe, st, cs) ==
    \/ x \in ToSet(pe) \cup ToSet(st)
    \/ \E w \in Workers : x \in Fixed(cs[w])

\* The agent acts on a page that armed itself.
Leaking == reloaded /\ \E p \in Panels : co[p].pc = "acting"

KeptSettled == \A x : Kept(x, pending, steps, co) => Settled(x)
AllSettled == \A x : Present(x, queue, pending, steps, co) => Settled(x)
AgentSettled == KeptSettled /\ (Leaking \/ AllSettled)

NothingKept == \A x : Kept(x, pending', steps', co') => Kept(x, pending, steps, co)

LEMMA KeptIsPresent ==
    ASSUME NEW x, NEW qu, NEW pe, NEW st, NEW cs, Kept(x, pe, st, cs) PROVE Present(x, qu, pe, st, cs)
BY DEF Kept, Present, Fixed, Holds

\* One coroutine goes on, with what it or the shared lists keep.
LEMMA OneKeeps ==
    ASSUME NEW w \in Workers, \A v \in Workers : v # w => co'[v] = co[v],
           Fixed(co'[w]) \subseteq Fixed(co[w]) \cup ToSet(pending),
           ToSet(pending') \subseteq ToSet(pending), ToSet(steps') \subseteq ToSet(steps) \cup Fixed(co[w])
    PROVE  NothingKept
BY DEF NothingKept, Kept

\* While capturing is suspended a poll keeps nothing more than before.
LEMMA PollKeeps == ASSUME Typed, Held, depth > 0, NEW q \in Polls, PollStep(q) PROVE NothingKept
<1>0. q \in Workers /\ co[q] \in Coroutines /\ Holding(co[q]) BY Workplaces, Goer
<1>1. CASE Begin(q) \/ DrainRaises(q)
  <2>1. PICK d : Fit(q, d) /\ Looped(d, co[q]) BY <1>1, LoopGoes
  <2>2. co'[q] = d /\ \A v \in Workers : v # q => co'[v] = co[v] BY <1>0, <2>1, FitFits
  <2>3. pending' = pending /\ steps' = steps /\ co[q].pc \in {"created", "sleeping"}
      BY <1>1 DEF Begin, DrainRaises, stateVars
  <2>4. Fixed(d) \subseteq Fixed(co[q]) BY <2>1, <2>3, EmptySet DEF Looped, Fixed, StepOf
  <2> QED BY <1>0, <2>2, <2>3, <2>4, OneKeeps
<1>2. CASE Drain(q)
  <2>1. PICK d : Fit(q, d) /\ d.pc = "taking" /\ d.fills = co[q].fills BY <1>2, DrainGoes
  <2>2. co'[q] = d /\ \A v \in Workers : v # q => co'[v] = co[v] BY <1>0, <2>1, FitFits
  <2>3. pending' = pending /\ steps' = steps BY <1>2 DEF Drain, stateVars
  <2>4. Fixed(d) \subseteq Fixed(co[q]) BY <2>1 DEF Fixed, StepOf
  <2> QED BY <1>0, <2>2, <2>3, <2>4, OneKeeps
<1>3. CASE Process(q)
  <2>1. PICK n \in 0..Len(co[q].batch) : \E rest, fills, d :
              /\ Split(co[q].batch, n, rest, fills)
              /\ d \in Coroutines /\ Holding(d) /\ ~d.cancelled
              /\ Becomes(q, d) /\ Goes4(d, co[q], rest, fills)
      BY <1>3, ProcessGoes
  <2>2. PICK rest, fills, d : Split(co[q].batch, n, rest, fills) /\ Fit(q, d) /\ Goes4(d, co[q], rest, fills)
      BY <2>1 DEF Fit
  <2>3. co'[q] = d /\ \A v \in Workers : v # q => co'[v] = co[v] BY <1>0, <2>2, FitFits
  <2>4. steps' = steps BY <1>3 DEF Process
  <2>5. fills = pending /\ n = Len(co[q].batch) BY <2>2 DEF Split
  <2>6. rest = <<>>
    <3>1. Len(co[q].batch) \in Nat BY <1>0, Fields
    <3>2. rest \in Seq(EventRecord) /\ Len(rest) = 0 BY <2>2, <2>5, <3>1 DEF Split
    <3> QED BY <3>2
  <2>7. Fixed(d) \subseteq Fixed(co[q]) \cup ToSet(pending) /\ ToSet(pending') \subseteq ToSet(pending)
    <3>1. CASE Passed(d, co[q], rest, fills) BY <3>1, EmptySet DEF Passed, Fixed, StepOf
    <3>2. CASE FlushesNow(d, rest, fills)
      <4>1. pending[1] \in ToSet(pending) /\ ToSet(Tail(pending)) \subseteq ToSet(pending)
          BY <2>5, <3>2, TailSet DEF FlushesNow, Typed
      <4> QED BY <2>5, <3>2, <4>1, EmptySet DEF FlushesNow, Fixed, StepOf
    <3> QED BY <2>2, <2>6, <3>1, <3>2 DEF Goes4, FillIsFirst, OwnComes
  <2> QED BY <1>0, <2>3, <2>4, <2>7, OneKeeps
<1>4. CASE ProcessOwn(q)
  <2>1. PICK d : Fit(q, d) /\ (Skips(d, co[q]) \/ ComesOut(d, co[q])) BY <1>4, ProcessOwnGoes
  <2>2. co'[q] = d /\ \A v \in Workers : v # q => co'[v] = co[v] BY <1>0, <2>1, FitFits
  <2>3. pending' = pending /\ steps' = steps /\ co[q].pc = "own" BY <1>4 DEF ProcessOwn
  <2>4. co[q].batch[1] \in ToSet(co[q].batch) /\ ToSet(Tail(co[q].batch)) \subseteq ToSet(co[q].batch)
      BY <1>0, <1>4, ProcessOwnGoes, TailSet, Fields
  <2>5. Fixed(d) \subseteq Fixed(co[q]) BY <2>1, <2>3, <2>4 DEF Skips, ComesOut, Fixed, StepOf
  <2> QED BY <1>0, <2>2, <2>3, <2>5, OneKeeps
<1>5. CASE Ranked(q)
  <2>1. PICK d : Fit(q, d) /\ Stays(d, co[q], co[q].after) BY <1>0, <1>5, RankedGoes
  <2>2. co'[q] = d /\ \A v \in Workers : v # q => co'[v] = co[v] BY <1>0, <2>1, FitFits
  <2>3. /\ co[q].step \in EventRecord /\ steps' = Append(steps, co[q].step) /\ co[q].pc = "ranking"
        /\ co[q].after # "ranking" /\ steps \in Seq(EventRecord)
      BY <1>0, <1>5, RankedGoes DEF Typed
  <2>4. pending' = pending BY <1>5 DEF Ranked, stateVars
  <2>5. ToSet(steps') = ToSet(steps) \cup {co[q].step} BY <2>3, AppendSet
  <2>6. Fixed(d) \subseteq Fixed(co[q]) /\ co[q].step \in Fixed(co[q]) BY <2>1, <2>3 DEF Stays, Fixed, StepOf
  <2> QED BY <1>0, <2>2, <2>4, <2>5, <2>6, OneKeeps
<1>6. CASE FlushMore(q)
  <2>1. PICK d : /\ Fit(q, d) /\ d.pc = "ranking" /\ d.batch = co[q].batch
                 /\ d.fills = Tail(co[q].fills) /\ d.step = co[q].fills[1]
      BY <1>0, <1>6, FlushMoreGoes
  <2>2. co'[q] = d /\ \A v \in Workers : v # q => co'[v] = co[v] BY <1>0, <2>1, FitFits
  <2>3. pending' = pending /\ steps' = steps /\ co[q].pc = "flushing" BY <1>6 DEF FlushMore, stateVars
  <2>4. co[q].fills[1] \in ToSet(co[q].fills) /\ ToSet(Tail(co[q].fills)) \subseteq ToSet(co[q].fills)
      BY <1>0, <1>6, FlushMoreGoes, TailSet, Fields
  <2>5. Fixed(d) \subseteq Fixed(co[q]) BY <2>1, <2>3, <2>4 DEF Fixed, StepOf
  <2> QED BY <1>0, <2>2, <2>3, <2>5, OneKeeps
<1>7. CASE Flushed(q)
  <2>1. PICK d : Fit(q, d) /\ Looped(d, co[q]) BY <1>0, <1>7, FlushedGoes
  <2>2. co'[q] = d /\ \A v \in Workers : v # q => co'[v] = co[v] BY <1>0, <2>1, FitFits
  <2>3. pending' = <<>> /\ steps' = steps /\ co[q].pc = "flushing" BY <1>7 DEF Flushed
  <2>4. Fixed(d) \subseteq Fixed(co[q]) BY <2>1, <2>3, EmptySet DEF Looped, Fixed, StepOf
  <2> QED BY <1>0, <2>2, <2>3, <2>4, OneKeeps, EmptySet
<1>8. CASE Unwind(q)
  <2>1. Fit(q, Over) BY <1>8, UnwindGoes
  <2>2. co'[q] = Over /\ \A v \in Workers : v # q => co'[v] = co[v] BY <1>0, <2>1, FitFits
  <2>3. pending' = pending /\ steps' = steps BY <1>8 DEF Unwind, stateVars
  <2>4. Fixed(Over) = {} BY OverFits, EmptySet DEF Fixed, StepOf
  <2> QED BY <1>0, <2>2, <2>3, <2>4, OneKeeps
<1> QED BY <1>1, <1>2, <1>3, <1>4, <1>5, <1>6, <1>7, <1>8 DEF PollStep

\* The handler for which the agent acts does nothing but resume.
LEMMA OnlyResumes ==
    ASSUME Typed, Held, Solo, NEW p, Panels = {p}, co[p].pc = "acting",
           Start(p) \/ Stop(p) \/ Suspend(p) \/ HandlerStep(p)
    PROVE  Resume(p)
BY DEF Start, Stop, Suspend, Called, HandlerStep, Inject, Arm, Disarm, Suspended, Restore, Ranked, FlushMore, Flushed

\* While the agent acts on a page that armed itself, nothing more is kept.
LEMMA LeakingKeeps ==
    ASSUME OnePanel, Typed, Held, Solo, Leaking, [Next]_vars
    PROVE  NothingKept
<1>1. PICK p : Panels = {p} /\ co[p].pc = "acting" BY DEF OnePanel, Leaking
<1>2. p \in Panels /\ p \in Workers /\ depth > 0 BY <1>1, Workplaces DEF Solo, Handles
<1>3. CASE UNCHANGED vars BY <1>3 DEF vars, stateVars, NothingKept, Kept
<1>4. CASE UserActs \/ Load \/ \E v \in Panels : AgentActs(v)
    BY <1>4 DEF UserActs, AgentActs, Act, Load, stateVars, NothingKept, Kept
<1>5. CASE Resume(p)
  <2>1. (IF depth' = 0 /\ recording THEN "restoring" ELSE "idle") \in Places \ {"own", "ranking"} BY DEF Places
  <2>2. /\ Stays(co'[p], co[p], IF depth' = 0 /\ recording THEN "restoring" ELSE "idle")
        /\ \A v \in Workers : v # p => co'[v] = co[v]
      BY <1>2, <1>5, <2>1, PlaceGoes DEF Resume
  <2>3. pending' = pending /\ steps' = steps BY <1>5 DEF Resume
  <2>4. Fixed(co'[p]) \subseteq Fixed(co[p]) BY <1>1, <2>2 DEF Stays, Fixed, StepOf
  <2> QED BY <1>2, <2>2, <2>3, <2>4, OneKeeps
<1> QED BY <1>1, <1>2, <1>3, <1>4, <1>5, PollKeeps, OnlyResumes DEF Next

\* Only an end of the suspension ends the leak, and no stray is forgotten.
LEMMA StraysGrow ==
    ASSUME Typed, Held, Solo, NEW p, Panels = {p}, [Next]_vars
    PROVE  /\ strays \subseteq strays'
           /\ Leaking => Leaking' \/ Resume(p)
<1>1. p \in Panels /\ p \in Workers /\ p \notin Polls BY Workplaces
<1>2. ASSUME co'[p] = co[p], reloaded => reloaded', strays' = strays
      PROVE  strays \subseteq strays' /\ (Leaking => Leaking')
    BY <1>2 DEF Leaking
<1>3. CASE UNCHANGED vars BY <1>2, <1>3 DEF vars, seen
<1>4. CASE UserActs \/ Load \/ \E v \in Panels : AgentActs(v)
    BY <1>2, <1>4 DEF UserActs, AgentActs, Act, Load, seen
<1>5. ASSUME NEW q \in Polls, PollStep(q) PROVE strays \subseteq strays' /\ (Leaking => Leaking')
  <2>1. co'[p] = co[p] BY <1>1, <1>5, PollGoes
  <2>2. UNCHANGED seen
      BY <1>5 DEF PollStep, Begin, Drain, DrainRaises, Process, ProcessOwn, Ranked, FlushMore, Flushed, Unwind
  <2> QED BY <1>2, <2>1, <2>2 DEF seen
<1>6. ASSUME Start(p) \/ Stop(p) \/ Suspend(p) \/ HandlerStep(p)
      PROVE  strays \subseteq strays' /\ (Leaking => Resume(p))
  <2>1. strays \subseteq strays'
      BY <1>6 DEF Start, Stop, Suspend, HandlerStep, Inject, Arm, Disarm, Suspended, Resume, Restore, Ranked,
                  FlushMore, Flushed, seen
  <2>2. ASSUME Leaking PROVE Resume(p) BY <1>6, <2>2, OnlyResumes DEF Leaking
  <2> QED BY <2>1, <2>2
<1> QED BY <1>3, <1>4, <1>5, <1>6 DEF Next

\* What was caught is a stray when the suspension ends.
LEMMA ResumeSettles ==
    ASSUME Typed, Held, Solo, NEW p, Panels = {p}, KeptSettled, Leaking, Resume(p)
    PROVE  AllSettled'
<1>1. p \in Panels /\ co[p].pc = "acting" /\ co[p].batch = <<>> /\ depth = 1
    BY DEF Solo, Handles, Resume
<1>2. depth' = 0 /\ strays' = strays \cup Caught BY <1>1 DEF Resume, Leaking
<1>3. NoNews BY <1>1, PanelNews DEF HandlerStep
<1>4. SUFFICES ASSUME NEW x, Present(x, queue, pending, steps, co), x.by = "agent" PROVE x.id \in strays'
    BY <1>3 DEF AllSettled, Settled, NoNews, Present, Workers
<1>5. CASE Kept(x, pending, steps, co) BY <1>2, <1>4, <1>5 DEF KeptSettled, Settled
<1>6. CASE ~Kept(x, pending, steps, co)
  <2>1. x \in ToSet(queue) \/ \E q \in Polls : x \in ToSet(co[q].batch)
      BY <1>1, <1>4, <1>6, EmptySet DEF Present, Kept, Holds, Fixed, Workers
  <2> QED BY <1>2, <1>4, <2>1 DEF Caught
<1> QED BY <1>5, <1>6

LEMMA SettledStays ==
    ASSUME OnePanel PROVE Typed /\ Held /\ Solo /\ ArmedForUser /\ AgentSettled /\ [Next]_vars => AgentSettled'
<1> SUFFICES ASSUME Typed, Held, Solo, ArmedForUser, AgentSettled, [Next]_vars PROVE AgentSettled' OBVIOUS
<1>1. PICK p : Panels = {p} BY DEF OnePanel
<1>2. strays \subseteq strays' /\ (Leaking => Leaking' \/ Resume(p)) BY <1>1, StraysGrow
<1>3. ASSUME AllSettled' PROVE AgentSettled'
  <2>1. KeptSettled' BY <1>3, KeptIsPresent DEF AllSettled, KeptSettled, Kept, Present, Fixed, Holds, Workers
  <2> QED BY <1>3, <2>1 DEF AgentSettled
<1>4. CASE AllSettled /\ NoNews
  <2>1. AllSettled' BY <1>2, <1>4 DEF AllSettled, Settled, NoNews, Present, Workers
  <2> QED BY <1>3, <2>1
<1>5. CASE Leaking
  <2>1. CASE Resume(p) BY <1>1, <1>3, <1>5, <2>1, ResumeSettles DEF AgentSettled
  <2>2. CASE ~Resume(p)
    <3>1. NothingKept BY <1>5, LeakingKeeps
    <3>2. KeptSettled' BY <1>2, <3>1 DEF AgentSettled, KeptSettled, Settled, NothingKept, Kept, Workers
    <3> QED BY <1>2, <1>5, <2>2, <3>2 DEF AgentSettled
  <2> QED BY <2>1, <2>2
<1>6. ASSUME ~Leaking, NEW by \in {"user", "agent"}, by = "agent" => \E v \in Panels : co[v].pc = "acting", Act(by)
      PROVE  AgentSettled'
  <2>1. PICK y : NewEvent(y, by) /\ queue' = Append(queue, y) BY <1>6, ActGoes
  <2>2. armed /\ pending' = pending /\ steps' = steps /\ co' = co BY <1>6, ActGoes DEF stateVars
  <2>3. by = "user" BY <1>6, <2>2 DEF ArmedForUser, Arms, Leaking
  <2>4. ToSet(queue') = ToSet(queue) \cup {y} BY <2>1, AppendSet DEF Typed, NewEvent
  <2>5. AllSettled BY <1>6 DEF AgentSettled
  <2>6. AllSettled' BY <1>2, <2>1, <2>2, <2>3, <2>4, <2>5 DEF AllSettled, Settled, Present, NewEvent, Workers
  <2> QED BY <1>3, <2>6
<1> QED BY <1>4, <1>5, <1>6, NothingAppears DEF AgentSettled

LEMMA SettledInit == Init => ArmedForUser /\ AgentSettled
<1> SUFFICES ASSUME Init PROVE ArmedForUser /\ AgentSettled OBVIOUS
<1>1. \A w \in Workers : co[w] = Over BY DEF Init, Workers
<1>2. ~armed /\ queue = <<>> /\ pending = <<>> /\ steps = <<>> BY DEF Init
<1>3. ArmedForUser BY <1>1, <1>2, OverFits, Workplaces DEF ArmedForUser, Arms
<1>4. \A w \in Workers : Holds(co[w]) = {} BY <1>1, OverFits, EmptySet DEF Holds, StepOf
<1>5. AllSettled BY <1>2, <1>4, EmptySet DEF AllSettled, Present
<1>6. KeptSettled BY <1>5, KeptIsPresent DEF AllSettled, KeptSettled
<1> QED BY <1>3, <1>5, <1>6 DEF AgentSettled

LEMMA SettledSteps == AgentSettled => AgentIsNotRecorded
<1> SUFFICES ASSUME AgentSettled, NEW i \in DOMAIN steps PROVE Settled(steps[i])
    BY DEF AgentIsNotRecorded, Settled
<1>1. steps[i] \in ToSet(steps) BY DEF ToSet
<1> QED BY <1>1 DEF AgentSettled, KeptSettled, Kept

\* With one panel, of what the agent does on the page while it validates a step, nothing is recorded
\* but strays: what a page loaded meanwhile caught and nobody dropped before the suspension ended
\* (_suspend_auto_capture, _resume_auto_capture).
THEOREM OnlyUsersAreRecorded == ASSUME OnePanel PROVE Spec => []AgentIsNotRecorded
<1>1. Init => Typed /\ Held /\ Solo /\ ArmedForUser /\ AgentSettled BY TypedInit, SoloInit, SettledInit
<1>2. Typed /\ Held /\ Solo /\ ArmedForUser /\ AgentSettled /\ [Next]_vars
      => (Typed /\ Held /\ Solo /\ ArmedForUser /\ AgentSettled)'
    BY TypedStays, SoloStays, ArmsStay, SettledStays
<1>3. Typed /\ Held /\ Solo /\ ArmedForUser /\ AgentSettled => AgentIsNotRecorded BY SettledSteps
<1> QED BY <1>1, <1>2, <1>3, PTL DEF Spec

-----------------------------------------------------------------------------
(***************************************************************************)
(* Steps, buffered fills, a batch and the queue follow one another.        *)
(***************************************************************************)
Below(a, b) == \A x \in a, y \in b : x.id < y.id
NotAfter(a, b) == \A x \in a, y \in b : x.key = y.key => x.id <= y.id

InOrder(list) ==
    \A i, j \in DOMAIN list : i < j /\ list[i].key = list[j].key => list[i].id <= list[j].id

Buffering(c) == c.pc = "flushing" \/ (c.pc = "ranking" /\ c.after = "flushing")
OwnIsNext(c) == c.pc = "own" \/ (c.pc = "ranking" /\ c.after = "own")

InLine(c, st, pe, qu) ==
    /\ NotAfter(ToSet(st), StepOf(c)) /\ NotAfter(ToSet(st), ToSet(c.fills))
    /\ NotAfter(StepOf(c), ToSet(c.fills)) /\ NotAfter(StepOf(c), ToSet(pe)) /\ NotAfter(ToSet(c.fills), ToSet(pe))
    /\ Below(ToSet(st), ToSet(c.batch)) /\ Below(ToSet(pe), ToSet(c.batch))
    /\ Below(ToSet(c.fills), ToSet(c.batch)) /\ Below(StepOf(c), ToSet(c.batch))
    /\ Below(ToSet(c.batch), ToSet(qu)) /\ Below(ToSet(c.fills), ToSet(qu)) /\ Below(StepOf(c), ToSet(qu))
    /\ OwnIsNext(c) => \A x \in ToSet(pe) : x.key # c.batch[1].key
    /\ ~Buffering(c) => c.fills = <<>>

Behind(st, pe, qu) ==
    /\ InOrder(st) /\ NotAfter(ToSet(st), ToSet(pe))
    /\ Below(ToSet(st), ToSet(qu)) /\ Below(ToSet(pe), ToSet(qu))

Line ==
    /\ Behind(steps, pending, queue)
    /\ \A w \in Workers : Working(co[w]) => InLine(co[w], steps, pending, queue)

Numbered == \A x : Present(x, queue, pending, steps, co) => x.id \in 1..used.acts

LEMMA Empties == ASSUME NEW a PROVE Below({}, a) /\ Below(a, {}) /\ NotAfter({}, a) /\ NotAfter(a, {})
BY DEF Below, NotAfter

LEMMA BelowNotAfter ==
    ASSUME NEW a \in SUBSET EventRecord, NEW b \in SUBSET EventRecord, Below(a, b)
    PROVE  NotAfter(a, b)
<1>1. ASSUME NEW x \in a, NEW y \in b PROVE x.id <= y.id
  <2>1. x.id \in 1..MaxActs /\ y.id \in 1..MaxActs BY DEF EventRecord
  <2>2. x.id < y.id BY DEF Below
  <2> QED BY <2>1, <2>2, Workplaces
<1> QED BY <1>1 DEF NotAfter

LEMMA BufferAll ==
    ASSUME NEW list \in Seq(EventRecord), Buffer(list)
    PROVE  NotAfter(ToSet(list), ToSet(list))
<1>1. ASSUME NEW x \in ToSet(list), NEW y \in ToSet(list), x.key = y.key PROVE x.id <= y.id
  <2>1. x = y BY <1>1 DEF ToSet, Buffer
  <2>2. x.id \in 1..MaxActs BY ListSet DEF EventRecord
  <2> QED BY <2>1, <2>2, Workplaces
<1> QED BY <1>1 DEF NotAfter

LEMMA AppendOrder ==
    ASSUME NEW list \in Seq(EventRecord), NEW x \in EventRecord, InOrder(list), NotAfter(ToSet(list), {x})
    PROVE  InOrder(Append(list, x))
<1>1. PICK more : more = Append(list, x) OBVIOUS
<1>2. /\ DOMAIN more = 1..(Len(list) + 1) /\ DOMAIN list = 1..Len(list) /\ Len(list) \in Nat
      /\ \A i \in 1..(Len(list) + 1) : more[i] = IF i = Len(list) + 1 THEN x ELSE list[i]
    BY <1>1
<1>3. ASSUME NEW i \in DOMAIN more, NEW j \in DOMAIN more, i < j, more[i].key = more[j].key
      PROVE  more[i].id <= more[j].id
  <2>1. i \in DOMAIN list /\ more[i] = list[i] BY <1>2, <1>3
  <2>2. CASE j \in DOMAIN list
    <3>1. more[j] = list[j] BY <1>2, <2>2
    <3> QED BY <1>3, <2>1, <2>2, <3>1 DEF InOrder
  <2>3. CASE j \notin DOMAIN list
    <3>1. more[j] = x BY <1>2, <2>3
    <3>2. list[i] \in ToSet(list) BY <2>1 DEF ToSet
    <3> QED BY <1>3, <2>1, <3>1, <3>2 DEF NotAfter
  <2> QED BY <2>2, <2>3
<1> QED BY <1>1, <1>3 DEF InOrder

LEMMA SortedHead ==
    ASSUME NEW list
    PROVE  list \in Seq(EventRecord) /\ list # <<>> /\ Sorted(list) => Below({list[1]}, ToSet(Tail(list)))
<1>0. HAVE list \in Seq(EventRecord) /\ list # <<>> /\ Sorted(list)
<1>1. PICK t : t = Tail(list) OBVIOUS
<1>2. /\ 1 \in DOMAIN list /\ Len(list) \in Nat \ {0}
      /\ DOMAIN list = 1..Len(list) /\ DOMAIN t = 1..(Len(list) - 1)
      /\ \A i \in 1..(Len(list) - 1) : t[i] = list[i + 1]
    BY <1>0, <1>1, TailFits
<1>3. \A i \in DOMAIN t : i + 1 \in DOMAIN list /\ t[i] = list[i + 1] /\ 1 < i + 1 BY <1>2
<1>4. Below({list[1]}, ToSet(t)) BY <1>0, <1>2, <1>3 DEF Sorted, ToSet, Below
<1> QED BY <1>1, <1>4

LEMMA SplitSorted ==
    ASSUME NEW batch, NEW n \in 0..Len(batch), NEW rest, NEW fills, Split(batch, n, rest, fills)
    PROVE  batch \in Seq(EventRecord) /\ Sorted(batch) => Sorted(rest)
<1>0. HAVE batch \in Seq(EventRecord) /\ Sorted(batch)
<1>1. /\ rest \in Seq(EventRecord) /\ Len(rest) = Len(batch) - n
      /\ \A i \in 1..(Len(batch) - n) : rest[i] = batch[n + i]
    BY DEF Split
<1>2. DOMAIN batch = 1..Len(batch) /\ Len(batch) \in Nat /\ n \in Nat BY <1>0
<1>3. DOMAIN rest = 1..(Len(batch) - n) BY <1>1, <1>2
<1>4. ASSUME NEW i \in DOMAIN rest, NEW j \in DOMAIN rest, i < j PROVE rest[i].id < rest[j].id
  <2>1. n + i \in DOMAIN batch /\ n + j \in DOMAIN batch /\ n + i < n + j BY <1>2, <1>3, <1>4
  <2> QED BY <1>0, <1>1, <1>3, <2>1 DEF Sorted
<1> QED BY <1>4 DEF Sorted

LEMMA NumbersInit == Init => Numbered
<1> SUFFICES ASSUME Init PROVE Numbered OBVIOUS
<1>1. \A w \in Workers : co[w] = Over BY DEF Init, Workers
<1>2. queue = <<>> /\ pending = <<>> /\ steps = <<>> BY DEF Init
<1>3. \A w \in Workers : Holds(co[w]) = {} BY <1>1, OverFits, EmptySet DEF Holds, StepOf
<1> QED BY <1>2, <1>3, EmptySet DEF Numbered, Present

\* Events are numbered as they happen.
LEMMA NumbersStay == Typed /\ Held /\ Numbered /\ [Next]_vars => Numbered'
<1> SUFFICES ASSUME Typed, Held, Numbered, [Next]_vars
             PROVE  \A x : Present(x, queue', pending', steps', co') => x.id \in 1..used'.acts
    BY DEF Numbered
<1>0. used \in [acts : 0..MaxActs, loads : 0..MaxLoads, calls : 0..MaxCalls] /\ used.acts \in Nat
    BY Workplaces DEF Typed
<1>1. CASE NoNews
  <2>1. used'.acts \in Nat /\ used.acts <= used'.acts
    <3>2. ASSUME Load PROVE used'.acts = used.acts BY <1>0, <3>2 DEF Load
    <3>3. ASSUME NEW p, Called(p) PROVE used'.acts = used.acts BY <3>3, CallTyped
    <3>4. ASSUME NEW by \in {"user", "agent"}, Act(by) PROVE used'.acts = used.acts + 1 BY <3>4, ActGoes
    <3>5. used'.acts = used.acts \/ used'.acts = used.acts + 1
      BY <3>2, <3>3, <3>4
        DEF Next, vars, UserActs, AgentActs, PollStep, HandlerStep, Begin, Drain, DrainRaises, Process, ProcessOwn,
            Ranked, FlushMore, Flushed, Unwind, Start, Stop, Suspend, Inject, Arm, Disarm, Suspended, Resume, Restore
    <3> QED BY <1>0, <3>5
  <2>2. ASSUME NEW x, Present(x, queue', pending', steps', co') PROVE x.id \in 1..used'.acts
    <3>1. x.id \in 1..used.acts BY <1>1, <2>2 DEF NoNews, Numbered
    <3> QED BY <1>0, <2>1, <3>1
  <2> QED BY <2>2
<1>2. ASSUME NEW by \in {"user", "agent"}, Act(by)
      PROVE  \A x : Present(x, queue', pending', steps', co') => x.id \in 1..used'.acts
  <2>1. PICK y : NewEvent(y, by) /\ queue' = Append(queue, y) BY <1>2, ActGoes
  <2>2. used'.acts = used.acts + 1 /\ pending' = pending /\ steps' = steps /\ co' = co
      BY <1>2, ActGoes DEF stateVars
  <2>3. ToSet(queue') = ToSet(queue) \cup {y} BY <2>1, AppendSet DEF Typed, NewEvent
  <2>4. ASSUME NEW x, Present(x, queue', pending', steps', co') PROVE x.id \in 1..used'.acts
    <3>1. x = y \/ Present(x, queue, pending, steps, co) BY <2>2, <2>3, <2>4 DEF Present
    <3>2. CASE x = y BY <1>0, <2>1, <2>2, <3>2 DEF NewEvent
    <3>3. CASE Present(x, queue, pending, steps, co)
      <4>1. x.id \in 1..used.acts BY <3>3 DEF Numbered
      <4> QED BY <1>0, <2>2, <4>1
    <3> QED BY <3>1, <3>2, <3>3
  <2> QED BY <2>4
<1> QED BY <1>1, <1>2, NothingAppears

-----------------------------------------------------------------------------
(***************************************************************************)
(* Emitting and flushing keep the line.                                    *)
(***************************************************************************)
\* Only the worker that works on the steps goes on.
LEMMA WorkerLine ==
    ASSUME OnePanel, Solo, NEW w \in Workers, Working(co[w]), \A v \in Workers : v # w => co'[v] = co[v],
           Behind(steps', pending', queue'),
           Working(co'[w]) => InLine(co'[w], steps', pending', queue')
    PROVE  Line'
<1>1. ASSUME NEW v \in Workers, Working(co'[v]) PROVE InLine(co'[v], steps', pending', queue')
  <2>1. CASE v = w BY <1>1, <2>1
  <2>2. CASE v # w BY <1>1, <2>2, Alone
  <2> QED BY <2>1, <2>2
<1> QED BY <1>1 DEF Line

\* Nobody begins to work; the queue or the buffer may be emptied.
LEMMA NobodyWorks ==
    ASSUME Line, \A v \in Workers : co'[v] = co[v] \/ ~Working(co'[v]),
           queue' \in {queue, <<>>}, pending' \in {pending, <<>>}, steps' = steps
    PROVE  Line'
<1>1. Behind(steps', pending', queue') BY EmptySet, Empties DEF Line, Behind, Below, NotAfter
<1>2. ASSUME NEW v \in Workers, Working(co'[v]) PROVE InLine(co'[v], steps', pending', queue')
  <2>1. co'[v] = co[v] /\ InLine(co[v], steps, pending, queue) BY <1>2 DEF Line
  <2>2. InLine(co[v], steps, pending', queue') BY <2>1, EmptySet DEF InLine, Below, NotAfter
  <2> QED BY <2>1, <2>2
<1> QED BY <1>1, <1>2 DEF Line

LEMMA EmitLine ==
    ASSUME OnePanel, Typed, Held, Solo, Line, NEW w \in Workers, Ranked(w) \/ FlushMore(w) \/ Flushed(w)
    PROVE  Line'
<1>0. co[w] \in Coroutines /\ Holding(co[w]) /\ Behind(steps, pending, queue) BY Goer DEF Line
<1>1. CASE Ranked(w)
  <2>1. PICK d : Fit(w, d) /\ Stays(d, co[w], co[w].after) BY <1>1, RankedGoes
  <2>2. co'[w] = d /\ \A v \in Workers : v # w => co'[v] = co[v] BY <2>1, FitFits
  <2>3. PICK x : x = co[w].step OBVIOUS
  <2>4. /\ x \in EventRecord /\ steps' = Append(steps, x) /\ co[w].pc = "ranking" /\ ~co[w].cancelled
        /\ co[w].after \in {"own", "taking", "flushing"} /\ steps \in Seq(EventRecord)
      BY <1>1, <2>3, RankedGoes DEF Typed
  <2>5. queue' = queue /\ pending' = pending BY <1>1 DEF Ranked, pageVars, stateVars
  <2>6. ToSet(steps') = ToSet(steps) \cup {x} BY <2>4, AppendSet
  <2>7. Working(co[w]) BY <2>4 DEF Working, AtWorkNow
  <2>8. InLine(co[w], steps, pending, queue) /\ StepOf(co[w]) = {x} BY <2>3, <2>4, <2>7 DEF Line, StepOf
  <2>9. InOrder(steps') BY <1>0, <2>4, <2>8, AppendOrder DEF Behind, InLine
  <2>10. Behind(steps', pending', queue')
      BY <1>0, <2>5, <2>6, <2>8, <2>9 DEF Behind, InLine, Below, NotAfter
  <2>11. InLine(d, steps', pending', queue')
    <3>1. StepOf(d) = {} /\ d.batch = co[w].batch /\ d.fills = co[w].fills /\ d.pc = co[w].after
        BY <2>1, <2>4 DEF Stays, StepOf
    <3>2. /\ OwnIsNext(d) => OwnIsNext(co[w])
          /\ Buffering(co[w]) => Buffering(d)
        BY <2>4, <3>1 DEF OwnIsNext, Buffering
    <3>3. /\ NotAfter(ToSet(steps'), StepOf(d)) /\ NotAfter(ToSet(steps'), ToSet(d.fills))
          /\ NotAfter(StepOf(d), ToSet(d.fills)) /\ NotAfter(StepOf(d), ToSet(pending'))
          /\ NotAfter(ToSet(d.fills), ToSet(pending'))
        BY <2>5, <2>6, <2>8, <3>1 DEF InLine, NotAfter
    <3>4. /\ Below(ToSet(steps'), ToSet(d.batch)) /\ Below(ToSet(pending'), ToSet(d.batch))
          /\ Below(ToSet(d.fills), ToSet(d.batch)) /\ Below(StepOf(d), ToSet(d.batch))
          /\ Below(ToSet(d.batch), ToSet(queue')) /\ Below(ToSet(d.fills), ToSet(queue'))
          /\ Below(StepOf(d), ToSet(queue'))
        BY <2>5, <2>6, <2>8, <3>1 DEF InLine, Below
    <3>5. /\ OwnIsNext(d) => \A y \in ToSet(pending') : y.key # d.batch[1].key
          /\ ~Buffering(d) => d.fills = <<>>
        BY <2>5, <2>8, <3>1, <3>2 DEF InLine
    <3> QED BY <3>3, <3>4, <3>5 DEF InLine
  <2> QED BY <2>2, <2>7, <2>10, <2>11, WorkerLine
<1>2. CASE FlushMore(w)
  <2>1. PICK d : /\ Fit(w, d) /\ d.pc = "ranking" /\ d.after = "flushing" /\ d.batch = co[w].batch
                 /\ d.fills = Tail(co[w].fills) /\ d.step = co[w].fills[1]
      BY <1>2, FlushMoreGoes
  <2>2. co'[w] = d /\ \A v \in Workers : v # w => co'[v] = co[v] BY <2>1, FitFits
  <2>3. queue' = queue /\ pending' = pending /\ steps' = steps BY <1>2 DEF FlushMore, pageVars, stateVars
  <2>4. PICK fills \in Seq(EventRecord) : fills = co[w].fills /\ Buffer(fills) BY <1>0, Fields DEF Holding
  <2>5. /\ fills # <<>> /\ fills[1] \in ToSet(fills) /\ ToSet(Tail(fills)) \subseteq ToSet(fills)
        /\ \A x \in ToSet(Tail(fills)) : x.key # fills[1].key
      BY <1>2, <2>4, FlushMoreGoes, TailSet, BufferTail
  <2>6. Working(co[w]) BY <1>2, FlushMoreGoes DEF Working, AtWorkNow
  <2>7. InLine(co[w], steps, pending, queue) BY <2>6 DEF Line
  <2>8. StepOf(d) = {fills[1]} /\ d.fills = Tail(fills) /\ d.batch = co[w].batch BY <2>1, <2>4 DEF StepOf
  <2>9. InLine(d, steps, pending, queue)
    <3>1. NotAfter(ToSet(steps), ToSet(fills)) /\ NotAfter(ToSet(fills), ToSet(pending))
        BY <2>4, <2>7 DEF InLine
    <3>2. /\ NotAfter(ToSet(steps), StepOf(d)) /\ NotAfter(ToSet(steps), ToSet(d.fills))
          /\ NotAfter(StepOf(d), ToSet(d.fills)) /\ NotAfter(StepOf(d), ToSet(pending))
          /\ NotAfter(ToSet(d.fills), ToSet(pending))
        BY <2>5, <2>8, <3>1 DEF NotAfter
    <3>3. /\ Below(ToSet(steps), ToSet(co[w].batch)) /\ Below(ToSet(pending), ToSet(co[w].batch))
          /\ Below(ToSet(fills), ToSet(co[w].batch))
          /\ Below(ToSet(co[w].batch), ToSet(queue)) /\ Below(ToSet(fills), ToSet(queue))
        BY <2>4, <2>7 DEF InLine
    <3>4. /\ Below(ToSet(steps), ToSet(d.batch)) /\ Below(ToSet(pending), ToSet(d.batch))
          /\ Below(ToSet(d.fills), ToSet(d.batch)) /\ Below(StepOf(d), ToSet(d.batch))
          /\ Below(ToSet(d.batch), ToSet(queue)) /\ Below(ToSet(d.fills), ToSet(queue))
          /\ Below(StepOf(d), ToSet(queue))
        BY <2>5, <2>8, <3>3 DEF Below
    <3>5. ~OwnIsNext(d) /\ Buffering(d) BY <2>1 DEF OwnIsNext, Buffering
    <3> QED BY <3>2, <3>4, <3>5 DEF InLine
  <2> QED BY <1>0, <2>2, <2>3, <2>6, <2>9, WorkerLine
<1>3. CASE Flushed(w)
  <2>1. PICK d : Fit(w, d) /\ (Looped(d, co[w]) \/ Stays(d, co[w], "disarming")) BY <1>3, FlushedGoes
  <2>2. co'[w] = d /\ \A v \in Workers : v # w => co'[v] = co[v] BY <2>1, FitFits
  <2>3. queue' = queue /\ pending' = <<>> /\ steps' = steps BY <1>3 DEF Flushed, pageVars
  <2>4. Working(co[w]) /\ co[w].fills = <<>> BY <1>3, FlushedGoes DEF Working, AtWorkNow
  <2>5. InLine(co[w], steps, pending, queue) BY <2>4 DEF Line
  <2>6. Behind(steps, <<>>, queue) BY <1>0, EmptySet, Empties DEF Behind
  <2>7. InLine(d, steps, <<>>, queue)
    <3>1. /\ d.batch \in {co[w].batch, <<>>} /\ d.fills = <<>> /\ StepOf(d) = {} /\ d.pc \notin {"own", "ranking"}
        BY <2>1, <2>4 DEF Looped, Stays, StepOf
    <3>2. /\ Below(ToSet(steps), ToSet(d.batch)) /\ Below(ToSet(d.batch), ToSet(queue))
        BY <2>5, <3>1, EmptySet, Empties DEF InLine
    <3> QED BY <3>1, <3>2, EmptySet, Empties DEF InLine, OwnIsNext
  <2> QED BY <2>2, <2>3, <2>4, <2>6, <2>7, WorkerLine
<1> QED BY <1>1, <1>2, <1>3

LEMMA LoopLine ==
    ASSUME OnePanel, Typed, Held, Solo, Line, NEW q \in Polls, Begin(q) \/ DrainRaises(q)
    PROVE  Line'
<1>0. q \in Workers /\ Behind(steps, pending, queue) BY Workplaces DEF Line
<1>1. PICK d : Fit(q, d) /\ Looped(d, co[q]) BY LoopGoes
<1>2. co'[q] = d /\ \A v \in Workers : v # q => co'[v] = co[v] BY <1>0, <1>1, FitFits
<1>3. queue' \in {queue, <<>>} /\ pending' = pending /\ steps' = steps
    BY DEF Begin, DrainRaises, stateVars, pageVars
<1>4. Working(co[q]) /\ co[q].pc \in {"created", "sleeping"} BY LoopGoes DEF Working, AtWorkNow
<1>5. InLine(co[q], steps, pending, queue) BY <1>0, <1>4 DEF Line
<1>6. Behind(steps, pending, queue') BY <1>0, <1>3, EmptySet, Empties DEF Behind
<1>7. InLine(d, steps, pending, queue')
  <2>1. co[q].fills = <<>> BY <1>4, <1>5 DEF InLine, Buffering
  <2>2. d.batch \in {co[q].batch, <<>>} /\ d.fills = <<>> /\ StepOf(d) = {} /\ d.pc \notin {"own", "ranking"}
      BY <1>1, <2>1 DEF Looped, StepOf
  <2>3. Below(ToSet(steps), ToSet(d.batch)) /\ Below(ToSet(pending), ToSet(d.batch))
        /\ Below(ToSet(d.batch), ToSet(queue'))
      BY <1>3, <1>5, <2>2, EmptySet, Empties DEF InLine
  <2> QED BY <2>2, <2>3, EmptySet, Empties DEF InLine, OwnIsNext
<1> QED BY <1>0, <1>2, <1>3, <1>4, <1>6, <1>7, WorkerLine

LEMMA DrainLine == ASSUME OnePanel, Typed, Held, Solo, Line, NEW q \in Polls, Drain(q) PROVE Line'
<1>0. q \in Workers /\ Behind(steps, pending, queue) BY Workplaces DEF Line
<1>1. PICK d : Fit(q, d) /\ d.pc = "taking" /\ d.batch = queue /\ d.fills = co[q].fills BY DrainGoes
<1>2. co'[q] = d /\ \A v \in Workers : v # q => co'[v] = co[v] BY <1>0, <1>1, FitFits
<1>3. queue' = <<>> /\ pending' = pending /\ steps' = steps BY DEF Drain, stateVars
<1>4. Working(co[q]) /\ co[q].pc = "sleeping" BY DrainGoes DEF Working, AtWorkNow
<1>5. InLine(co[q], steps, pending, queue) BY <1>0, <1>4 DEF Line
<1>6. Behind(steps, pending, <<>>) BY <1>0, EmptySet, Empties DEF Behind
<1>7. InLine(d, steps, pending, <<>>)
  <2>1. d.fills = <<>> /\ StepOf(d) = {} BY <1>1, <1>4, <1>5 DEF InLine, Buffering, StepOf
  <2>2. Below(ToSet(steps), ToSet(d.batch)) /\ Below(ToSet(pending), ToSet(d.batch)) BY <1>0, <1>1 DEF Behind
  <2> QED BY <1>1, <2>1, <2>2, EmptySet, Empties DEF InLine, OwnIsNext
<1> QED BY <1>0, <1>2, <1>3, <1>4, <1>6, <1>7, WorkerLine

-----------------------------------------------------------------------------
(***************************************************************************)
(* A batch keeps the line.                                                 *)
(***************************************************************************)
\* The batch of a worker is sorted.
LEMMA SortedBatch ==
    ASSUME Once, NEW w \in Workers
    PROVE  Sorted(co[w].batch)
BY DEF Once, AtOnePlace, WorkAt

LEMMA ProcessOwnLine ==
    ASSUME OnePanel, Typed, Held, Once, Solo, Line, NEW q \in Polls, ProcessOwn(q)
    PROVE  Line'
<1>0. q \in Workers /\ Behind(steps, pending, queue) BY Workplaces DEF Line
<1>1. PICK d : Fit(q, d) /\ (Skips(d, co[q]) \/ ComesOut(d, co[q])) BY ProcessOwnGoes
<1>2. co'[q] = d /\ \A v \in Workers : v # q => co'[v] = co[v] BY <1>0, <1>1, FitFits
<1>3. queue' = queue /\ pending' = pending /\ steps' = steps BY DEF ProcessOwn, pageVars
<1>4. Working(co[q]) /\ co[q].pc = "own" /\ co[q].batch # <<>> BY ProcessOwnGoes DEF Working, AtWorkNow
<1>5. InLine(co[q], steps, pending, queue) BY <1>0, <1>4 DEF Line
<1>6. PICK batch \in Seq(EventRecord) : batch = co[q].batch BY <1>0, Goer, Fields
<1>7. PICK x : x = batch[1] OBVIOUS
<1>8. /\ x \in ToSet(batch) /\ ToSet(Tail(batch)) \subseteq ToSet(batch) /\ Below({x}, ToSet(Tail(batch)))
      /\ x \in EventRecord
    BY <1>0, <1>4, <1>6, <1>7, SortedBatch, SortedHead, TailSet
<1>9. /\ Below(ToSet(steps), ToSet(batch)) /\ Below(ToSet(pending), ToSet(batch)) /\ Below(ToSet(batch), ToSet(queue))
      /\ \A y \in ToSet(pending) : y.key # x.key
    BY <1>4, <1>5, <1>6, <1>7 DEF InLine, OwnIsNext
<1>10. d.batch = Tail(batch) /\ d.fills = <<>> /\ StepOf(d) \subseteq {x} /\ ~OwnIsNext(d)
    BY <1>1, <1>4, <1>5, <1>6, <1>7 DEF InLine, Buffering, OwnIsNext, Skips, ComesOut, StepOf
<1>11. InLine(d, steps, pending, queue)
  <2>1. NotAfter(ToSet(steps), StepOf(d))
    <3>1. ToSet(steps) \subseteq EventRecord BY ListSet DEF Typed
    <3>2. StepOf(d) \subseteq EventRecord BY <1>8, <1>10
    <3>3. Below(ToSet(steps), StepOf(d)) BY <1>8, <1>9, <1>10 DEF Below
    <3> QED BY <3>1, <3>2, <3>3, BelowNotAfter
  <2>2. NotAfter(StepOf(d), ToSet(pending)) BY <1>9, <1>10 DEF NotAfter
  <2>3. /\ Below(ToSet(steps), ToSet(d.batch)) /\ Below(ToSet(pending), ToSet(d.batch))
        /\ Below(StepOf(d), ToSet(d.batch)) /\ Below(ToSet(d.batch), ToSet(queue)) /\ Below(StepOf(d), ToSet(queue))
      BY <1>8, <1>9, <1>10 DEF Below
  <2> QED BY <1>10, <2>1, <2>2, <2>3, EmptySet, Empties DEF InLine
<1> QED BY <1>0, <1>2, <1>3, <1>4, <1>11, WorkerLine

\* What is left of a batch and what is buffered keep to the line.
SplitLine(rest, fills) ==
    /\ NotAfter(ToSet(steps), ToSet(fills)) /\ Below(ToSet(steps), ToSet(rest))
    /\ Below(ToSet(fills), ToSet(rest)) /\ Below(ToSet(fills), ToSet(queue)) /\ Below(ToSet(rest), ToSet(queue))

LEMMA Splits ==
    ASSUME Typed, Once, NEW w \in Workers, Behind(steps, pending, queue), InLine(co[w], steps, pending, queue),
           NEW batch \in Seq(EventRecord), batch = co[w].batch,
           NEW n \in 0..Len(batch), NEW rest, NEW fills, Split(batch, n, rest, fills)
    PROVE  SplitLine(rest, fills) /\ Sorted(rest)
<1>1. Sorted(batch) BY SortedBatch
<1>2. /\ ToSet(rest) \subseteq ToSet(batch) /\ ToSet(fills) \subseteq ToSet(pending) \cup ToSet(batch)
      /\ \A x \in ToSet(fills), y \in ToSet(rest) : x \in ToSet(pending) \/ x.id < y.id
    BY <1>1, SplitSet
<1>3. /\ Below(ToSet(steps), ToSet(batch)) /\ Below(ToSet(pending), ToSet(batch)) /\ Below(ToSet(batch), ToSet(queue))
      /\ NotAfter(ToSet(steps), ToSet(pending)) /\ Below(ToSet(pending), ToSet(queue))
    BY DEF InLine, Behind
<1>4. ToSet(steps) \subseteq EventRecord /\ ToSet(batch) \subseteq EventRecord BY ListSet DEF Typed
<1>5. NotAfter(ToSet(steps), ToSet(batch)) BY <1>3, <1>4, BelowNotAfter
<1>6. NotAfter(ToSet(steps), ToSet(fills)) BY <1>2, <1>3, <1>5 DEF NotAfter
<1>7. /\ Below(ToSet(steps), ToSet(rest)) /\ Below(ToSet(fills), ToSet(rest)) /\ Below(ToSet(fills), ToSet(queue))
      /\ Below(ToSet(rest), ToSet(queue))
    BY <1>2, <1>3 DEF Below
<1>8. Sorted(rest) BY <1>1, SplitSorted
<1> QED BY <1>6, <1>7, <1>8 DEF SplitLine

\* Dealing with a batch.
LEMMA ProcessLine ==
    ASSUME OnePanel, Typed, Held, Once, Solo, Line, NEW q \in Polls, Process(q)
    PROVE  Line'
<1>0. q \in Workers /\ Behind(steps, pending, queue) BY Workplaces DEF Line
<1>1. PICK n \in 0..Len(co[q].batch) : \E rest, fills, d :
            /\ Split(co[q].batch, n, rest, fills)
            /\ d \in Coroutines /\ Holding(d) /\ ~d.cancelled
            /\ Becomes(q, d) /\ Goes4(d, co[q], rest, fills)
    BY ProcessGoes
<1>2. PICK rest, fills, d : Split(co[q].batch, n, rest, fills) /\ Fit(q, d) /\ Goes4(d, co[q], rest, fills)
    BY <1>1 DEF Fit
<1>3. co'[q] = d /\ \A v \in Workers : v # q => co'[v] = co[v] BY <1>0, <1>2, FitFits
<1>4. queue' = queue /\ steps' = steps BY DEF Process, pageVars
<1>5. Working(co[q]) /\ co[q].pc = "taking" BY DEF Process, Working, AtWorkNow
<1>6. InLine(co[q], steps, pending, queue) BY <1>0, <1>5 DEF Line
<1>7. co[q].fills = <<>> BY <1>5, <1>6 DEF InLine, Buffering
<1>8. rest \in Seq(EventRecord) /\ fills \in Seq(EventRecord) /\ Buffer(fills) BY <1>2 DEF Split
<1>9. SplitLine(rest, fills) /\ Sorted(rest)
  <2>1. PICK batch \in Seq(EventRecord) : batch = co[q].batch BY <1>0, Goer, Fields
  <2>2. n \in 0..Len(batch) /\ Split(batch, n, rest, fills) BY <1>2, <2>1
  <2> QED BY <1>0, <1>6, <2>1, <2>2, Splits
<1>10. InOrder(steps) /\ Below(ToSet(steps), ToSet(queue)) BY <1>0 DEF Behind
<1>11. ASSUME Behind(steps, pending', queue), InLine(d, steps, pending', queue) PROVE Line'
    BY <1>0, <1>3, <1>4, <1>5, <1>11, WorkerLine
<1>12. CASE Passed(d, co[q], rest, fills)
  <2>1. pending' = <<>> /\ d.batch = <<>> /\ d.fills = <<>> /\ StepOf(d) = {} /\ ~OwnIsNext(d)
      BY <1>7, <1>12 DEF Passed, StepOf, OwnIsNext
  <2>2. Behind(steps, pending', queue) BY <1>10, <2>1, EmptySet, Empties DEF Behind
  <2>3. InLine(d, steps, pending', queue) BY <2>1, EmptySet, Empties DEF InLine
  <2> QED BY <1>11, <2>2, <2>3
<1>13. CASE FlushesNow(d, rest, fills)
  <2>1. /\ pending' = fills /\ d.batch = <<>> /\ d.fills = Tail(fills) /\ StepOf(d) = {fills[1]} /\ fills # <<>>
        /\ ~OwnIsNext(d) /\ Buffering(d)
      BY <1>13 DEF FlushesNow, StepOf, OwnIsNext, Buffering
  <2>2. fills[1] \in ToSet(fills) /\ ToSet(Tail(fills)) \subseteq ToSet(fills) BY <1>8, <2>1, TailSet
  <2>3. \A x \in ToSet(Tail(fills)) : x.key # fills[1].key BY <1>8, <2>1, BufferTail
  <2>4. NotAfter(ToSet(fills), ToSet(fills)) BY <1>8, BufferAll
  <2>5. Behind(steps, pending', queue) BY <1>9, <1>10, <2>1 DEF Behind, SplitLine
  <2>6. /\ NotAfter(ToSet(steps), StepOf(d)) /\ NotAfter(ToSet(steps), ToSet(d.fills))
        /\ NotAfter(StepOf(d), ToSet(d.fills)) /\ NotAfter(StepOf(d), ToSet(pending'))
        /\ NotAfter(ToSet(d.fills), ToSet(pending'))
      BY <1>9, <2>1, <2>2, <2>3, <2>4 DEF NotAfter, SplitLine
  <2>7. Below(ToSet(d.fills), ToSet(queue)) /\ Below(StepOf(d), ToSet(queue))
      BY <1>9, <2>1, <2>2 DEF Below, SplitLine
  <2>8. InLine(d, steps, pending', queue) BY <2>1, <2>6, <2>7, EmptySet, Empties DEF InLine
  <2> QED BY <1>11, <2>5, <2>8
<1>14. CASE FillIsFirst(d, co[q], rest, fills)
  <2>1. PICK i : i = PlaceOf(fills, rest[1].key) OBVIOUS
  <2>2. PICK x : x = fills[i] OBVIOUS
  <2>3. PICK less : less = RemoveAt(fills, i) OBVIOUS
  <2>4. /\ x \in ToSet(fills) /\ x.key = rest[1].key /\ ToSet(less) \subseteq ToSet(fills)
        /\ \A y \in ToSet(less) : y.key # rest[1].key
      BY <1>8, <1>14, <2>1, <2>2, <2>3, LessSet DEF FillIsFirst
  <2>5. /\ pending' = less /\ StepOf(d) = {x} /\ d.fills = <<>> /\ d.batch = rest
      BY <1>7, <1>14, <2>1, <2>2, <2>3 DEF FillIsFirst, StepOf
  <2>6. Behind(steps, pending', queue) BY <1>9, <1>10, <2>4, <2>5 DEF Behind, SplitLine, NotAfter, Below
  <2>7. NotAfter(ToSet(steps), StepOf(d)) /\ NotAfter(StepOf(d), ToSet(pending'))
      BY <1>9, <2>4, <2>5 DEF NotAfter, SplitLine
  <2>8. /\ Below(ToSet(steps), ToSet(d.batch)) /\ Below(ToSet(pending'), ToSet(d.batch))
        /\ Below(StepOf(d), ToSet(d.batch)) /\ Below(ToSet(d.batch), ToSet(queue)) /\ Below(StepOf(d), ToSet(queue))
      BY <1>9, <2>4, <2>5 DEF Below, SplitLine
  <2>9. \A y \in ToSet(pending') : y.key # d.batch[1].key BY <2>4, <2>5
  <2>10. InLine(d, steps, pending', queue) BY <2>5, <2>7, <2>8, <2>9, EmptySet, Empties DEF InLine
  <2> QED BY <1>11, <2>6, <2>10
<1>15. CASE OwnComes(d, co[q], rest, fills)
  <2>1. PICK x : x = rest[1] OBVIOUS
  <2>2. /\ rest # <<>> /\ pending' = fills /\ StepOf(d) = {x} /\ d.fills = <<>> /\ d.batch = Tail(rest)
        /\ ~HasFill(fills, x.key) /\ ~OwnIsNext(d)
      BY <1>7, <1>15, <2>1 DEF OwnComes, StepOf, OwnIsNext
  <2>3. /\ x \in ToSet(rest) /\ ToSet(Tail(rest)) \subseteq ToSet(rest) /\ Below({x}, ToSet(Tail(rest)))
        /\ x \in EventRecord
      BY <1>8, <1>9, <2>1, <2>2, SortedHead, TailSet
  <2>4. Behind(steps, pending', queue) BY <1>9, <1>10, <2>2 DEF Behind, SplitLine
  <2>5. NotAfter(ToSet(steps), StepOf(d))
    <3>1. ToSet(steps) \subseteq EventRecord /\ {x} \subseteq EventRecord BY <2>3, ListSet DEF Typed
    <3>2. Below(ToSet(steps), {x}) BY <1>9, <2>3 DEF Below, SplitLine
    <3> QED BY <2>2, <3>1, <3>2, BelowNotAfter
  <2>6. NotAfter(StepOf(d), ToSet(pending')) BY <2>2 DEF NotAfter, HasFill, ToSet
  <2>7. /\ Below(ToSet(steps), ToSet(d.batch)) /\ Below(ToSet(pending'), ToSet(d.batch))
        /\ Below(StepOf(d), ToSet(d.batch)) /\ Below(ToSet(d.batch), ToSet(queue)) /\ Below(StepOf(d), ToSet(queue))
      BY <1>9, <2>2, <2>3 DEF Below, SplitLine
  <2>8. InLine(d, steps, pending', queue) BY <2>2, <2>5, <2>6, <2>7, EmptySet, Empties DEF InLine
  <2> QED BY <1>11, <2>4, <2>8
<1> QED BY <1>2, <1>12, <1>13, <1>14, <1>15 DEF Goes4

LEMMA UnwindLine == ASSUME Typed, Held, Line, NEW q \in Polls, Unwind(q) PROVE Line'
<1>1. q \in Workers /\ Fit(q, Over) BY UnwindGoes, Workplaces
<1>2. co'[q] = Over /\ \A v \in Workers : v # q => co'[v] = co[v] BY <1>1, FitFits
<1>3. queue' = queue /\ pending' = pending /\ steps' = steps BY DEF Unwind, pageVars, stateVars
<1>4. ~Working(co'[q]) BY <1>2, OverFits DEF Working, AtWorkNow
<1> QED BY <1>1, <1>2, <1>3, <1>4, NobodyWorks

-----------------------------------------------------------------------------
(***************************************************************************)
(* Acts, handlers, and the order of the steps.                             *)
(***************************************************************************)
\* A new event is behind all others.
LEMMA ActLine ==
    ASSUME Typed, Held, Numbered, Line, NEW by \in {"user", "agent"}, Act(by)
    PROVE  Line'
<1>1. PICK y : NewEvent(y, by) /\ queue' = Append(queue, y) BY ActGoes
<1>2. pending' = pending /\ steps' = steps /\ co' = co BY ActGoes DEF stateVars
<1>3. ToSet(queue') = ToSet(queue) \cup {y} BY <1>1, AppendSet DEF Typed, NewEvent
<1>4. used.acts \in 0..MaxActs /\ MaxActs \in Nat BY Workplaces DEF Typed
<1>5. ASSUME NEW x, Present(x, queue, pending, steps, co) PROVE x.id < y.id
  <2>1. x.id \in 1..used.acts BY <1>5 DEF Numbered
  <2> QED BY <1>1, <1>4, <2>1 DEF NewEvent
<1>6. Below(ToSet(steps), {y}) /\ Below(ToSet(pending), {y}) BY <1>5 DEF Below, Present
<1>7. ASSUME NEW w \in Workers
      PROVE  Below(ToSet(co[w].batch), {y}) /\ Below(ToSet(co[w].fills), {y}) /\ Below(StepOf(co[w]), {y})
    BY <1>5 DEF Below, Present, Holds
<1>8. Behind(steps, pending, queue') BY <1>3, <1>6 DEF Line, Behind, Below
<1>9. ASSUME NEW w \in Workers, Working(co[w]) PROVE InLine(co[w], steps, pending, queue')
  <2>1. InLine(co[w], steps, pending, queue) BY <1>9 DEF Line
  <2>2. /\ Below(ToSet(co[w].batch), ToSet(queue)) /\ Below(ToSet(co[w].fills), ToSet(queue))
        /\ Below(StepOf(co[w]), ToSet(queue))
      BY <2>1 DEF InLine
  <2>3. /\ Below(ToSet(co[w].batch), ToSet(queue')) /\ Below(ToSet(co[w].fills), ToSet(queue'))
        /\ Below(StepOf(co[w]), ToSet(queue'))
      BY <1>3, <1>7, <2>2 DEF Below
  <2> QED BY <2>1, <2>3 DEF InLine
<1> QED BY <1>2, <1>8, <1>9 DEF Line

\* The turns of a handler keep the line.
LEMMA PanelLine ==
    ASSUME OnePanel, Typed, Held, Once, Solo, Line, NEW p \in Panels,
           Start(p) \/ Stop(p) \/ Suspend(p) \/ HandlerStep(p)
    PROVE  Line'
<1>0. p \in Workers /\ p \notin Polls /\ Handles(co[p], recording, pollTask, depth) BY Workplaces DEF Solo
<1>1. ASSUME NEW pc \in Places \ AtWorkNow, Goes(p, pc), queue' \in {queue, <<>>}, pending' \in {pending, <<>>},
             steps' = steps
      PROVE  Line'
  <2>1. pc \in Places \ {"own", "ranking"} BY <1>1 DEF AtWorkNow
  <2>2. Stays(co'[p], co[p], pc) /\ (\A v \in Workers : v # p => co'[v] = co[v]) BY <1>0, <1>1, <2>1, PlaceGoes
  <2>3. ~Working(co'[p]) BY <1>1, <2>2 DEF Stays, Working
  <2> QED BY <1>0, <1>1, <2>2, <2>3, NobodyWorks
<1>2. CASE Start(p)
  <2>1. (IF injected THEN "arming" ELSE "injecting") \in Places \ AtWorkNow BY DEF Places, AtWorkNow
  <2> QED BY <1>1, <1>2, <2>1 DEF Start, pageVars
<1>3. CASE Stop(p)
  <2>1. /\ co[p].pc = "idle" /\ pollTask' = NoPoll
        /\ IF pending = <<>> THEN Stays(co'[p], co[p], "disarming") ELSE Flushed1(co'[p], co[p])
        /\ \A q \in Polls : /\ Marked(co'[q], co[q])
                            /\ co[q].cancelled => co'[q].cancelled
                            /\ q = pollTask => co[q] = Over \/ co'[q].cancelled
        /\ \A v \in Panels : v # p => co'[v] = co[v]
      BY <1>3, StopGoes
  <2>2. queue' = queue /\ pending' = pending /\ steps' = steps BY <1>3 DEF Stop, pageVars
  <2>3. Behind(steps, pending, queue) BY DEF Line
  <2>4. ASSUME NEW q \in Polls PROVE ~Working(co'[q])
    <3>1. Polling(q, co[q], pollTask) BY DEF Solo
    <3>2. CASE q = pollTask BY <2>1, <3>2, OverFits DEF Working, Marked, AtWorkNow
    <3>3. CASE q # pollTask BY <2>1, <3>1, <3>3 DEF Working, Marked, Polling
    <3> QED BY <3>2, <3>3
  <2>5. ASSUME Working(co'[p]) PROVE InLine(co'[p], steps, pending, queue)
    <3>1. pending # <<>> /\ Flushed1(co'[p], co[p]) BY <2>1, <2>5 DEF Stays, Working, AtWorkNow
    <3>2. PICK d : d = co'[p] OBVIOUS
    <3>3. /\ StepOf(d) = {pending[1]} /\ d.fills = Tail(pending) /\ d.batch = <<>> /\ ~OwnIsNext(d) /\ Buffering(d)
        BY <1>0, <3>1, <3>2 DEF Flushed1, StepOf, Handles, OwnIsNext, Buffering
    <3>4. pending \in Seq(EventRecord) /\ Buffer(pending) BY DEF Typed, Held
    <3>5. /\ pending[1] \in ToSet(pending) /\ ToSet(Tail(pending)) \subseteq ToSet(pending)
          /\ \A x \in ToSet(Tail(pending)) : x.key # pending[1].key
        BY <3>1, <3>4, TailSet, BufferTail
    <3>6. NotAfter(ToSet(pending), ToSet(pending)) BY <3>4, BufferAll
    <3>7. NotAfter(ToSet(steps), ToSet(pending)) /\ Below(ToSet(pending), ToSet(queue)) BY <2>3 DEF Behind
    <3>8. /\ NotAfter(ToSet(steps), StepOf(d)) /\ NotAfter(ToSet(steps), ToSet(d.fills))
          /\ NotAfter(StepOf(d), ToSet(d.fills)) /\ NotAfter(StepOf(d), ToSet(pending))
          /\ NotAfter(ToSet(d.fills), ToSet(pending))
        BY <3>3, <3>5, <3>6, <3>7 DEF NotAfter
    <3>9. Below(ToSet(d.fills), ToSet(queue)) /\ Below(StepOf(d), ToSet(queue)) BY <3>3, <3>5, <3>7 DEF Below
    <3>10. InLine(d, steps, pending, queue) BY <3>3, <3>8, <3>9, EmptySet, Empties DEF InLine
    <3> QED BY <3>2, <3>10
  <2>6. PICK only : Panels = {only} BY DEF OnePanel
  <2>7. \A v \in Workers : Working(co'[v]) => v = p BY <2>4, <2>6 DEF Workers
  <2> QED BY <2>2, <2>3, <2>5, <2>7 DEF Line
<1>4. CASE Suspend(p)
  <2>1. (IF depth = 0 /\ recording THEN "suspending" ELSE "acting") \in Places \ AtWorkNow BY DEF Places, AtWorkNow
  <2> QED BY <1>1, <1>4, <2>1 DEF Suspend, pageVars
<1>5. CASE Inject(p)
  <2>1. "arming" \in Places \ AtWorkNow BY DEF Places, AtWorkNow
  <2> QED BY <1>1, <1>5, <2>1 DEF Inject, stateVars
<1>6. CASE Arm(p)
  <2>1. PICK q \in Polls : /\ co[q] = Over /\ co'[p] = Over /\ Stays(co'[q], Over, "created")
                           /\ \A v \in Workers : v # p /\ v # q => co'[v] = co[v]
      BY <1>6, ArmGoes
  <2>2. queue' = queue /\ pending' = pending /\ steps' = steps BY <1>6 DEF Arm
  <2>3. Behind(steps, pending, queue) BY DEF Line
  <2>4. InLine(co'[q], steps, pending, queue)
    <3>1. PICK d : d = co'[q] OBVIOUS
    <3>2. d.batch = <<>> /\ d.fills = <<>> /\ StepOf(d) = {} /\ ~OwnIsNext(d)
        BY <2>1, <3>1, OverFits DEF Stays, StepOf, OwnIsNext
    <3> QED BY <3>1, <3>2, EmptySet, Empties DEF InLine
  <2>5. ~Working(co'[p]) BY <2>1, OverFits DEF Working, AtWorkNow
  <2>6. ASSUME NEW v \in Workers, Working(co'[v]) PROVE InLine(co'[v], steps, pending, queue)
    <3>1. CASE v = q BY <2>4, <3>1
    <3>2. CASE v # q BY <2>1, <2>5, <2>6, <3>2 DEF Line
    <3> QED BY <3>1, <3>2
  <2> QED BY <2>2, <2>3, <2>6 DEF Line
<1>7. CASE Disarm(p)
  <2>1. Fit(p, Over) BY <1>7, OverFits DEF Disarm, Fit, Becomes
  <2>2. co'[p] = Over /\ \A v \in Workers : v # p => co'[v] = co[v] BY <1>0, <2>1, FitFits
  <2>3. queue' = queue /\ pending' = pending /\ steps' = steps BY <1>7 DEF Disarm, stateVars
  <2>4. ~Working(co'[p]) BY <2>2, OverFits DEF Working, AtWorkNow
  <2> QED BY <1>0, <2>2, <2>3, <2>4, NobodyWorks
<1>8. CASE Suspended(p)
  <2>1. "acting" \in Places \ AtWorkNow BY DEF Places, AtWorkNow
  <2> QED BY <1>1, <1>8, <2>1 DEF Suspended, stateVars
<1>9. CASE Resume(p)
  <2>1. (IF depth' = 0 /\ recording THEN "restoring" ELSE "idle") \in Places \ AtWorkNow BY DEF Places, AtWorkNow
  <2> QED BY <1>1, <1>9, <2>1 DEF Resume, pageVars
<1>10. CASE Restore(p)
  <2>1. "idle" \in Places \ AtWorkNow BY DEF Places, AtWorkNow
  <2> QED BY <1>1, <1>10, <2>1 DEF Restore, stateVars
<1> QED BY <1>0, <1>2, <1>3, <1>4, <1>5, <1>6, <1>7, <1>8, <1>9, <1>10, EmitLine DEF HandlerStep

LEMMA LineStays ==
    ASSUME OnePanel PROVE Typed /\ Held /\ Once /\ Solo /\ Numbered /\ Line /\ [Next]_vars => Line'
<1> SUFFICES ASSUME Typed, Held, Once, Solo, Numbered, Line, [Next]_vars PROVE Line' OBVIOUS
<1>1. CASE UNCHANGED vars
  <2>1. queue' = queue /\ pending' = pending /\ steps' = steps /\ co' = co
      BY <1>1 DEF vars, pageVars, stateVars
  <2> QED BY <2>1 DEF Line
<1>2. CASE UserActs \/ \E p \in Panels : AgentActs(p) BY <1>2, ActLine DEF UserActs, AgentActs
<1>3. CASE Load
  <2>1. queue' = <<>> /\ pending' = pending /\ steps' = steps /\ co' = co BY <1>3 DEF Load, stateVars
  <2> QED BY <2>1, NobodyWorks
<1>4. ASSUME NEW q \in Polls, PollStep(q) PROVE Line'
  <2>1. q \in Workers BY Workplaces
  <2> QED BY <1>4, <2>1, LoopLine, DrainLine, ProcessLine, ProcessOwnLine, EmitLine, UnwindLine DEF PollStep
<1> QED BY <1>1, <1>2, <1>3, <1>4, PanelLine DEF Next

LEMMA LineInit == Init => Line
<1> SUFFICES ASSUME Init PROVE Line OBVIOUS
<1>1. \A w \in Workers : co[w] = Over BY DEF Init, Workers
<1>2. queue = <<>> /\ pending = <<>> /\ steps = <<>> BY DEF Init
<1>3. InOrder(steps) BY <1>2 DEF InOrder
<1>4. Behind(steps, pending, queue) BY <1>2, <1>3, EmptySet, Empties DEF Behind
<1> QED BY <1>1, <1>4, OverFits DEF Line, Working, AtWorkNow

\* With one panel, what was done to one element is recorded in the order in which it was done:
\* through batches, buffered fills and a stop in the middle of a flush (_process_capture_event,
\* _flush_pending_fills).
THEOREM ElementsInOrder == ASSUME OnePanel PROVE Spec => []ElementInOrder
<1>1. Init => Typed /\ Held /\ Once /\ Solo /\ Numbered /\ Line
    BY TypedInit, OnceInit, SoloInit, NumbersInit, LineInit
<1>2. Typed /\ Held /\ Once /\ Solo /\ Numbered /\ Line /\ [Next]_vars
      => (Typed /\ Held /\ Once /\ Solo /\ Numbered /\ Line)'
    BY TypedStays, OnceStays, SoloStays, NumbersStay, LineStays
<1>3. Line => ElementInOrder BY DEF Line, Behind, InOrder, ElementInOrder
<1> QED BY <1>1, <1>2, <1>3, PTL DEF Spec

================================================================================
