--------------------------- MODULE RecorderProofs ----------------------------
(***************************************************************************)
(* What is proved of the recorder, for every number of events, documents   *)
(* and controls.  The invariant has five parts: the types; what is on its  *)
(* way has happened, and a task that is yet to take what arrived holds     *)
(* nothing (OnTheWay); the edges follow the steps; every event is at one   *)
(* place (Once); every captured event has a place (Placed).                *)
(***************************************************************************)
EXTENDS Recorder, ListFacts, FiniteSetTheorems

EventRecords == [doc : Docs, seq : Nat, kind : Kinds \cup {"pick"}, el : Elements]

StepRecords == [id : Nat, kind : {"click", "fill", "pick", "upload", "added"},
                el : Elements \cup {"none"}, from : SUBSET Events, paths : Nat]

GraphTyped == steps \in Seq(StepRecords) /\ made \in Nat /\ gone \subseteq Events

\* A step of the list stands for event e; only one does.
Somewhere(list, e) == \E i \in DOMAIN list : e \in list[i].from
Single(list, e) == \A i, j \in DOMAIN list : e \in list[i].from /\ e \in list[j].from => i = j

-----------------------------------------------------------------------------
(* The graph. *)

LEMMA AppendedStep ==
    ASSUME GraphTyped, NEW s \in StepRecords, Appended(s)
    PROVE  /\ steps' \in Seq(StepRecords) /\ made' \in Nat
           /\ edges = Linear(steps) => edges' = Linear(steps')
           /\ \A e : Somewhere(steps', e) <=> Somewhere(steps, e) \/ e \in s.from
           /\ \A e : Single(steps, e) /\ (e \in s.from => ~Somewhere(steps, e)) => Single(steps', e)
<1> DEFINE n == Len(steps)  new == Append(steps, s)
<1>1. /\ steps \in Seq(StepRecords) /\ n \in Nat /\ new \in Seq(StepRecords)
      /\ Len(new) = n + 1 /\ DOMAIN steps = 1..n /\ DOMAIN new = 1..(n + 1)
      /\ \A i \in 1..n : new[i] = steps[i]
      /\ new[n + 1] = s
    BY DEF GraphTyped
<1>2. steps' = new /\ made' = s.id /\ edges' = edges \cup {<<steps[i].id, s.id>> : i \in {n} \ {0}}
    BY DEF Appended
<1>3. made' \in Nat BY <1>2 DEF StepRecords
<1> HIDE DEF n, new
<1>4. Linear(new) = Linear(steps) \cup {<<steps[i].id, s.id>> : i \in {n} \ {0}}
  <2>1. Linear(steps) = {<<steps[i].id, steps[i + 1].id>> : i \in 1..(n - 1)} BY DEF Linear, n
  <2>2. Linear(new) = {<<new[i].id, new[i + 1].id>> : i \in 1..n}
    <3>1. Len(new) - 1 = n BY <1>1
    <3> QED BY <3>1 DEF Linear
  <2>3. \A i \in 1..(n - 1) : new[i] = steps[i] /\ new[i + 1] = steps[i + 1] BY <1>1
  <2>4. CASE n = 0
    <3>1. 1..n = {} /\ 1..(n - 1) = {} BY <2>4
    <3> QED BY <2>1, <2>2, <2>4, <3>1
  <2>5. CASE n # 0
    <3>1. 1..n = 1..(n - 1) \cup {n} /\ n \in 1..n /\ {n} \ {0} = {n} BY <1>1, <2>5
    <3>2. new[n] = steps[n] /\ new[n + 1] = s BY <1>1, <3>1
    <3> QED BY <2>1, <2>2, <2>3, <3>1, <3>2
  <2> QED BY <2>4, <2>5
<1>5. ASSUME NEW e PROVE Somewhere(new, e) <=> Somewhere(steps, e) \/ e \in s.from
  <2>1. 1..(n + 1) = 1..n \cup {n + 1} BY <1>1
  <2> QED BY <1>1, <2>1 DEF Somewhere
<1>6. ASSUME NEW e, Single(steps, e), e \in s.from => ~Somewhere(steps, e) PROVE Single(new, e)
  <2>1. 1..(n + 1) = 1..n \cup {n + 1} BY <1>1
  <2> QED BY <1>1, <1>6, <2>1 DEF Somewhere, Single
<1> QED BY <1>1, <1>2, <1>3, <1>4, <1>5, <1>6

LEMMA RecordedStep ==
    ASSUME GraphTyped, NEW s \in StepRecords, Record(s)
    PROVE  /\ steps' \in Seq(StepRecords) /\ made' \in Nat
           /\ edges = Linear(steps) => edges' = Linear(steps')
           /\ \A e : Somewhere(steps', e) <=> Somewhere(steps, e) \/ e \in s.from
           /\ \A e : Single(steps, e) /\ (e \in s.from => ~Somewhere(steps, e)) => Single(steps', e)
<1>1. CASE ~Coalesces(s)
  <2>1. Appended(s) BY <1>1 DEF Record
  <2> QED BY <2>1, AppendedStep
<1>2. CASE Coalesces(s)
  <2> DEFINE n == Len(steps)  g == steps[n].from
  <2>1. /\ steps \in Seq(StepRecords) /\ n \in Nat /\ n \in 1..n /\ DOMAIN steps = 1..n
        /\ made \in Nat /\ UNCHANGED <<edges, made>>
        /\ steps' = [steps EXCEPT ![n].from = g \cup s.from]
      BY <1>2 DEF Record, Coalesces, GraphTyped
  <2>2. s.from \subseteq Events /\ g \subseteq Events
    <3>1. steps[n] \in StepRecords BY <2>1
    <3> QED BY <3>1 DEF StepRecords
  <2>3. steps' \in Seq(StepRecords)
    <3>1. steps[n] \in StepRecords BY <2>1
    <3>2. [steps[n] EXCEPT !.from = g \cup s.from] \in StepRecords BY <2>2, <3>1 DEF StepRecords
    <3>3. steps' = [steps EXCEPT ![n] = [steps[n] EXCEPT !.from = g \cup s.from]] BY <2>1
    <3> QED BY <2>1, <3>2, <3>3
  <2>4. /\ DOMAIN steps' = 1..n /\ Len(steps') = n
        /\ steps'[n].from = g \cup s.from /\ steps'[n].id = steps[n].id
        /\ \A i \in 1..n : i # n => steps'[i] = steps[i]
      BY <2>1, <2>3 DEF StepRecords
  <2> HIDE DEF n, g
  <2>5. \A i \in 1..n : steps'[i].id = steps[i].id BY <2>1, <2>4
  <2>6. Linear(steps') = Linear(steps)
    <3>1. Linear(steps) = {<<steps[i].id, steps[i + 1].id>> : i \in 1..(n - 1)} BY DEF Linear, n
    <3>2. Linear(steps') = {<<steps'[i].id, steps'[i + 1].id>> : i \in 1..(n - 1)} BY <2>4 DEF Linear
    <3>3. \A i \in 1..(n - 1) : i \in 1..n /\ i + 1 \in 1..n BY <2>1
    <3> QED BY <2>5, <3>1, <3>2, <3>3
  <2>7. \A i \in 1..n : \A e : e \in steps'[i].from <=> e \in steps[i].from \/ (i = n /\ e \in s.from)
      BY <2>4 DEF g
  <2>8. \A e : Somewhere(steps', e) <=> Somewhere(steps, e) \/ e \in s.from
      BY <2>1, <2>4, <2>7 DEF Somewhere
  <2>9. \A e : Single(steps, e) /\ (e \in s.from => ~Somewhere(steps, e)) => Single(steps', e)
      BY <2>1, <2>4, <2>7 DEF Somewhere, Single
  <2> QED BY <2>1, <2>3, <2>6, <2>8, <2>9
<1> QED BY <1>1, <1>2

LEMMA RemovedStep ==
    ASSUME GraphTyped, NEW i \in DOMAIN steps, steps' = RemoveAt(steps, i)
    PROVE  /\ steps' \in Seq(StepRecords)
           /\ \A e : Somewhere(steps, e) <=> Somewhere(steps', e) \/ e \in steps[i].from
           /\ \A e : Single(steps, e) => /\ Single(steps', e)
                                         /\ e \in steps[i].from => ~Somewhere(steps', e)
<1> DEFINE n == Len(steps)
           before == SubSeq(steps, 1, i - 1)
           behind == SubSeq(steps, i + 1, n)
           new == before \o behind
<1>1. steps \in Seq(StepRecords) /\ n \in Nat /\ DOMAIN steps = 1..n /\ i \in 1..n BY DEF GraphTyped
<1>2. /\ before \in Seq(StepRecords) /\ Len(before) = i - 1
      /\ \A j \in 1..(i - 1) : before[j] = steps[j]
    BY <1>1
<1>3. /\ behind \in Seq(StepRecords) /\ Len(behind) = n - i
      /\ \A j \in 1..(n - i) : behind[j] = steps[i + j]
    BY <1>1
<1>4. steps' = new BY DEF RemoveAt
<1> HIDE DEF n, before, behind
<1>5. /\ new \in Seq(StepRecords) /\ Len(new) = n - 1 /\ DOMAIN new = 1..(n - 1)
  <2>1. new \in Seq(StepRecords) /\ Len(new) = Len(before) + Len(behind) BY <1>2, <1>3
  <2>2. Len(new) = n - 1 BY <1>1, <1>2, <1>3, <2>1
  <2> QED BY <2>1, <2>2
<1>6. \A j \in 1..(n - 1) : new[j] = IF j < i THEN steps[j] ELSE steps[j + 1]
  <2> SUFFICES ASSUME NEW j \in 1..(n - 1)
               PROVE  new[j] = IF j < i THEN steps[j] ELSE steps[j + 1]
      OBVIOUS
  <2>1. CASE j < i
    <3>1. new[j] = before[j] BY <1>1, <1>2, <1>3, <2>1
    <3> QED BY <1>1, <1>2, <2>1, <3>1
  <2>2. CASE ~(j < i)
    <3>1. new[j] = behind[j - (i - 1)] BY <1>1, <1>2, <1>3, <2>2
    <3>2. j - (i - 1) \in 1..(n - i) /\ i + (j - (i - 1)) = j + 1 BY <1>1, <2>2
    <3> QED BY <1>3, <2>2, <3>1, <3>2
  <2> QED BY <2>1, <2>2
<1> HIDE DEF new
<1> DEFINE old(j) == IF j < i THEN j ELSE j + 1
<1>7. /\ \A j \in 1..(n - 1) : old(j) \in 1..n /\ old(j) # i /\ new[j] = steps[old(j)]
      /\ \A j, k \in 1..(n - 1) : old(j) = old(k) => j = k
      /\ \A j \in 1..n : j # i => \E k \in 1..(n - 1) : old(k) = j
  <2>1. \A j \in 1..(n - 1) : old(j) \in 1..n /\ old(j) # i /\ new[j] = steps[old(j)] BY <1>1, <1>6
  <2>2. \A j, k \in 1..(n - 1) : old(j) = old(k) => j = k BY <1>1
  <2>3. ASSUME NEW j \in 1..n, j # i PROVE \E k \in 1..(n - 1) : old(k) = j
    <3>1. CASE j < i
      <4>1. j \in 1..(n - 1) /\ old(j) = j BY <1>1, <3>1
      <4> QED BY <4>1
    <3>2. CASE ~(j < i)
      <4>1. j - 1 \in 1..(n - 1) /\ old(j - 1) = j BY <1>1, <2>3, <3>2
      <4> QED BY <4>1
    <3> QED BY <3>1, <3>2
  <2> QED BY <2>1, <2>2, <2>3
<1> HIDE DEF old
<1>8. \A e : Somewhere(steps, e) <=> Somewhere(new, e) \/ e \in steps[i].from
    BY <1>1, <1>5, <1>7 DEF Somewhere
<1>9. \A e : Single(steps, e) => Single(new, e) BY <1>1, <1>5, <1>7 DEF Single
<1>10. \A e : Single(steps, e) /\ e \in steps[i].from => ~Somewhere(new, e)
    BY <1>1, <1>5, <1>7 DEF Single, Somewhere
<1> QED BY <1>4, <1>5, <1>8, <1>9, <1>10

LEMMA MovedStep ==
    ASSUME GraphTyped, NEW i \in 1..(Len(steps) - 1),
           steps' = [steps EXCEPT ![i] = steps[i + 1], ![i + 1] = steps[i]]
    PROVE  /\ steps' \in Seq(StepRecords)
           /\ \A e : Somewhere(steps', e) <=> Somewhere(steps, e)
           /\ \A e : Single(steps, e) => Single(steps', e)
<1> DEFINE n == Len(steps)
           old(j) == IF j = i THEN i + 1 ELSE IF j = i + 1 THEN i ELSE j
<1>1. /\ steps \in Seq(StepRecords) /\ n \in Nat /\ DOMAIN steps = 1..n /\ i \in 1..n /\ i + 1 \in 1..n
      /\ i # i + 1
    BY DEF GraphTyped
<1>2. steps' \in Seq(StepRecords) /\ DOMAIN steps' = 1..n BY <1>1
<1>3. \A j \in 1..n : old(j) \in 1..n /\ steps'[j] = steps[old(j)] BY <1>1
<1>4. \A j, k \in 1..n : old(j) = old(k) => j = k BY <1>1
<1>5. \A j \in 1..n : \E k \in 1..n : old(k) = j
  <2> SUFFICES ASSUME NEW j \in 1..n PROVE \E k \in 1..n : old(k) = j OBVIOUS
  <2>1. old(old(j)) = j /\ old(j) \in 1..n BY <1>1
  <2> QED BY <2>1
<1> HIDE DEF n, old
<1>6. \A e : Somewhere(steps', e) <=> Somewhere(steps, e) BY <1>1, <1>2, <1>3, <1>5 DEF Somewhere
<1>7. \A e : Single(steps, e) => Single(steps', e) BY <1>1, <1>2, <1>3, <1>4 DEF Single
<1> QED BY <1>2, <1>6, <1>7

-----------------------------------------------------------------------------
(* Events in the order of their numbers, and what a task keeps of them. *)

EventsTyped == events \in Seq(EventRecords) /\ Len(events) <= MaxEvents

LEMMA Numbered ==
    ASSUME EventsTyped, NEW e \in DOMAIN events
    PROVE  e \in Nat /\ events[e].seq \in Nat
<1>1. e \in Nat /\ events[e] \in EventRecords BY DEF EventsTyped
<1> QED BY <1>1 DEF EventRecords

LEMMA Earliest ==
    ASSUME EventsTyped, NEW set \in SUBSET DOMAIN events, set # {}
    PROVE  \E e \in set : \A f \in set \ {e} : Before(e, f)
<1> DEFINE numbers == {events[e].seq : e \in set}
<1>1. \A e \in set : e \in Nat /\ events[e].seq \in Nat BY Numbered
<1>2. PICK m \in numbers : \A k \in numbers : m <= k
  <2>1. numbers \in SUBSET Nat /\ numbers # {} BY <1>1
  <2> HIDE DEF numbers
  <2> QED BY <2>1, LeastNat
<1> DEFINE first == {e \in set : events[e].seq = m}
<1>3. PICK e \in first : \A f \in first : e <= f
  <2>1. first \in SUBSET Nat /\ first # {} BY <1>1, <1>2
  <2> HIDE DEF first
  <2> QED BY <2>1, LeastNat
<1>4. ASSUME NEW f \in set \ {e} PROVE Before(e, f)
  <2>1. m <= events[f].seq /\ events[e].seq = m /\ m \in Nat /\ events[f].seq \in Nat
      BY <1>1, <1>2, <1>3
  <2>2. events[f].seq = m => e < f BY <1>1, <1>3
  <2> QED BY <2>1, <2>2 DEF Before
<1> QED BY <1>3, <1>4

\* The events of a set, by number.
Sorted(list, set) ==
    Range(list) = set /\ \A i, j \in DOMAIN list : i < j => Before(list[i], list[j])

LEMMA SortedExists ==
    ASSUME EventsTyped, NEW set \in SUBSET DOMAIN events, IsFiniteSet(set)
    PROVE  \E list \in [1..Cardinality(set) -> set] : Sorted(list, set)
<1> DEFINE Good(n) == \A S \in SUBSET DOMAIN events :
                        IsFiniteSet(S) /\ Cardinality(S) = n =>
                            \E list \in [1..n -> S] : Sorted(list, S)
           Bad == {n \in Nat : ~Good(n)}
<1>1. Good(0)
  <2> SUFFICES ASSUME NEW S \in SUBSET DOMAIN events, IsFiniteSet(S), Cardinality(S) = 0
               PROVE  \E list \in [1..0 -> S] : Sorted(list, S)
      OBVIOUS
  <2>1. S = {} BY FS_EmptySet
  <2> DEFINE list == [i \in 1..0 |-> 0]
  <2>2. list \in [1..0 -> S] /\ DOMAIN list = {} BY <2>1
  <2>3. Sorted(list, S) BY <2>1, <2>2 DEF Sorted, Range
  <2> QED BY <2>2, <2>3
<1>2. ASSUME NEW n \in Nat, n # 0, Good(n - 1) PROVE Good(n)
  <2> SUFFICES ASSUME NEW S \in SUBSET DOMAIN events, IsFiniteSet(S), Cardinality(S) = n
               PROVE  \E list \in [1..n -> S] : Sorted(list, S)
      OBVIOUS
  <2>1. S # {} BY <1>2, FS_EmptySet
  <2>2. PICK e \in S : \A f \in S \ {e} : Before(e, f) BY <2>1, Earliest
  <2> DEFINE rest == S \ {e}
  <2>3. IsFiniteSet(rest) /\ Cardinality(rest) = n - 1 BY FS_RemoveElement
  <2>4. PICK r \in [1..(n - 1) -> rest] : Sorted(r, rest) BY <1>2, <2>3
  <2> DEFINE list == [i \in 1..n |-> IF i = 1 THEN e ELSE r[i - 1]]
  <2>5. \A i \in 1..n : i # 1 => i - 1 \in 1..(n - 1) /\ list[i] = r[i - 1] /\ r[i - 1] \in rest
      OBVIOUS
  <2>6. list[1] = e /\ 1 \in 1..n BY <1>2
  <2>7. list \in [1..n -> S] BY <2>5
  <2>8. \A i \in 1..(n - 1) : i + 1 \in 1..n /\ list[i + 1] = r[i] OBVIOUS
  <2> HIDE DEF list
  <2>9. Range(list) = S
    <3>1. \A x \in S : \E i \in DOMAIN list : list[i] = x
      <4> SUFFICES ASSUME NEW x \in S, x # e PROVE \E i \in DOMAIN list : list[i] = x BY <2>6, <2>7
      <4>1. PICK i \in 1..(n - 1) : r[i] = x BY <2>4 DEF Sorted, Range
      <4> QED BY <2>7, <2>8, <4>1
    <3> QED BY <2>7, <3>1 DEF Range
  <2>10. ASSUME NEW i \in 1..n, NEW j \in 1..n, i < j PROVE Before(list[i], list[j])
    <3>1. j # 1 /\ j - 1 \in 1..(n - 1) /\ list[j] = r[j - 1] /\ r[j - 1] \in rest BY <2>5, <2>10
    <3>2. CASE i = 1 BY <2>2, <2>6, <3>1, <3>2
    <3>3. CASE i # 1
      <4>1. i - 1 \in 1..(n - 1) /\ list[i] = r[i - 1] /\ i - 1 < j - 1 BY <2>5, <2>10, <3>3
      <4> QED BY <2>4, <3>1, <4>1 DEF Sorted
    <3> QED BY <3>2, <3>3
  <2>11. Sorted(list, S) BY <2>7, <2>9, <2>10 DEF Sorted
  <2> QED BY <2>7, <2>11
<1> HIDE DEF Good
<1>3. Bad = {}
  <2> SUFFICES ASSUME Bad # {} PROVE FALSE OBVIOUS
  <2>0. Bad \in SUBSET Nat OBVIOUS
  <2>1. PICK n \in Bad : \A m \in Bad : n <= m BY <2>0, LeastNat
  <2>2. n # 0 BY <1>1, <2>1
  <2>3. n - 1 \in Nat /\ n - 1 \notin Bad BY <2>0, <2>1, <2>2
  <2>4. Good(n - 1) BY <2>3
  <2> QED BY <1>2, <2>0, <2>1, <2>2, <2>4
<1>4. Cardinality(set) \in Nat BY FS_CardinalityType
<1>5. Good(Cardinality(set)) BY <1>3, <1>4
<1> QED BY <1>5 DEF Good

LEMMA EventsFinite ==
    ASSUME EventsTyped, NEW set \in SUBSET DOMAIN events
    PROVE  IsFiniteSet(set) /\ set \in SUBSET Events
<1>1. DOMAIN events = 1..Len(events) /\ Len(events) \in Nat BY DEF EventsTyped
<1>2. IsFiniteSet(1..Len(events)) BY <1>1, FS_Interval
<1>3. MaxEvents \in Nat BY RecorderAssumption
<1>4. 1..Len(events) \subseteq Events BY <1>1, <1>3 DEF EventsTyped, Events
<1> QED BY <1>1, <1>2, <1>4, FS_Subset

LEMMA InOrderHolds ==
    ASSUME EventsTyped, NEW set \in SUBSET DOMAIN events
    PROVE  /\ InOrder(set) \in Seq(Events) /\ IsInjective(InOrder(set))
           /\ Range(InOrder(set)) = set
<1> DEFINE list == InOrder(set)  n == Cardinality(set)
<1>1. IsFiniteSet(set) /\ set \in SUBSET Events BY EventsFinite
<1>2. n \in Nat BY <1>1, FS_CardinalityType
<1>3. \E l \in [1..n -> set] : Sorted(l, set) BY <1>1, SortedExists
<1>4. list = CHOOSE l \in [1..n -> set] : Sorted(l, set) BY DEF InOrder, Sorted
<1> HIDE DEF n, list
<1>5. list \in [1..n -> set] /\ Sorted(list, set) BY <1>3, <1>4
<1>6. \A e \in set : e \in Nat /\ events[e].seq \in Nat BY Numbered
<1>7. ASSUME NEW i \in 1..n, NEW j \in 1..n, i < j PROVE list[i] # list[j]
  <2>1. Before(list[i], list[j]) BY <1>5, <1>7 DEF Sorted
  <2>2. \A e \in set : ~Before(e, e) BY <1>6 DEF Before
  <2> QED BY <1>5, <2>1, <2>2
<1>8. IsInjective(list)
  <2> SUFFICES ASSUME NEW i \in 1..n, NEW j \in 1..n, list[i] = list[j] PROVE i = j
      BY <1>5 DEF IsInjective
  <2>1. i < j \/ j < i \/ i = j BY <1>2
  <2> QED BY <1>7, <2>1
<1>9. list \in Seq(Events) BY <1>1, <1>2, <1>5
<1> QED BY <1>5, <1>8, <1>9 DEF Sorted, list

LEMMA TailHeld ==
    ASSUME NEW S, NEW list \in Seq(S), list # <<>>
    PROVE  /\ Tail(list) \in Seq(S) /\ Head(list) \in Range(list)
           /\ Range(list) = Range(Tail(list)) \cup {Head(list)}
           /\ IsInjective(list) => IsInjective(Tail(list)) /\ Head(list) \notin Range(Tail(list))
<1> DEFINE n == Len(list)  rest == Tail(list)
<1>1. /\ n \in Nat /\ n # 0 /\ DOMAIN list = 1..n /\ rest \in Seq(S) /\ DOMAIN rest = 1..(n - 1)
      /\ Head(list) = list[1] /\ \A i \in 1..(n - 1) : rest[i] = list[i + 1]
    OBVIOUS
<1> HIDE DEF n, rest
<1>2. ASSUME NEW i \in 1..n, i # 1 PROVE i - 1 \in 1..(n - 1) /\ list[i] = rest[i - 1]
  <2>1. i - 1 \in 1..(n - 1) /\ (i - 1) + 1 = i BY <1>1, <1>2
  <2> QED BY <1>1, <2>1
<1>3. \A i \in 1..(n - 1) : i + 1 \in 1..n BY <1>1
<1>4. Head(list) \in Range(list) BY <1>1 DEF Range
<1>5. Range(list) = Range(rest) \cup {Head(list)}
  <2>1. 1 \in 1..n BY <1>1
  <2>2. Range(list) \subseteq Range(rest) \cup {list[1]}
    <3> SUFFICES ASSUME NEW i \in 1..n, i # 1 PROVE list[i] \in Range(rest) BY <1>1 DEF Range
    <3>1. i - 1 \in DOMAIN rest /\ rest[i - 1] = list[i] BY <1>1, <1>2
    <3> QED BY <3>1 DEF Range
  <2>3. Range(rest) \cup {list[1]} \subseteq Range(list) BY <1>1, <1>3, <2>1 DEF Range
  <2> QED BY <1>1, <2>2, <2>3
<1>6. ASSUME IsInjective(list) PROVE IsInjective(rest)
  <2> SUFFICES ASSUME NEW i \in 1..(n - 1), NEW j \in 1..(n - 1), rest[i] = rest[j] PROVE i = j
      BY <1>1 DEF IsInjective
  <2>1. i + 1 = j + 1 BY <1>1, <1>3, <1>6 DEF IsInjective
  <2> QED BY <2>1
<1>7. ASSUME IsInjective(list) PROVE Head(list) \notin Range(rest)
  <2> SUFFICES ASSUME NEW i \in 1..(n - 1), rest[i] = list[1] PROVE FALSE BY <1>1 DEF Range
  <2>1. i + 1 = 1 BY <1>1, <1>3, <1>7 DEF IsInjective
  <2> QED BY <2>1
<1> QED BY <1>1, <1>4, <1>5, <1>6, <1>7 DEF rest

LEMMA ConsideredHeld ==
    ASSUME NEW list \in Seq(Events)
    PROVE  /\ Considered(list) \in Seq(Events) /\ Range(Considered(list)) \subseteq Range(list)
           /\ IsInjective(list) => IsInjective(Considered(list))
           /\ \A e \in Range(list) : events[e].kind # "file" => e \in Range(Considered(list))
<1> DEFINE kept == {i \in DOMAIN list : events[list[i]].kind # "file"}
           n == Len(list)
           k == CHOOSE i \in kept : \A j \in kept : i <= j
           rest == SubSeq(list, k, n)
<1>1. n \in Nat /\ DOMAIN list = 1..n OBVIOUS
<1>2. CASE ~skip BY <1>2 DEF Considered
<1>3. CASE skip /\ kept = {}
  <2>1. Considered(list) = <<>> BY <1>3 DEF Considered
  <2>2. \A i \in 1..n : events[list[i]].kind = "file" BY <1>1, <1>3
  <2> QED BY <1>1, <2>1, <2>2 DEF Range, IsInjective
<1>4. CASE skip /\ kept # {}
  <2>1. Considered(list) = rest BY <1>4 DEF Considered
  <2>2. kept \in SUBSET Nat BY <1>1
  <2>3. k \in kept /\ \A j \in kept : k <= j
    <3> HIDE DEF kept
    <3>1. \E i \in kept : \A j \in kept : i <= j BY <1>4, <2>2, LeastNat
    <3> QED BY <3>1
  <2>4. k \in 1..n BY <1>1, <2>3
  <2> HIDE DEF k
  <2>5. /\ rest \in Seq(Events) /\ Len(rest) = n - k + 1 /\ DOMAIN rest = 1..(n - k + 1)
        /\ \A i \in 1..(n - k + 1) : rest[i] = list[k + i - 1]
      BY <1>1, <2>4
  <2> HIDE DEF rest
  <2>6. \A i \in 1..(n - k + 1) : k + i - 1 \in 1..n BY <1>1, <2>4
  <2>7. Range(rest) \subseteq Range(list) BY <1>1, <2>5, <2>6 DEF Range
  <2>8. ASSUME IsInjective(list) PROVE IsInjective(rest)
    <3> SUFFICES ASSUME NEW i \in 1..(n - k + 1), NEW j \in 1..(n - k + 1), rest[i] = rest[j]
                 PROVE  i = j
        BY <2>5 DEF IsInjective
    <3>1. k + i - 1 = k + j - 1 BY <1>1, <2>5, <2>6, <2>8 DEF IsInjective
    <3> QED BY <2>4, <3>1
  <2>9. ASSUME NEW i \in 1..n, events[list[i]].kind # "file" PROVE list[i] \in Range(rest)
    <3>1. k <= i BY <1>1, <2>3, <2>9
    <3>2. i - k + 1 \in 1..(n - k + 1) /\ k + (i - k + 1) - 1 = i BY <1>1, <2>4, <3>1
    <3>3. rest[i - k + 1] = list[i] BY <2>5, <3>2
    <3> QED BY <2>5, <3>2, <3>3 DEF Range
  <2>10. \A e \in Range(list) : events[e].kind # "file" => e \in Range(rest)
      BY <1>1, <2>9 DEF Range
  <2> QED BY <2>1, <2>5, <2>7, <2>8, <2>10
<1> QED BY <1>2, <1>3, <1>4

-----------------------------------------------------------------------------
(* Types. *)

PageTyped ==
    /\ main \in Docs /\ frame \in Docs \cup {0} /\ loaded \in Docs
    /\ counter \in [Docs -> Nat] /\ pageArmed \in [Docs -> BOOLEAN]
    /\ queue \in Seq(Events) /\ calls \subseteq Events

TasksTyped ==
    /\ armed \in BOOLEAN /\ controls \in Nat /\ pending \in Nat /\ seen \subseteq Nat
    /\ at \in [Drainers -> {"sleep", "none", "asked", "answered", "work", "off", "dead", "ended", "closed"}]
    /\ answer \in [Drainers -> SUBSET Events]
    /\ hand \in [Tasks -> Seq(Events)] /\ taken \in [Tasks -> Nat]

ChoosersTyped ==
    /\ chooser \in [Events -> [at : {"none", "raised", "set", "panel"}, paths : Nat]]
    /\ panel \in Events \cup {0} /\ skip \in BOOLEAN

Typed == PageTyped /\ EventsTyped /\ TasksTyped /\ ChoosersTyped /\ GraphTyped

LEMMA Ids ==
    /\ MaxEvents \in Nat /\ MaxDocs \in Nat /\ MaxDocs > 0 /\ MaxControls \in Nat /\ ArmedStart \in BOOLEAN
    /\ Poll \in Drainers /\ Stopping \in Drainers /\ Poll # Stopping /\ Poll \notin Events /\ 0 \notin Events
    /\ Stopping \notin Events /\ Drainers \subseteq Tasks /\ Events \subseteq Tasks /\ 1 \in Docs
    /\ Events \subseteq Nat /\ Docs \subseteq Nat
BY RecorderAssumption DEF Drainers, Tasks, Events, Docs, Poll, Stopping

LEMMA TypedInit == Init => Typed
<1> SUFFICES ASSUME Init PROVE Typed OBVIOUS
<1>1. PageTyped
  <2>1. ASSUME NEW d \in Docs PROVE (IF d = 1 THEN ArmedStart ELSE TRUE) \in BOOLEAN BY Ids
  <2>2. pageArmed \in [Docs -> BOOLEAN] BY <2>1 DEF Init
  <2>3. counter \in [Docs -> Nat] BY DEF Init
  <2>4. queue \in Seq(Events) BY DEF Init
  <2>5. main = 1 /\ frame = 0 /\ loaded = 1 /\ calls = {} BY DEF Init
  <2> QED BY <2>2, <2>3, <2>4, <2>5, Ids DEF PageTyped
<1>2. EventsTyped BY Ids DEF Init, EventsTyped
<1>3. TasksTyped BY Ids DEF Init, TasksTyped
<1>4. ChoosersTyped BY Ids DEF Init, ChoosersTyped, NoChooser
<1>5. GraphTyped BY Ids DEF Init, GraphTyped
<1> QED BY <1>1, <1>2, <1>3, <1>4, <1>5 DEF Typed

LEMMA ControlTyped ==
    ASSUME Typed, Control, armed' \in BOOLEAN, counter' \in [Docs -> Nat]
    PROVE  PageTyped'
<1>1. pageArmed' \in [Docs -> BOOLEAN] BY DEF Control, Typed, PageTyped
<1> QED BY <1>1 DEF Control, Typed, PageTyped

LEMMA PageStaysTyped == Typed /\ [Next]_vars => PageTyped'
<1> SUFFICES ASSUME Typed, [Next]_vars PROVE PageTyped' OBVIOUS
<1>0. armed \in BOOLEAN /\ counter \in [Docs -> Nat] BY DEF Typed, TasksTyped, PageTyped
<1>1. CASE Navigate
  <2>1. loaded + 1 \in Docs BY <1>1, Ids DEF Navigate, Load, Typed, PageTyped, Docs
  <2> QED BY <1>1, <2>1 DEF Navigate, Load, Typed, PageTyped
<1>2. CASE OpenFrame
  <2>1. loaded + 1 \in Docs BY <1>2, Ids DEF OpenFrame, Load, Typed, PageTyped, Docs
  <2> QED BY <1>2, <2>1 DEF OpenFrame, Load, Typed, PageTyped
<1>3. ASSUME NEW d \in Docs, NEW kind \in Kinds, NEW el \in Elements, Act(d, kind, el)
      PROVE  PageTyped'
    BY <1>3 DEF Act, Typed, PageTyped
<1>4. ASSUME NEW e \in Events, Receive(e) PROVE PageTyped'
    BY <1>4 DEF Receive, page, Typed, PageTyped
<1>5. ASSUME NEW d \in Drainers, Drain(d) PROVE PageTyped'
    BY <1>5 DEF Drain, Typed, PageTyped
<1>6. ASSUME NEW d \in Drainers, Flushed(d) PROVE PageTyped'
    BY <1>6 DEF Flushed, page, Typed, PageTyped
<1>7. ASSUME UNCHANGED <<page, calls>> PROVE PageTyped' BY <1>7 DEF page, Typed, PageTyped
<1>8. CASE PollDone BY <1>7, <1>8 DEF PollDone
<1>9. CASE Building BY <1>7, <1>9 DEF Building, Built, PickBuilt, UploadBuilt, Uploaded
<1>10. CASE Choosing
    BY <1>7, <1>10 DEF Choosing, PanelAnswered, SkipEnds, ChooserHandled, PanelTimesOut, ChooserRecorded
<1>11. CASE ToggleArm BY <1>0, <1>11, ControlTyped DEF ToggleArm
<1>12. CASE SetPending \/ CancelPick \/ AddStep
    BY <1>0, <1>12, ControlTyped DEF SetPending, CancelPick, AddStep
<1>13. ASSUME NEW el \in Elements, Pick(el) PROVE PageTyped'
  <2>1. counter' = [counter EXCEPT ![main] = counter[main] + 1] BY <1>13 DEF Pick
  <2>2. counter' \in [Docs -> Nat]
    <3>1. main \in Docs /\ counter[main] + 1 \in Nat BY <1>0 DEF Typed, PageTyped
    <3> QED BY <1>0, <2>1, <3>1
  <2> QED BY <1>0, <1>13, <2>2, ControlTyped DEF Pick
<1>14. ASSUME NEW i \in DOMAIN steps, DeleteStep(i) \/ MoveStep(i) PROVE PageTyped'
    BY <1>0, <1>14, ControlTyped DEF DeleteStep, MoveStep
<1>15. CASE Stop \/ Write \/ \E d \in Drainers : Dies(d) BY <1>7, <1>15 DEF Stop, Write, Dies
<1>16. CASE Close BY <1>16 DEF Close, page, Typed, PageTyped
<1>17. CASE UNCHANGED vars BY <1>7, <1>17 DEF vars
<1> QED BY <1>1, <1>2, <1>3, <1>4, <1>5, <1>6, <1>8, <1>9, <1>10, <1>11, <1>12, <1>13, <1>14,
           <1>15, <1>16, <1>17 DEF Next, Page, Arriving, Controls, Ending

LEMMA EventsStayTyped == Typed /\ [Next]_vars => EventsTyped'
<1> SUFFICES ASSUME Typed, [Next]_vars PROVE EventsTyped' OBVIOUS
<1>0. EventsTyped BY DEF Typed
<1>1. ASSUME NEW d \in Docs, NEW kind \in Kinds \cup {"pick"}, NEW el \in Elements, NEW n \in Nat,
             Len(events) + 1 \in Events,
             events' = Append(events, [doc |-> d, seq |-> n, kind |-> kind, el |-> el])
      PROVE  EventsTyped'
  <2>1. [doc |-> d, seq |-> n, kind |-> kind, el |-> el] \in EventRecords BY DEF EventRecords
  <2> QED BY <1>0, <1>1, <2>1, Ids DEF EventsTyped, Events
<1>2. \A d \in Docs : counter'[d] \in Nat
    BY PageStaysTyped DEF PageTyped
<1>3. ASSUME NEW d \in Docs, NEW kind \in Kinds, NEW el \in Elements, Act(d, kind, el)
      PROVE  EventsTyped'
    BY <1>1, <1>2, <1>3 DEF Act
<1>4. ASSUME NEW el \in Elements, Pick(el) PROVE EventsTyped'
  <2>1. main \in Docs BY DEF Typed, PageTyped
  <2> QED BY <1>1, <1>2, <1>4, <2>1 DEF Pick
<1>5. ASSUME UNCHANGED events PROVE EventsTyped' BY <1>0, <1>5 DEF EventsTyped
<1>6. CASE Navigate \/ OpenFrame BY <1>5, <1>6 DEF Navigate, OpenFrame
<1>7. CASE Arriving BY <1>5, <1>7 DEF Arriving, PollDone, Receive, Drain, Flushed, page
<1>8. CASE Building BY <1>5, <1>8 DEF Building, Built, PickBuilt, UploadBuilt, Uploaded, page
<1>9. CASE Choosing
    BY <1>5, <1>9 DEF Choosing, PanelAnswered, SkipEnds, ChooserHandled, PanelTimesOut,
                      ChooserRecorded, page
<1>10. CASE ToggleArm \/ SetPending \/ CancelPick \/ AddStep \/ \E i \in DOMAIN steps : DeleteStep(i) \/ MoveStep(i)
    BY <1>5, <1>10 DEF ToggleArm, SetPending, CancelPick, AddStep, DeleteStep, MoveStep
<1>11. CASE Ending BY <1>5, <1>11 DEF Ending, Stop, Write, Close, Dies, page
<1>12. CASE UNCHANGED vars BY <1>5, <1>12 DEF vars, page
<1> QED BY <1>3, <1>4, <1>6, <1>7, <1>8, <1>9, <1>10, <1>11, <1>12 DEF Next, Page, Controls

-----------------------------------------------------------------------------
(* What is on its way. *)

Happened == DOMAIN events

\* On its way from the page.
Sent(e) == e \in calls \/ e \in Range(queue) \/ \E d \in Drainers : e \in answer[d]

\* What is on its way has happened, and was sent by the page.
SentHappened == \A e \in Events : Sent(e) => e \in Happened /\ events[e].kind # "pick"

\* File choosers are raised by file inputs.
RaisedByFiles ==
    /\ \A e \in Events : chooser[e].at # "none" => e \in Happened /\ events[e].kind = "file"
    /\ panel # 0 => chooser[panel].at = "panel"

\* A task holds what has happened; it resolves paths for the file it is at.
HeldHappened ==
    /\ \A t \in Tasks : Range(hand[t]) \subseteq Happened
    /\ \A t \in Tasks : taken[t] # 0 => hand[t] # <<>> /\ Head1(t).kind = "file"

\* A task that is yet to take what arrived holds nothing.
Ready ==
    /\ \A e \in Events : e \in calls \/ e \notin Happened => hand[e] = <<>>
    /\ \A d \in Drainers : at[d] \notin {"work", "off", "dead", "ended", "closed"} => hand[d] = <<>>

OnTheWay == SentHappened /\ RaisedByFiles /\ HeldHappened /\ Ready

LEMMA TakenHand ==
    ASSUME Typed, NEW t \in Tasks, hand[t] # <<>>, Next1(t)
    PROVE  /\ hand' \in [Tasks -> Seq(Events)]
           /\ Head(hand[t]) \in Events /\ Head(hand[t]) \in Range(hand[t])
<1>1. hand \in [Tasks -> Seq(Events)] /\ hand[t] \in Seq(Events) BY DEF Typed, TasksTyped
<1>2. Tail(hand[t]) \in Seq(Events) /\ Head(hand[t]) \in Events BY <1>1
<1>3. Considered(Tail(hand[t])) \in Seq(Events) BY <1>2, ConsideredHeld
<1>4. Head(hand[t]) \in Range(hand[t]) BY <1>1, TailHeld
<1> QED BY <1>1, <1>2, <1>3, <1>4 DEF Next1

LEMMA Ingested ==
    ASSUME Typed, NEW t \in Tasks, NEW set \in SUBSET Happened, IngestAll(t, set)
    PROVE  /\ seen' \subseteq Nat /\ seen' = seen \cup {events[e].seq : e \in set}
           /\ hand' \in [Tasks -> Seq(Events)] /\ \A u \in Tasks : u # t => hand'[u] = hand[u]
           /\ IsInjective(hand'[t]) /\ Range(hand'[t]) \subseteq set
           /\ \A e \in set : events[e].kind # "file" => e \in Range(hand'[t])
<1>1. hand \in [Tasks -> Seq(Events)] /\ seen \subseteq Nat /\ EventsTyped BY DEF Typed, TasksTyped
<1> DEFINE list == InOrder(set)
<1>2. list \in Seq(Events) /\ IsInjective(list) /\ Range(list) = set
    BY <1>1, InOrderHolds DEF Happened
<1>3. hand' = [hand EXCEPT ![t] = Considered(list)] /\ seen' = seen \cup {events[e].seq : e \in set}
    BY DEF IngestAll
<1> HIDE DEF list
<1>4. hand'[t] = Considered(list) /\ \A u \in Tasks : u # t => hand'[u] = hand[u] BY <1>1, <1>3
<1>5. /\ Considered(list) \in Seq(Events) /\ Range(Considered(list)) \subseteq set
      /\ IsInjective(Considered(list))
      /\ \A e \in set : events[e].kind # "file" => e \in Range(Considered(list))
    BY <1>2, ConsideredHeld
<1>6. \A e \in set : events[e].seq \in Nat BY <1>1, Numbered DEF Happened
<1> QED BY <1>1, <1>3, <1>4, <1>5, <1>6

LEMMA NewHappened ==
    ASSUME Typed, OnTheWay
    PROVE  /\ \A e \in calls : New({e}) \in SUBSET Happened
           /\ \A d \in Drainers : New(answer[d]) \in SUBSET Happened
<1>1. \A e \in calls : e \in Happened
  <2>1. \A e \in calls : e \in Events /\ Sent(e) BY DEF Typed, PageTyped, Sent
  <2> QED BY <2>1 DEF OnTheWay, SentHappened
<1>2. ASSUME NEW d \in Drainers, NEW e \in answer[d] PROVE e \in Happened
  <2>1. e \in Events /\ Sent(e) BY DEF Typed, TasksTyped, Sent
  <2> QED BY <2>1 DEF OnTheWay, SentHappened
<1> QED BY <1>1, <1>2 DEF New

LEMMA TasksStayTyped == Typed /\ OnTheWay /\ [Next]_vars => TasksTyped'
<1> SUFFICES ASSUME Typed, OnTheWay, [Next]_vars PROVE TasksTyped' OBVIOUS
<1>0. /\ TasksTyped /\ armed \in BOOLEAN /\ controls \in Nat /\ pending \in Nat /\ seen \subseteq Nat
      /\ hand \in [Tasks -> Seq(Events)] /\ taken \in [Tasks -> Nat]
    BY DEF Typed, TasksTyped
<1>1. ASSUME UNCHANGED <<armed, controls, pending, seen, at, answer, hand, taken>> PROVE TasksTyped'
    BY <1>0, <1>1 DEF TasksTyped
<1>2. CASE Page BY <1>1, <1>2 DEF Page, Navigate, OpenFrame, Act
<1>3. ASSUME NEW e \in Events, Receive(e) PROVE TasksTyped'
  <2>1. e \in Tasks /\ New({e}) \in SUBSET Happened /\ IngestAll(e, New({e}))
      BY <1>3, NewHappened, Ids DEF Receive
  <2>2. seen' \subseteq Nat /\ hand' \in [Tasks -> Seq(Events)] BY <2>1, Ingested
  <2> QED BY <1>0, <1>3, <2>2 DEF Receive, TasksTyped
<1>4. ASSUME NEW d \in Drainers, Drain(d) PROVE TasksTyped'
  <2>1. PICK got \in {Range(queue), {}} : answer' = [answer EXCEPT ![d] = got] BY <1>4 DEF Drain
  <2>2. queue \in Seq(Events) BY DEF Typed, PageTyped
  <2>3. got \subseteq Events BY <2>2 DEF Range
  <2>4. at' = [at EXCEPT ![d] = "answered"] /\ UNCHANGED <<armed, controls, pending, seen, hand, taken>>
      BY <1>4 DEF Drain
  <2> QED BY <1>0, <2>1, <2>3, <2>4 DEF TasksTyped
<1>5. ASSUME NEW d \in Drainers, Flushed(d) PROVE TasksTyped'
  <2>1. d \in Tasks /\ New(answer[d]) \in SUBSET Happened /\ IngestAll(d, New(answer[d]))
      BY <1>5, NewHappened, Ids DEF Flushed
  <2>2. seen' \subseteq Nat /\ hand' \in [Tasks -> Seq(Events)] BY <2>1, Ingested
  <2>3. /\ at' = [at EXCEPT ![d] = "work"] /\ answer' = [answer EXCEPT ![d] = {}]
        /\ UNCHANGED <<armed, controls, pending, taken>>
      BY <1>5 DEF Flushed
  <2> QED BY <1>0, <2>2, <2>3 DEF TasksTyped
<1>6. CASE PollDone BY <1>0, <1>6 DEF PollDone, TasksTyped
<1>7. ASSUME NEW t \in Tasks, Built(t) \/ PickBuilt(t) PROVE TasksTyped'
  <2>1. hand' \in [Tasks -> Seq(Events)] BY <1>7, TakenHand DEF Built, PickBuilt
  <2> QED BY <1>0, <1>7, <2>1 DEF Built, PickBuilt, TasksTyped
<1>8. ASSUME NEW t \in Tasks, UploadBuilt(t) PROVE TasksTyped'
  <2>1. hand' \in [Tasks -> Seq(Events)] BY <1>0, <1>8, TakenHand DEF UploadBuilt
  <2>2. taken' \in [Tasks -> Nat] /\ pending' \in Nat BY <1>0, <1>8 DEF UploadBuilt
  <2> QED BY <1>0, <1>8, <2>1, <2>2 DEF UploadBuilt, TasksTyped
<1>9. ASSUME NEW t \in Tasks, Uploaded(t) PROVE TasksTyped'
  <2>1. hand[t] # <<>> BY <1>9 DEF Uploaded, OnTheWay, HeldHappened
  <2>2. hand' \in [Tasks -> Seq(Events)] BY <1>9, <2>1, TakenHand DEF Uploaded
  <2>3. taken' \in [Tasks -> Nat] BY <1>0, <1>9 DEF Uploaded
  <2> QED BY <1>0, <1>9, <2>2, <2>3 DEF Uploaded, TasksTyped
<1>10. ASSUME NEW e \in Events, ChooserHandled(e) PROVE TasksTyped'
  <2>1. pending' \in Nat BY <1>0, <1>10 DEF ChooserHandled
  <2> QED BY <1>0, <1>10, <2>1 DEF ChooserHandled, TasksTyped
<1>11. CASE PanelAnswered \/ SkipEnds \/ \E e \in Events : PanelTimesOut(e) \/ ChooserRecorded(e)
    BY <1>1, <1>11 DEF PanelAnswered, SkipEnds, PanelTimesOut, ChooserRecorded
<1>12. ASSUME Control, armed' \in BOOLEAN, pending' \in Nat, hand' \in [Tasks -> Seq(Events)]
       PROVE  TasksTyped'
    BY <1>0, <1>12 DEF Control, TasksTyped
<1>13. CASE ToggleArm BY <1>0, <1>12, <1>13 DEF ToggleArm
<1>14. CASE SetPending
  <2>1. pending' \in Nat BY <1>0, <1>14 DEF SetPending
  <2> QED BY <1>0, <1>12, <1>14, <2>1 DEF SetPending
<1>15. CASE CancelPick \/ AddStep BY <1>0, <1>12, <1>15 DEF CancelPick, AddStep
<1>16. ASSUME NEW el \in Elements, Pick(el) PROVE TasksTyped'
  <2> DEFINE e == Len(events) + 1
  <2>1. e \in Events /\ e \in Tasks /\ hand' = [hand EXCEPT ![e] = <<e>>] BY <1>16, Ids DEF Pick
  <2> HIDE DEF e
  <2>2. hand' \in [Tasks -> Seq(Events)] BY <1>0, <2>1
  <2> QED BY <1>0, <1>12, <1>16, <2>2 DEF Pick
<1>17. ASSUME NEW i \in DOMAIN steps, DeleteStep(i) \/ MoveStep(i) PROVE TasksTyped'
    BY <1>0, <1>12, <1>17 DEF DeleteStep, MoveStep
<1>18. CASE Stop BY <1>0, <1>18 DEF Stop, TasksTyped
<1>19. CASE Write
  <2>0. <<>> \in Seq(Events) OBVIOUS
  <2>1. hand' \in [Tasks -> Seq(Events)] BY <1>0, <1>19, <2>0 DEF Write
  <2>3. taken' \in [Tasks -> Nat] BY <1>0, <1>19 DEF Write
  <2>2. at' \in [Drainers -> {"sleep", "none", "asked", "answered", "work", "off", "dead", "ended", "closed"}]
      BY <1>19 DEF Write
  <2> QED BY <1>0, <1>19, <2>1, <2>2, <2>3 DEF Write, TasksTyped
<1>20. CASE Close
  <2>0. <<>> \in Seq(Events) OBVIOUS
  <2>1. hand' \in [Tasks -> Seq(Events)] BY <1>20, <2>0 DEF Close
  <2> QED BY <1>0, <1>20, <2>1 DEF Close, TasksTyped
<1>21. CASE UNCHANGED vars BY <1>1, <1>21 DEF vars
<1>22. ASSUME NEW d \in Drainers, Dies(d) PROVE TasksTyped'
  <2>1. d \in Tasks /\ <<>> \in Seq(Events) BY Ids
  <2>2. hand' \in [Tasks -> Seq(Events)] /\ taken' \in [Tasks -> Nat]
      BY <1>0, <1>22, <2>1 DEF Dies
  <2>3. at' \in [Drainers -> {"sleep", "none", "asked", "answered", "work", "off", "dead", "ended", "closed"}]
      BY <1>0, <1>22 DEF Dies, TasksTyped
  <2> QED BY <1>0, <1>22, <2>2, <2>3 DEF Dies, TasksTyped
<1> QED BY <1>2, <1>3, <1>4, <1>5, <1>6, <1>7, <1>8, <1>9, <1>10, <1>11, <1>13, <1>14, <1>15, <1>16,
           <1>17, <1>18, <1>19, <1>20, <1>21, <1>22 DEF Next, Arriving, Building, Choosing, Controls, Ending

LEMMA ChoosersStayTyped == Typed /\ [Next]_vars => ChoosersTyped'
<1> SUFFICES ASSUME Typed, [Next]_vars PROVE ChoosersTyped' OBVIOUS
<1>0. ChoosersTyped /\ pending \in Nat BY DEF Typed, TasksTyped
<1>1. ASSUME UNCHANGED choosers PROVE ChoosersTyped' BY <1>0, <1>1 DEF choosers, ChoosersTyped
<1>2. CASE Navigate \/ OpenFrame BY <1>1, <1>2 DEF Navigate, OpenFrame
<1>3. ASSUME NEW d \in Docs, NEW kind \in Kinds, NEW el \in Elements, Act(d, kind, el)
      PROVE  ChoosersTyped'
    BY <1>0, <1>3 DEF Act, ChoosersTyped
<1>4. CASE Arriving BY <1>1, <1>4 DEF Arriving, PollDone, Receive, Drain, Flushed
<1>5. CASE Building BY <1>1, <1>5 DEF Building, Built, PickBuilt, UploadBuilt, Uploaded
<1>6. ASSUME NEW e \in Events, NEW place \in {"none", "set", "panel"}, Chooser(e, place)
      PROVE  chooser' \in [Events -> [at : {"none", "raised", "set", "panel"}, paths : Nat]]
    BY <1>0, <1>6 DEF Chooser, ChoosersTyped
<1>7. ASSUME NEW e \in Events, ChooserHandled(e) PROVE ChoosersTyped'
  <2>1. [at |-> "set", paths |-> pending] \in [at : {"none", "raised", "set", "panel"}, paths : Nat]
      BY <1>0
  <2>2. ASSUME chooser' = [chooser EXCEPT ![e] = [at |-> "set", paths |-> pending]]
        PROVE  chooser' \in [Events -> [at : {"none", "raised", "set", "panel"}, paths : Nat]]
      BY <1>0, <2>1, <2>2 DEF ChoosersTyped
  <2>3. chooser' \in [Events -> [at : {"none", "raised", "set", "panel"}, paths : Nat]]
      BY <1>6, <1>7, <2>2 DEF ChooserHandled
  <2>4. panel' \in Events \cup {0} /\ skip' \in BOOLEAN BY <1>0, <1>7 DEF ChooserHandled, ChoosersTyped
  <2> QED BY <2>3, <2>4 DEF ChoosersTyped
<1>8. CASE PanelAnswered
  <2>1. panel \in Events BY <1>0, <1>8 DEF PanelAnswered, ChoosersTyped
  <2> QED BY <1>0, <1>6, <1>8, <2>1 DEF PanelAnswered, ChoosersTyped
<1>9. ASSUME NEW e \in Events, PanelTimesOut(e) PROVE ChoosersTyped'
    BY <1>0, <1>6, <1>9 DEF PanelTimesOut, ChoosersTyped
<1>10. ASSUME NEW e \in Events, ChooserRecorded(e) PROVE ChoosersTyped'
    BY <1>0, <1>10 DEF ChooserRecorded, NoChooser, ChoosersTyped
<1>11. CASE SkipEnds BY <1>0, <1>11 DEF SkipEnds, ChoosersTyped
<1>12. CASE Controls
    BY <1>1, <1>12 DEF Controls, ToggleArm, SetPending, CancelPick, AddStep, Pick, DeleteStep,
                       MoveStep, Control
<1>13. CASE Stop BY <1>0, <1>13 DEF Stop, NoChooser, ChoosersTyped
<1>14. CASE Write \/ \E d \in Drainers : Dies(d) BY <1>1, <1>14 DEF Write, Dies
<1>15. CASE Close BY <1>0, <1>15 DEF Close, NoChooser, ChoosersTyped
<1>16. CASE UNCHANGED vars BY <1>1, <1>16 DEF vars
<1> QED BY <1>2, <1>3, <1>4, <1>5, <1>7, <1>8, <1>9, <1>10, <1>11, <1>12, <1>13, <1>14, <1>15, <1>16
        DEF Next, Page, Choosing, Ending

-----------------------------------------------------------------------------
(* The steps that the tasks append. *)

LEMMA HeadEvent ==
    ASSUME Typed, OnTheWay, NEW t \in Tasks, hand[t] # <<>>
    PROVE  /\ Head(hand[t]) \in Events /\ Head(hand[t]) \in Happened
           /\ Head(hand[t]) \in Range(hand[t])
           /\ Head1(t).kind \in Kinds \cup {"pick"} /\ Head1(t).el \in Elements
<1>1. hand[t] \in Seq(Events) BY DEF Typed, TasksTyped
<1>2. Head(hand[t]) \in Events /\ Head(hand[t]) \in Range(hand[t]) BY <1>1, TailHeld
<1>3. Head(hand[t]) \in Happened BY <1>2 DEF OnTheWay, HeldHappened
<1>4. events[Head(hand[t])] \in EventRecords BY <1>3 DEF Typed, EventsTyped, Happened
<1> QED BY <1>2, <1>3, <1>4 DEF EventRecords, Head1

\* The step that is appended or merged is a step of the recorder.
LEMMA NewStepIs ==
    ASSUME Typed, NEW kind \in {"click", "fill", "pick", "upload", "added"},
           NEW el \in Elements \cup {"none"}, NEW from \in SUBSET Events, NEW paths \in Nat
    PROVE  NewStep(kind, el, from, paths) \in StepRecords /\ NewStep(kind, el, from, paths).from = from
<1>1. made + 1 \in Nat BY DEF Typed, GraphTyped
<1> QED BY <1>1 DEF NewStep, StepRecords

\* The steps a list was made of: those it had, and one that stands for event e.
Adds(from) ==
    /\ \A e : Somewhere(steps', e) <=> Somewhere(steps, e) \/ e \in from
    /\ \A e : Single(steps, e) /\ (e \in from => ~Somewhere(steps, e)) => Single(steps', e)

Grows(from) ==
    /\ steps' \in Seq(StepRecords) /\ made' \in Nat /\ Adds(from)
    /\ edges = Linear(steps) => edges' = Linear(steps')

LEMMA BuiltGrows ==
    ASSUME Typed, OnTheWay, NEW t \in Tasks, Built(t)
    PROVE  Grows({Head(hand[t])})
<1> DEFINE e == Head(hand[t])
<1>1. hand[t] # <<>> /\ Head1(t).kind \in {"click", "fill"} BY DEF Built
<1>2. e \in Events /\ Head1(t).el \in Elements BY <1>1, HeadEvent
<1>3. PICK el \in {Head1(t).el, "none"} : Record(NewStep(Head1(t).kind, el, {e}, 0)) BY DEF Built
<1> DEFINE s == NewStep(Head1(t).kind, el, {e}, 0)
<1>4. s \in StepRecords /\ s.from = {e}
  <2>1. /\ Head1(t).kind \in {"click", "fill", "pick", "upload", "added"}
        /\ el \in Elements \cup {"none"} /\ {e} \in SUBSET Events /\ 0 \in Nat
      BY <1>1, <1>2, <1>3
  <2> QED BY <2>1, NewStepIs
<1> HIDE DEF s
<1>5. GraphTyped BY DEF Typed
<1> QED BY <1>3, <1>4, <1>5, RecordedStep DEF Grows, Adds, s

LEMMA AppendedGrows ==
    ASSUME Typed, NEW kind \in {"click", "fill", "pick", "upload", "added"},
           NEW el \in Elements \cup {"none"}, NEW from \in SUBSET Events, NEW paths \in Nat,
           Appended(NewStep(kind, el, from, paths))
    PROVE  Grows(from)
<1> DEFINE s == NewStep(kind, el, from, paths)
<1>1. s \in StepRecords /\ s.from = from BY NewStepIs
<1>2. GraphTyped /\ Appended(s) BY DEF Typed
<1> HIDE DEF s
<1> QED BY <1>1, <1>2, AppendedStep DEF Grows, Adds

LEMMA UploadGrows ==
    ASSUME Typed, OnTheWay, NEW t \in Tasks, hand[t] # <<>>, NEW paths \in Nat, Upload(t, paths)
    PROVE  Grows({Head(hand[t])})
<1>1. Head(hand[t]) \in Events /\ Head1(t).el \in Elements BY HeadEvent
<1>2. /\ "upload" \in {"click", "fill", "pick", "upload", "added"}
      /\ Head1(t).el \in Elements \cup {"none"} /\ {Head(hand[t])} \in SUBSET Events
    BY <1>1
<1>3. Appended(NewStep("upload", Head1(t).el, {Head(hand[t])}, paths)) BY DEF Upload
<1> QED BY <1>2, <1>3, AppendedGrows

LEMMA PickGrows ==
    ASSUME Typed, OnTheWay, NEW t \in Tasks, PickBuilt(t)
    PROVE  Grows({Head(hand[t])}) \/ UNCHANGED <<steps, edges, made>>
<1>1. Head(hand[t]) \in Events /\ Head1(t).el \in Elements BY HeadEvent DEF PickBuilt
<1>2. /\ "pick" \in {"click", "fill", "pick", "upload", "added"} /\ 0 \in Nat
      /\ Head1(t).el \in Elements \cup {"none"} /\ {Head(hand[t])} \in SUBSET Events
    BY <1>1
<1>3. CASE Appended(NewStep("pick", Head1(t).el, {Head(hand[t])}, 0)) BY <1>2, <1>3, AppendedGrows
<1> QED BY <1>3 DEF PickBuilt

LEMMA ChooserGrows ==
    ASSUME Typed, OnTheWay, NEW e \in Events, ChooserRecorded(e)
    PROVE  /\ e \in Happened /\ events[e].kind = "file"
           /\ Grows({e}) \/ UNCHANGED <<steps, edges, made>>
<1>1. chooser[e].at # "none" BY DEF ChooserRecorded
<1>2. e \in Happened /\ events[e].kind = "file" BY <1>1 DEF OnTheWay, RaisedByFiles
<1>3. events[e].el \in Elements
  <2>1. events[e] \in EventRecords BY <1>2 DEF Typed, EventsTyped, Happened
  <2> QED BY <2>1 DEF EventRecords
<1>4. chooser[e].paths \in Nat BY DEF Typed, ChoosersTyped
<1>5. /\ "upload" \in {"click", "fill", "pick", "upload", "added"}
      /\ events[e].el \in Elements \cup {"none"} /\ {e} \in SUBSET Events
    BY <1>3
<1>6. CASE Appended(NewStep("upload", events[e].el, {e}, chooser[e].paths))
    BY <1>2, <1>4, <1>5, <1>6, AppendedGrows
<1> QED BY <1>2, <1>6 DEF ChooserRecorded

LEMMA AddedGrows == ASSUME Typed, AddStep PROVE Grows({})
<1>1. /\ "added" \in {"click", "fill", "pick", "upload", "added"} /\ 0 \in Nat
      /\ "none" \in Elements \cup {"none"} /\ {} \in SUBSET Events
    OBVIOUS
<1>2. Appended(NewStep("added", "none", {}, 0)) BY DEF AddStep
<1> QED BY <1>1, <1>2, AppendedGrows

\* A deletion or a move makes the edges anew.
LEMMA EditedGraph ==
    ASSUME Typed, NEW i \in DOMAIN steps, DeleteStep(i) \/ MoveStep(i)
    PROVE  steps' \in Seq(StepRecords) /\ made' = made /\ edges' = Linear(steps')
<1>0. GraphTyped BY DEF Typed
<1>1. CASE DeleteStep(i)
  <2>1. steps' = RemoveAt(steps, i) /\ made' = made /\ edges' = Linear(steps') BY <1>1 DEF DeleteStep
  <2> QED BY <1>0, <2>1, RemovedStep
<1>2. CASE MoveStep(i)
  <2>1. /\ i \in 1..(Len(steps) - 1)
        /\ steps' = [steps EXCEPT ![i] = steps[i + 1], ![i + 1] = steps[i]]
        /\ made' = made /\ edges' = Linear(steps')
      BY <1>2 DEF MoveStep
  <2> QED BY <1>0, <2>1, MovedStep
<1> QED BY <1>1, <1>2

LEMMA GraphStays == Typed /\ OnTheWay /\ [Next]_vars => GraphTyped' /\ (EdgesFollowSteps => EdgesFollowSteps')
<1> SUFFICES ASSUME Typed, OnTheWay, [Next]_vars
             PROVE  GraphTyped' /\ (EdgesFollowSteps => EdgesFollowSteps')
    OBVIOUS
<1> DEFINE Goal == GraphTyped' /\ (EdgesFollowSteps => EdgesFollowSteps')
<1>0. GraphTyped BY DEF Typed
<1>1. ASSUME UNCHANGED graph PROVE Goal BY <1>0, <1>1 DEF graph, GraphTyped, EdgesFollowSteps, Linear
<1>2. ASSUME NEW from, Grows(from), UNCHANGED <<gone, artifact>> PROVE Goal
    BY <1>0, <1>2 DEF Grows, GraphTyped, EdgesFollowSteps
<1>3. ASSUME UNCHANGED <<steps, edges, made, gone, artifact>> PROVE Goal BY <1>1, <1>3 DEF graph
<1>4. CASE Page BY <1>1, <1>4 DEF Page, Navigate, OpenFrame, Act
<1>5. CASE Arriving BY <1>1, <1>5 DEF Arriving, PollDone, Receive, Drain, Flushed
<1>6. ASSUME NEW t \in Tasks, Built(t) PROVE Goal
  <2>1. UNCHANGED <<gone, artifact>> BY <1>6 DEF Built
  <2> QED BY <1>2, <1>6, <2>1, BuiltGrows
<1>7. ASSUME NEW t \in Tasks, PickBuilt(t) PROVE Goal
  <2>1. UNCHANGED <<gone, artifact>> BY <1>7 DEF PickBuilt
  <2> QED BY <1>2, <1>3, <1>7, <2>1, PickGrows
<1>8. ASSUME NEW t \in Tasks, UploadBuilt(t) PROVE Goal
  <2>1. UNCHANGED <<gone, artifact>> /\ hand[t] # <<>> BY <1>8 DEF UploadBuilt
  <2>2. 0 \in Nat OBVIOUS
  <2>3. CASE Upload(t, 0) BY <1>2, <2>1, <2>2, <2>3, UploadGrows
  <2> QED BY <1>1, <1>8, <2>3 DEF UploadBuilt
<1>9. ASSUME NEW t \in Tasks, Uploaded(t) PROVE Goal
  <2>1. UNCHANGED <<gone, artifact>> /\ Upload(t, taken[t]) BY <1>9 DEF Uploaded
  <2>2. hand[t] # <<>> /\ taken[t] \in Nat BY <1>9 DEF Uploaded, OnTheWay, HeldHappened, Typed, TasksTyped
  <2> QED BY <1>2, <2>1, <2>2, UploadGrows
<1>10. ASSUME NEW e \in Events, ChooserRecorded(e) PROVE Goal
  <2>1. UNCHANGED <<gone, artifact>> BY <1>10 DEF ChooserRecorded
  <2> QED BY <1>2, <1>3, <1>10, <2>1, ChooserGrows
<1>11. CASE PanelAnswered \/ SkipEnds \/ \E e \in Events : ChooserHandled(e) \/ PanelTimesOut(e)
    BY <1>1, <1>11 DEF PanelAnswered, SkipEnds, ChooserHandled, PanelTimesOut
<1>12. CASE AddStep
  <2>1. UNCHANGED <<gone, artifact>> BY <1>12 DEF AddStep, Control
  <2> QED BY <1>2, <1>12, <2>1, AddedGrows
<1>13. CASE ToggleArm \/ SetPending \/ CancelPick \/ \E el \in Elements : Pick(el)
    BY <1>3, <1>13 DEF ToggleArm, SetPending, CancelPick, Pick, Control
<1>14. ASSUME NEW i \in DOMAIN steps, DeleteStep(i) \/ MoveStep(i) PROVE Goal
  <2>1. steps' \in Seq(StepRecords) /\ made' = made /\ edges' = Linear(steps') BY <1>14, EditedGraph
  <2>2. artifact' = artifact BY <1>14 DEF DeleteStep, MoveStep, Control
  <2>3. gone' \subseteq Events
    <3>1. steps[i] \in StepRecords BY <1>0 DEF GraphTyped
    <3>2. steps[i].from \subseteq Events BY <3>1 DEF StepRecords
    <3> QED BY <1>0, <1>14, <3>2 DEF DeleteStep, MoveStep, GraphTyped
  <2> QED BY <1>0, <2>1, <2>2, <2>3 DEF GraphTyped, EdgesFollowSteps
<1>15. CASE Stop \/ Close \/ \E d \in Drainers : Dies(d) BY <1>1, <1>15 DEF Stop, Close, Dies, graph
<1>16. CASE Write
  <2>1. /\ UNCHANGED <<steps, edges, made, gone>>
        /\ artifact' = artifact \/ artifact' = [steps |-> steps, edges |-> edges]
      BY <1>16 DEF Write
  <2>2. artifact' # artifact => artifact'.steps = steps /\ artifact'.edges = edges BY <2>1
  <2>3. \A list : list = steps => Linear(list) = Linear(steps) OBVIOUS
  <2> QED BY <1>0, <2>1, <2>2, <2>3 DEF GraphTyped, EdgesFollowSteps
<1>17. CASE UNCHANGED vars BY <1>1, <1>17 DEF vars
<1> QED BY <1>4, <1>5, <1>6, <1>7, <1>8, <1>9, <1>10, <1>11, <1>12, <1>13, <1>14, <1>15, <1>16, <1>17
        DEF Next, Building, Choosing, Controls, Ending

-----------------------------------------------------------------------------
(* Events that happen. *)

LEMMA NextEvent ==
    ASSUME Typed, NEW r \in EventRecords, events' = Append(events, r), Len(events) + 1 \in Events
    PROVE  /\ Happened' = Happened \cup {Len(events) + 1} /\ Len(events) + 1 \notin Happened
           /\ events'[Len(events) + 1] = r /\ \A e \in Happened : events'[e] = events[e]
<1>1. events \in Seq(EventRecords) BY DEF Typed, EventsTyped
<1> QED BY <1>1 DEF Happened

LEMMA ActRecord ==
    ASSUME Typed, NEW d \in Docs, NEW kind \in Kinds, NEW el \in Elements, Act(d, kind, el)
    PROVE  \E r \in EventRecords : /\ events' = Append(events, r) /\ r.kind = kind
                                    /\ r.doc = d /\ r.seq = counter'[d]
<1>1. counter'[d] \in Nat
  <2>1. counter' = [counter EXCEPT ![d] = IF pageArmed[d] THEN @ + 1 ELSE @] BY DEF Act
  <2>2. counter \in [Docs -> Nat] BY DEF Typed, PageTyped
  <2> QED BY <2>1, <2>2
<1> DEFINE n == counter'[d]
           r == [doc |-> d, seq |-> n, kind |-> kind, el |-> el]
<1>2. events' = Append(events, r) BY DEF Act
<1> HIDE DEF n
<1>3. r \in EventRecords /\ r.kind = kind /\ r.doc = d /\ r.seq = n BY <1>1 DEF EventRecords, n
<1> HIDE DEF r
<1> QED BY <1>2, <1>3 DEF n

LEMMA PickRecord ==
    ASSUME Typed, NEW el \in Elements, Pick(el)
    PROVE  \E r \in EventRecords : events' = Append(events, r) /\ r.kind = "pick"
<1>0. main \in Docs /\ counter \in [Docs -> Nat] BY DEF Typed, PageTyped
<1>1. counter' = [counter EXCEPT ![main] = counter[main] + 1] BY DEF Pick
<1> DEFINE n == counter'[main]
           r == [doc |-> main, seq |-> n, kind |-> "pick", el |-> el]
<1>2. n \in Nat BY <1>0, <1>1
<1>3. events' = Append(events, r) BY DEF Pick
<1> HIDE DEF n
<1>4. r \in EventRecords /\ r.kind = "pick" BY <1>0, <1>2 DEF EventRecords
<1> QED BY <1>3, <1>4

LEMMA SentStays == Typed /\ OnTheWay /\ [Next]_vars => SentHappened'
<1> SUFFICES ASSUME Typed, OnTheWay, [Next]_vars PROVE SentHappened' OBVIOUS
<1>1. ASSUME UNCHANGED events, \A e \in Events : Sent(e)' => Sent(e) PROVE SentHappened'
    BY <1>1 DEF OnTheWay, SentHappened, Happened
<1>2. ASSUME UNCHANGED <<events, queue, calls, answer>> PROVE SentHappened'
    BY <1>1, <1>2 DEF Sent
<1>3. CASE Navigate \/ OpenFrame
  <2>1. queue' = <<>> \/ queue' = queue BY <1>3 DEF Navigate, OpenFrame
  <2>2. Range(queue') \subseteq Range(queue) BY <2>1 DEF Range
  <2> QED BY <1>1, <1>3, <2>2 DEF Navigate, OpenFrame, Sent
<1>4. ASSUME NEW d \in Docs, NEW kind \in Kinds, NEW el \in Elements, Act(d, kind, el)
      PROVE  SentHappened'
  <2> DEFINE n == Len(events) + 1
  <2>1. PICK r \in EventRecords : events' = Append(events, r) /\ r.kind = kind BY <1>4, ActRecord
  <2>2. n \in Events /\ answer' = answer /\ calls' \subseteq calls \cup {n} BY <1>4 DEF Act
  <2>3. /\ Happened' = Happened \cup {n} /\ n \notin Happened
        /\ events'[n] = r /\ \A e \in Happened : events'[e] = events[e]
      BY <2>1, <2>2, NextEvent
  <2>4. queue' = queue \/ queue' = Append(queue, n) BY <1>4 DEF Act
  <2> HIDE DEF n
  <2>5. Range(queue') \subseteq Range(queue) \cup {n}
    <3>1. queue \in Seq(Events) BY DEF Typed, PageTyped
    <3> QED BY <2>4, <3>1 DEF Range
  <2>6. \A e \in Events : Sent(e)' => Sent(e) \/ e = n BY <2>2, <2>5 DEF Sent
  <2>7. kind # "pick" BY RecorderAssumption
  <2> QED BY <2>1, <2>3, <2>6, <2>7 DEF OnTheWay, SentHappened
<1>5. ASSUME NEW e \in Events, Receive(e) PROVE SentHappened'
    BY <1>1, <1>5 DEF Receive, page, Sent
<1>6. ASSUME NEW d \in Drainers, Drain(d) PROVE SentHappened'
  <2>1. UNCHANGED <<events, calls>> /\ queue' = <<>> BY <1>6 DEF Drain
  <2>2. PICK got \in {Range(queue), {}} : answer' = [answer EXCEPT ![d] = got] BY <1>6 DEF Drain
  <2>3. answer \in [Drainers -> SUBSET Events] BY DEF Typed, TasksTyped
  <2>4. \A c \in Drainers : answer'[c] \subseteq answer[c] \cup Range(queue) BY <2>2, <2>3
  <2>5. Range(queue') = {} BY <2>1 DEF Range
  <2> QED BY <1>1, <2>1, <2>4, <2>5 DEF Sent
<1>7. ASSUME NEW d \in Drainers, Flushed(d) PROVE SentHappened'
  <2>1. UNCHANGED <<events, calls, queue>> /\ answer' = [answer EXCEPT ![d] = {}]
      BY <1>7 DEF Flushed, page
  <2>2. answer \in [Drainers -> SUBSET Events] BY DEF Typed, TasksTyped
  <2>3. \A c \in Drainers : answer'[c] \subseteq answer[c] BY <2>1, <2>2
  <2> QED BY <1>1, <2>1, <2>3 DEF Sent
<1>8. CASE PollDone BY <1>2, <1>8 DEF PollDone, page
<1>9. CASE Building BY <1>2, <1>9 DEF Building, Built, PickBuilt, UploadBuilt, Uploaded, page
<1>10. CASE Choosing
    BY <1>2, <1>10 DEF Choosing, PanelAnswered, SkipEnds, ChooserHandled, PanelTimesOut,
                       ChooserRecorded, page
<1>11. CASE ToggleArm \/ SetPending \/ CancelPick \/ AddStep
            \/ \E i \in DOMAIN steps : DeleteStep(i) \/ MoveStep(i)
    BY <1>2, <1>11 DEF ToggleArm, SetPending, CancelPick, AddStep, DeleteStep, MoveStep, Control
<1>12. ASSUME NEW el \in Elements, Pick(el) PROVE SentHappened'
  <2> DEFINE n == Len(events) + 1
  <2>1. PICK r \in EventRecords : events' = Append(events, r) BY <1>12, PickRecord
  <2>2. n \in Events /\ UNCHANGED <<calls, queue, answer>> BY <1>12 DEF Pick, Control
  <2>3. /\ Happened' = Happened \cup {n} /\ n \notin Happened
        /\ \A e \in Happened : events'[e] = events[e]
      BY <2>1, <2>2, NextEvent
  <2> HIDE DEF n
  <2>4. \A e \in Events : Sent(e)' => Sent(e) BY <2>2 DEF Sent
  <2> QED BY <2>3, <2>4 DEF OnTheWay, SentHappened
<1>13. CASE Stop BY <1>2, <1>13 DEF Stop, page
<1>14. CASE Write
  <2>1. UNCHANGED <<events, calls, queue>> /\ answer' = [answer EXCEPT ![Poll] = {}]
      BY <1>14 DEF Write, page
  <2>2. answer \in [Drainers -> SUBSET Events] BY DEF Typed, TasksTyped
  <2>3. \A c \in Drainers : answer'[c] \subseteq answer[c] BY <2>1, <2>2
  <2> QED BY <1>1, <2>1, <2>3 DEF Sent
<1>15. CASE Close BY <1>1, <1>15 DEF Close, page, Sent
<1>17. CASE \E d \in Drainers : Dies(d) BY <1>2, <1>17 DEF Dies, page
<1>16. CASE UNCHANGED vars BY <1>2, <1>16 DEF vars, page
<1> QED BY <1>3, <1>4, <1>5, <1>6, <1>7, <1>8, <1>9, <1>10, <1>11, <1>12, <1>13, <1>14, <1>15, <1>16, <1>17
        DEF Next, Page, Arriving, Controls, Ending

LEMMA RaisedStays == Typed /\ OnTheWay /\ [Next]_vars => RaisedByFiles'
<1> SUFFICES ASSUME Typed, OnTheWay, [Next]_vars PROVE RaisedByFiles' OBVIOUS
<1>0. /\ chooser \in [Events -> [at : {"none", "raised", "set", "panel"}, paths : Nat]]
      /\ panel \in Events \cup {0}
    BY DEF Typed, ChoosersTyped
<1>1. ASSUME UNCHANGED <<events, chooser, panel>> PROVE RaisedByFiles'
    BY <1>1 DEF OnTheWay, RaisedByFiles, Happened
<1>2. ASSUME UNCHANGED events, \A e \in Events : chooser'[e].at # "none" => chooser[e].at # "none",
             panel' # 0 => chooser'[panel'].at = "panel"
      PROVE  RaisedByFiles'
    BY <1>2 DEF OnTheWay, RaisedByFiles, Happened
<1>3. ASSUME NEW r \in EventRecords, events' = Append(events, r), Len(events) + 1 \in Events,
             panel' = panel,
             \A e \in Events : e # Len(events) + 1 => chooser'[e] = chooser[e],
             chooser'[Len(events) + 1].at # "none"
                 => r.kind = "file" \/ chooser'[Len(events) + 1] = chooser[Len(events) + 1]
      PROVE  RaisedByFiles'
  <2> DEFINE n == Len(events) + 1
  <2>1. /\ Happened' = Happened \cup {n} /\ n \notin Happened
        /\ events'[n] = r /\ \A e \in Happened : events'[e] = events[e]
      BY <1>3, NextEvent
  <2> HIDE DEF n
  <2>2. panel # n /\ chooser[n].at = "none"
    <3>1. n \in Events BY <1>3 DEF n
    <3>2. chooser[n].at = "none" BY <2>1, <3>1 DEF OnTheWay, RaisedByFiles
    <3> QED BY <3>1, <3>2, Ids DEF OnTheWay, RaisedByFiles
  <2> QED BY <1>0, <1>3, <2>1, <2>2 DEF OnTheWay, RaisedByFiles, n
<1>4. CASE Navigate \/ OpenFrame BY <1>1, <1>4 DEF Navigate, OpenFrame, choosers
<1>5. ASSUME NEW d \in Docs, NEW kind \in Kinds, NEW el \in Elements, Act(d, kind, el)
      PROVE  RaisedByFiles'
  <2> DEFINE n == Len(events) + 1
  <2>1. PICK r \in EventRecords : events' = Append(events, r) /\ r.kind = kind BY <1>5, ActRecord
  <2>2. /\ n \in Events /\ panel' = panel
        /\ chooser' = [chooser EXCEPT ![n].at = IF kind = "file" THEN "raised" ELSE @]
      BY <1>5 DEF Act
  <2>3. \A e \in Events : e # n => chooser'[e] = chooser[e] BY <1>0, <2>2
  <2>4. chooser'[n].at # "none" => kind = "file" \/ chooser'[n] = chooser[n]
    <3>1. kind # "file" => chooser'[n] = chooser[n] BY <1>0, <2>2
    <3> QED BY <3>1
  <2> QED BY <1>3, <2>1, <2>2, <2>3, <2>4
<1>6. ASSUME NEW el \in Elements, Pick(el) PROVE RaisedByFiles'
  <2>1. PICK r \in EventRecords : events' = Append(events, r) BY <1>6, PickRecord
  <2>2. Len(events) + 1 \in Events /\ UNCHANGED <<panel, chooser>> BY <1>6 DEF Pick, Control, choosers
  <2> QED BY <1>3, <2>1, <2>2
<1>7. CASE Arriving BY <1>1, <1>7 DEF Arriving, PollDone, Receive, Drain, Flushed, page, choosers
<1>8. CASE Building BY <1>1, <1>8 DEF Building, Built, PickBuilt, UploadBuilt, Uploaded, page, choosers
<1>9. ASSUME NEW e \in Events, ChooserHandled(e) PROVE RaisedByFiles'
  <2>1. chooser[e].at = "raised" /\ panel # e
    <3>1. chooser[e].at = "raised" BY <1>9 DEF ChooserHandled
    <3> QED BY <3>1, Ids DEF OnTheWay, RaisedByFiles
  <2>2. \A c \in Events : c # e => chooser'[c] = chooser[c]
      BY <1>0, <1>9 DEF ChooserHandled, Chooser
  <2>3. panel' = panel \/ (panel' = e /\ chooser'[e].at = "panel")
      BY <1>0, <1>9 DEF ChooserHandled, Chooser
  <2>4. UNCHANGED events BY <1>9 DEF ChooserHandled, page
  <2> QED BY <1>0, <1>2, <2>1, <2>2, <2>3, <2>4 DEF OnTheWay, RaisedByFiles
<1>10. ASSUME NEW e \in Events, panel' = 0, UNCHANGED events, chooser[e].at # "none",
              \A c \in Events : c # e => chooser'[c] = chooser[c]
       PROVE  RaisedByFiles'
    BY <1>2, <1>10
<1>11. CASE PanelAnswered
  <2>1. panel \in Events /\ chooser[panel].at # "none"
      BY <1>0, <1>11 DEF PanelAnswered, OnTheWay, RaisedByFiles
  <2>2. panel' = 0 /\ UNCHANGED events BY <1>11 DEF PanelAnswered, page
  <2>3. \A c \in Events : c # panel => chooser'[c] = chooser[c]
      BY <1>0, <1>11 DEF PanelAnswered, Chooser
  <2> QED BY <1>10, <2>1, <2>2, <2>3
<1>12. ASSUME NEW e \in Events, PanelTimesOut(e) PROVE RaisedByFiles'
  <2>1. \A c \in Events : c # e => chooser'[c] = chooser[c]
      BY <1>0, <1>12 DEF PanelTimesOut, Chooser
  <2> QED BY <1>10, <1>12, <2>1 DEF PanelTimesOut, page
<1>13. ASSUME NEW e \in Events, ChooserRecorded(e) PROVE RaisedByFiles'
  <2>1. chooser[e].at = "set" /\ panel' = panel /\ UNCHANGED events BY <1>13 DEF ChooserRecorded, page
  <2>2. \A c \in Events : c # e => chooser'[c] = chooser[c] BY <1>0, <1>13 DEF ChooserRecorded
  <2>3. panel # e BY <2>1, Ids DEF OnTheWay, RaisedByFiles
  <2> QED BY <1>0, <1>2, <2>1, <2>2, <2>3 DEF OnTheWay, RaisedByFiles
<1>14. CASE SkipEnds BY <1>1, <1>14 DEF SkipEnds, page
<1>15. CASE ToggleArm \/ SetPending \/ CancelPick \/ AddStep
            \/ \E i \in DOMAIN steps : DeleteStep(i) \/ MoveStep(i)
    BY <1>1, <1>15 DEF ToggleArm, SetPending, CancelPick, AddStep, DeleteStep, MoveStep, Control, choosers
<1>16. CASE Stop
  <2>1. panel' = 0 /\ UNCHANGED events BY <1>16 DEF Stop, page
  <2>2. \A e \in Events : chooser'[e] = chooser[e] \/ chooser'[e].at = "none"
      BY <1>0, <1>16 DEF Stop, NoChooser
  <2> QED BY <1>2, <2>1, <2>2
<1>17. CASE Write \/ \E d \in Drainers : Dies(d) BY <1>1, <1>17 DEF Write, Dies, page, choosers
<1>18. CASE Close
  <2>1. panel' = 0 /\ UNCHANGED events BY <1>18 DEF Close, page
  <2>2. \A e \in Events : chooser'[e].at = "none" BY <1>18 DEF Close, NoChooser
  <2> QED BY <1>2, <2>1, <2>2
<1>19. CASE UNCHANGED vars BY <1>1, <1>19 DEF vars, page, choosers
<1> QED BY <1>4, <1>5, <1>6, <1>7, <1>8, <1>9, <1>11, <1>12, <1>13, <1>14, <1>15, <1>16, <1>17, <1>18,
           <1>19 DEF Next, Page, Choosing, Controls, Ending

-----------------------------------------------------------------------------
(* What the tasks hold. *)

LEMMA HeldGrows ==
    ASSUME Typed, OnTheWay, NEW r \in EventRecords, events' = Append(events, r),
           Len(events) + 1 \in Events
    PROVE  /\ \A t \in Tasks : /\ Range(hand[t]) \subseteq Happened'
                               /\ taken[t] # 0 => events'[Head(hand[t])].kind = "file"
           /\ Happened' = Happened \cup {Len(events) + 1} /\ hand[Len(events) + 1] = <<>>
<1>1. /\ Happened' = Happened \cup {Len(events) + 1} /\ Len(events) + 1 \notin Happened
      /\ \A e \in Happened : events'[e] = events[e]
    BY NextEvent
<1>2. \A t \in Tasks : taken[t] # 0 => Head(hand[t]) \in Happened BY HeadEvent DEF OnTheWay, HeldHappened
<1> QED BY <1>1, <1>2 DEF OnTheWay, HeldHappened, Ready, Head1

\* A task is done with the event at its head.
LEMMA HeadTaken ==
    ASSUME Typed, OnTheWay, NEW t \in Tasks, hand[t] # <<>>, Next1(t), UNCHANGED <<events, calls, at>>,
           taken'[t] = 0, \A u \in Tasks : u # t => taken'[u] = taken[u]
    PROVE  HeldHappened' /\ Ready'
<1>1. hand[t] \in Seq(Events) /\ hand \in [Tasks -> Seq(Events)] BY DEF Typed, TasksTyped
<1>2. Range(hand'[t]) \subseteq Range(hand[t]) /\ \A u \in Tasks : u # t => hand'[u] = hand[u]
  <2>1. Tail(hand[t]) \in Seq(Events) /\ Range(Tail(hand[t])) \subseteq Range(hand[t])
      BY <1>1, TailHeld
  <2>2. Range(Considered(Tail(hand[t]))) \subseteq Range(Tail(hand[t])) BY <2>1, ConsideredHeld
  <2> QED BY <1>1, <2>1, <2>2 DEF Next1
<1>3. HeldHappened' BY <1>2 DEF OnTheWay, HeldHappened, Happened, Head1
<1>4. Ready' BY <1>2, Ids DEF OnTheWay, Ready, Happened
<1> QED BY <1>3, <1>4

\* A task takes what arrived.
LEMMA HandFilled ==
    ASSUME Typed, OnTheWay, NEW t \in Tasks, hand[t] = <<>>, NEW set \in SUBSET Happened,
           IngestAll(t, set), UNCHANGED <<events, taken>>, calls' \subseteq calls \ {t},
           t \in Drainers => at'[t] = "work", t \in Events => t \in Happened,
           \A d \in Drainers : d # t => at'[d] = at[d]
    PROVE  HeldHappened' /\ Ready'
<1>1. Range(hand'[t]) \subseteq set /\ \A u \in Tasks : u # t => hand'[u] = hand[u] BY Ingested
<1>2. taken[t] = 0 BY DEF OnTheWay, HeldHappened
<1>3. HeldHappened' BY <1>1, <1>2 DEF OnTheWay, HeldHappened, Happened, Head1
<1>4. Ready' BY <1>1, Ids DEF OnTheWay, Ready, Happened
<1> QED BY <1>3, <1>4

LEMMA HandsStay == Typed /\ OnTheWay /\ [Next]_vars => HeldHappened' /\ Ready'
<1> SUFFICES ASSUME Typed, OnTheWay, [Next]_vars PROVE HeldHappened' /\ Ready' OBVIOUS
<1>0. /\ hand \in [Tasks -> Seq(Events)] /\ taken \in [Tasks -> Nat] /\ at \in [Drainers -> {"sleep", "none", "asked", "answered", "work", "off", "dead", "ended", "closed"}]
    BY DEF Typed, TasksTyped
<1>1. ASSUME UNCHANGED <<events, hand, taken, at>>, calls' \subseteq calls PROVE HeldHappened' /\ Ready'
    BY <1>1 DEF OnTheWay, HeldHappened, Ready, Happened, Head1
<1>2. ASSUME NEW d \in Drainers, UNCHANGED <<events, calls, hand, taken>>, hand[d] = <<>>,
             \A c \in Drainers : c # d => at'[c] = at[c]
      PROVE  HeldHappened' /\ Ready'
    BY <1>2 DEF OnTheWay, HeldHappened, Ready, Happened, Head1
<1>3. CASE Navigate \/ OpenFrame BY <1>1, <1>3 DEF Navigate, OpenFrame
<1>4. ASSUME NEW d \in Docs, NEW kind \in Kinds, NEW el \in Elements, Act(d, kind, el)
      PROVE  HeldHappened' /\ Ready'
  <2>1. PICK r \in EventRecords : events' = Append(events, r) BY <1>4, ActRecord
  <2>2. /\ Len(events) + 1 \in Events /\ calls' \subseteq calls \cup {Len(events) + 1}
        /\ UNCHANGED <<at, hand, taken>>
      BY <1>4 DEF Act
  <2>3. HeldHappened' BY <2>1, <2>2, HeldGrows DEF OnTheWay, HeldHappened, Head1
  <2>4. Ready' BY <2>1, <2>2, HeldGrows DEF OnTheWay, Ready
  <2> QED BY <2>3, <2>4
<1>5. ASSUME NEW e \in Events, Receive(e) PROVE HeldHappened' /\ Ready'
  <2>1. /\ e \in calls /\ calls' = calls \ {e} /\ IngestAll(e, New({e}))
        /\ UNCHANGED <<events, taken, at>>
      BY <1>5 DEF Receive, page
  <2>2. e \in Happened /\ hand[e] = <<>> BY <2>1 DEF OnTheWay, SentHappened, Sent, Ready
  <2>3. New({e}) \in SUBSET Happened BY <2>1, NewHappened
  <2>4. e \in Tasks /\ e \notin Drainers /\ calls' \subseteq calls \ {e} /\ at' = at
      BY <2>1, Ids DEF Drainers
  <2> HIDE DEF Happened
  <2>5. UNCHANGED <<events, taken>> /\ \A d \in Drainers : d # e => at'[d] = at[d] BY <2>1, <2>4
  <2> QED BY <2>1, <2>2, <2>3, <2>4, <2>5, HandFilled
<1>6. ASSUME NEW d \in Drainers, Drain(d) PROVE HeldHappened' /\ Ready'
  <2>1. hand[d] = <<>> BY <1>6 DEF Drain, OnTheWay, Ready
  <2>2. \A c \in Drainers : c # d => at'[c] = at[c] BY <1>0, <1>6 DEF Drain
  <2> QED BY <1>2, <1>6, <2>1, <2>2 DEF Drain
<1>7. ASSUME NEW d \in Drainers, Flushed(d) PROVE HeldHappened' /\ Ready'
  <2>1. /\ at[d] = "answered" /\ IngestAll(d, New(answer[d])) /\ UNCHANGED <<events, taken, calls>>
        /\ at' = [at EXCEPT ![d] = "work"]
      BY <1>7 DEF Flushed, page
  <2>2. hand[d] = <<>> /\ d \notin Events /\ calls \subseteq Events
      BY <2>1, Ids DEF OnTheWay, Ready, Typed, PageTyped, Drainers
  <2>3. at'[d] = "work" /\ \A c \in Drainers : c # d => at'[c] = at[c] BY <1>0, <2>1
  <2>4. New(answer[d]) \in SUBSET Happened BY NewHappened
  <2> QED BY <2>1, <2>2, <2>3, <2>4, Ids, HandFilled
<1>8. CASE PollDone
  <2>1. hand[Poll] = <<>> /\ \A c \in Drainers : c # Poll => at'[c] = at[c] BY <1>0, <1>8 DEF PollDone
  <2> QED BY <1>2, <1>8, <2>1, Ids DEF PollDone, page
<1>9. ASSUME NEW t \in Tasks, Built(t) \/ PickBuilt(t) PROVE HeldHappened' /\ Ready'
  <2>1. hand[t] # <<>> /\ Head1(t).kind # "file" /\ Next1(t) /\ UNCHANGED <<events, calls, at, taken>>
      BY <1>9 DEF Built, PickBuilt, page
  <2>2. taken[t] = 0 BY <2>1 DEF OnTheWay, HeldHappened
  <2> QED BY <2>1, <2>2, HeadTaken
<1>10. ASSUME NEW t \in Tasks, UploadBuilt(t) PROVE HeldHappened' /\ Ready'
  <2>1. /\ hand[t] # <<>> /\ Head1(t).kind = "file" /\ taken[t] = 0
        /\ UNCHANGED <<events, calls, at>>
      BY <1>10 DEF UploadBuilt, page
  <2>2. CASE Next1(t) /\ taken' = taken BY <2>1, <2>2, HeadTaken
  <2>3. CASE taken' = [taken EXCEPT ![t] = pending] /\ hand' = hand
    <3>1. \A u \in Tasks : u # t => taken'[u] = taken[u] BY <1>0, <2>3
    <3>2. HeldHappened' BY <2>1, <2>3, <3>1 DEF OnTheWay, HeldHappened, Happened, Head1
    <3>3. Ready' BY <2>1, <2>3 DEF OnTheWay, Ready, Happened
    <3> QED BY <3>2, <3>3
  <2> QED BY <1>10, <2>2, <2>3 DEF UploadBuilt
<1>11. ASSUME NEW t \in Tasks, Uploaded(t) PROVE HeldHappened' /\ Ready'
  <2>1. taken[t] # 0 /\ Next1(t) /\ UNCHANGED <<events, calls, at>> /\ taken' = [taken EXCEPT ![t] = 0]
      BY <1>11 DEF Uploaded, page
  <2>2. hand[t] # <<>> BY <2>1 DEF OnTheWay, HeldHappened
  <2>3. taken'[t] = 0 /\ \A u \in Tasks : u # t => taken'[u] = taken[u] BY <1>0, <2>1
  <2> QED BY <2>1, <2>2, <2>3, HeadTaken
<1>12. CASE Choosing
    BY <1>1, <1>12 DEF Choosing, PanelAnswered, SkipEnds, ChooserHandled, PanelTimesOut,
                       ChooserRecorded, page
<1>13. CASE ToggleArm \/ SetPending \/ CancelPick \/ AddStep
            \/ \E i \in DOMAIN steps : DeleteStep(i) \/ MoveStep(i)
    BY <1>1, <1>13 DEF ToggleArm, SetPending, CancelPick, AddStep, DeleteStep, MoveStep, Control
<1>14. ASSUME NEW el \in Elements, Pick(el) PROVE HeldHappened' /\ Ready'
  <2> DEFINE n == Len(events) + 1
  <2>1. PICK r \in EventRecords : events' = Append(events, r) BY <1>14, PickRecord
  <2>2. /\ n \in Events /\ hand' = [hand EXCEPT ![n] = <<n>>] /\ UNCHANGED <<at, taken, calls>>
      BY <1>14 DEF Pick, Control
  <2>3. /\ \A t \in Tasks : /\ Range(hand[t]) \subseteq Happened'
                            /\ taken[t] # 0 => events'[Head(hand[t])].kind = "file"
        /\ Happened' = Happened \cup {n} /\ hand[n] = <<>> /\ n \in Tasks
      BY <2>1, <2>2, HeldGrows, Ids
  <2> HIDE DEF n
  <2>4. hand'[n] = <<n>> /\ \A t \in Tasks : t # n => hand'[t] = hand[t] BY <1>0, <2>2, <2>3
  <2>5. n \notin calls
    <3>1. n \notin Happened BY <2>1, <2>2, NextEvent DEF n
    <3> QED BY <2>2, <3>1 DEF OnTheWay, SentHappened, Sent
  <2>6. taken[n] = 0 BY <2>3 DEF OnTheWay, HeldHappened
  <2>7. Range(hand'[n]) \subseteq Happened' BY <2>3, <2>4 DEF Range
  <2>8. HeldHappened' BY <2>2, <2>3, <2>4, <2>6, <2>7 DEF OnTheWay, HeldHappened, Head1
  <2>9. Ready'
    <3>1. \A d \in Drainers : d \in Tasks /\ d # n BY <2>2, Ids DEF Drainers
    <3> QED BY <2>2, <2>3, <2>4, <2>5, <3>1, Ids DEF OnTheWay, Ready
  <2> QED BY <2>8, <2>9
<1>15. CASE Stop
  <2>1. /\ hand[Stopping] = <<>> /\ \A c \in Drainers : c # Stopping => at'[c] = at[c]
        /\ UNCHANGED <<events, calls, hand, taken>>
      BY <1>0, <1>15, Ids DEF Stop, OnTheWay, Ready, page
  <2> QED BY <1>2, <2>1, Ids
<1>16. CASE Write
  <2>1. /\ hand' = [hand EXCEPT ![Poll] = <<>>] /\ taken' = [taken EXCEPT ![Poll] = 0]
        /\ UNCHANGED <<events, calls>>
        /\ at' = [d \in Drainers |-> IF d = Poll THEN "off" ELSE "ended"]
      BY <1>16 DEF Write, page
  <2>2. /\ hand'[Poll] = <<>> /\ taken'[Poll] = 0
        /\ \A t \in Tasks : t # Poll => hand'[t] = hand[t] /\ taken'[t] = taken[t]
      BY <1>0, <2>1, Ids
  <2>3. \A d \in Drainers : at'[d] \in {"off", "dead", "ended"} BY <2>1
  <2>4. Range(hand'[Poll]) = {} BY <2>2 DEF Range
  <2>5. HeldHappened' BY <2>1, <2>2, <2>4 DEF OnTheWay, HeldHappened, Happened, Head1
  <2>6. Ready' BY <2>1, <2>2, <2>3, Ids DEF OnTheWay, Ready, Happened
  <2> QED BY <2>5, <2>6
<1>17. CASE Close
  <2>1. \A t \in Tasks : hand'[t] = <<>> /\ taken'[t] = 0 /\ Range(hand'[t]) = {}
      BY <1>17 DEF Close, Range
  <2>2. HeldHappened' BY <2>1 DEF HeldHappened
  <2>3. Ready' BY <2>1, Ids DEF Ready
  <2> QED BY <2>2, <2>3
<1>18. CASE UNCHANGED vars BY <1>1, <1>18 DEF vars, page
<1>19. ASSUME NEW d \in Drainers, Dies(d) PROVE HeldHappened' /\ Ready'
  <2>1. /\ hand' = [hand EXCEPT ![d] = <<>>] /\ taken' = [taken EXCEPT ![d] = 0]
        /\ UNCHANGED <<events, calls>> /\ \A c \in Drainers : c # d => at'[c] = at[c]
      BY <1>0, <1>19 DEF Dies, page
  <2>2. /\ hand'[d] = <<>> /\ taken'[d] = 0
        /\ \A t \in Tasks : t # d => hand'[t] = hand[t] /\ taken'[t] = taken[t]
      BY <1>0, <2>1, Ids
  <2>3. Range(hand'[d]) = {} BY <2>2 DEF Range
  <2>4. HeldHappened' BY <2>1, <2>2, <2>3 DEF OnTheWay, HeldHappened, Happened, Head1
  <2>5. \A e \in Events : e \in Tasks /\ (hand[e] = <<>> => hand'[e] = <<>>) BY <2>2, Ids
  <2>6. \A c \in Drainers : at'[c] \notin {"work", "off", "dead", "ended", "closed"} => hand'[c] = <<>>
      BY <2>1, <2>2, Ids DEF OnTheWay, Ready
  <2>7. Ready' BY <2>1, <2>5, <2>6 DEF OnTheWay, Ready, Happened
  <2> QED BY <2>4, <2>7
<1> QED BY <1>3, <1>4, <1>5, <1>6, <1>7, <1>8, <1>9, <1>10, <1>11, <1>12, <1>13, <1>14, <1>15, <1>16,
           <1>17, <1>18, <1>19 DEF Next, Page, Arriving, Building, Controls, Ending

LEMMA OnTheWayInit == Init => OnTheWay
<1> SUFFICES ASSUME Init PROVE OnTheWay OBVIOUS
<1>1. /\ queue = <<>> /\ calls = {} /\ (\A d \in Drainers : answer[d] = {}) /\ panel = 0
      /\ (\A e \in Events : chooser[e].at = "none") /\ \A t \in Tasks : hand[t] = <<>> /\ taken[t] = 0
    BY DEF Init, NoChooser
<1>2. Range(queue) = {} /\ \A t \in Tasks : Range(hand[t]) = {} BY <1>1 DEF Range
<1> QED BY <1>1, <1>2, Ids DEF OnTheWay, SentHappened, RaisedByFiles, HeldHappened, Ready, Sent

LEMMA TypedAndOnTheWay == Typed /\ OnTheWay /\ [Next]_vars => Typed' /\ OnTheWay'
BY PageStaysTyped, EventsStayTyped, TasksStayTyped, ChoosersStayTyped, GraphStays, SentStays,
   RaisedStays, HandsStay DEF Typed, OnTheWay

\* However page, binding calls, poll, choosers and stop() interleave, the recorder's
\* state keeps the shape its handlers rely on: what a task takes in _ingest_capture
\* has happened, and a task takes in no more while it still has events to build.
THEOREM RecorderTyped == Spec => [](Typed /\ OnTheWay)
BY TypedInit, OnTheWayInit, TypedAndOnTheWay, PTL DEF Spec

\* _append_step, delete_step and move_step: the edges join the steps in their
\* order, also in the file that stop() wrote.
THEOREM EdgesAlwaysFollow == Spec => []EdgesFollowSteps
<1>1. Init => EdgesFollowSteps
  <2> SUFFICES ASSUME Init PROVE EdgesFollowSteps OBVIOUS
  <2>1. steps = <<>> /\ edges = {} /\ artifact = None BY DEF Init
  <2>2. Linear(steps) = {}
    <3>1. 1..(Len(steps) - 1) = {} BY <2>1
    <3> QED BY <3>1 DEF Linear
  <2> QED BY <2>1, <2>2 DEF EdgesFollowSteps
<1>2. Typed /\ OnTheWay /\ EdgesFollowSteps /\ [Next]_vars => EdgesFollowSteps' BY GraphStays
<1> QED BY <1>1, <1>2, TypedInit, OnTheWayInit, TypedAndOnTheWay, PTL DEF Spec

-----------------------------------------------------------------------------
(* Every event at one place. *)

Held(e) == \E t \in Tasks : e \in Range(hand[t])
InGraph(e) == e \in gone \/ Somewhere(steps, e)

\* Event e is at one place: on its way, in the hand of one task, in one step, or in a deleted one.
AtOnePlace(e) ==
    /\ InGraph(e) \/ Held(e) => e \in Happened
    /\ e \in Happened /\ events[e].kind # "file" =>
        /\ Single(steps, e) /\ ~(e \in gone /\ Somewhere(steps, e)) /\ (Held(e) => ~InGraph(e))
        /\ \A t, u \in Tasks : e \in Range(hand[t]) /\ e \in Range(hand[u]) => t = u
        /\ events[e].kind # "pick" /\ (InGraph(e) \/ Held(e)) => events[e].seq \in seen

Once ==
    /\ \A t \in Tasks : IsInjective(hand[t])
    /\ \A e \in Events : AtOnePlace(e)

Alone(e) == \A f \in Happened : f # e => events[f].seq # events[e].seq

\* A captured event is on its way or its number was taken; the first of its number
\* was put in a hand, and went into the graph from there.
Found(e) ==
    /\ e \in calls \/ events[e].seq \in seen
    /\ events[e].seq \in seen /\ Alone(e) => InGraph(e) \/ Held(e)

\* Neither has stop() come to its end, nor has the poll died.
Working == at[Stopping] \notin {"ended", "closed"} /\ at[Poll] # "dead"

Placed ==
    /\ seen \subseteq {events[e].seq : e \in Happened}
    /\ Working => \A e \in Happened : Captured(e) => Found(e)

LEMMA HappenedIds == ASSUME Typed PROVE Happened \subseteq Events
BY EventsFinite DEF Typed, Happened

LEMMA InjectiveSmall == /\ IsInjective(<<>>) /\ Range(<<>>) = {}
                        /\ \A e : IsInjective(<<e>>) /\ Range(<<e>>) = {e}
<1>1. ASSUME NEW e PROVE IsInjective(<<e>>) /\ Range(<<e>>) = {e} BY DEF IsInjective, Range
<1>2. IsInjective(<<>>) /\ Range(<<>>) = {} BY DEF IsInjective, Range
<1> QED BY <1>1, <1>2

\* A task lets its first event go, and uploads behind it when they are to be skipped.
LEMMA HeadGone ==
    ASSUME Typed, NEW t \in Tasks, hand[t] # <<>>, Next1(t)
    PROVE  /\ \A u \in Tasks : u # t => hand'[u] = hand[u]
           /\ Range(hand'[t]) \subseteq Range(hand[t]) /\ Head(hand[t]) \in Range(hand[t])
           /\ IsInjective(hand[t]) => IsInjective(hand'[t]) /\ Head(hand[t]) \notin Range(hand'[t])
           /\ \A e \in Range(hand[t]) :
                  events[e].kind # "file" /\ e # Head(hand[t]) => e \in Range(hand'[t])
<1>1. hand[t] \in Seq(Events) /\ hand \in [Tasks -> Seq(Events)] BY DEF Typed, TasksTyped
<1> DEFINE list == hand[t]
           rest == Tail(list)
           new == Considered(rest)
<1>2. hand' = [hand EXCEPT ![t] = new] BY DEF Next1
<1> HIDE DEF new
<1>3. hand'[t] = new /\ \A u \in Tasks : u # t => hand'[u] = hand[u] BY <1>1, <1>2
<1>4. /\ rest \in Seq(Events) /\ Head(list) \in Range(list)
      /\ Range(list) = Range(rest) \cup {Head(list)}
      /\ IsInjective(list) => IsInjective(rest) /\ Head(list) \notin Range(rest)
    BY <1>1, TailHeld
<1> HIDE DEF rest
<1>5. /\ Range(new) \subseteq Range(rest)
      /\ IsInjective(rest) => IsInjective(new)
      /\ \A e \in Range(rest) : events[e].kind # "file" => e \in Range(new)
    BY <1>4, ConsideredHeld DEF new
<1> QED BY <1>3, <1>4, <1>5

\* What changes neither events nor graph, and drops or keeps what is held.
LEMMA DroppedOnce ==
    ASSUME Once, UNCHANGED <<events, steps, gone>>, seen \subseteq seen',
           \A t \in Tasks : hand'[t] = hand[t] \/ hand'[t] = <<>>
    PROVE  Once'
<1>1. \A t \in Tasks : IsInjective(hand'[t]) /\ Range(hand'[t]) \subseteq Range(hand[t])
    BY InjectiveSmall DEF Once
<1>2. ASSUME NEW e \in Events PROVE AtOnePlace(e)'
    BY <1>1 DEF Once, AtOnePlace, Held, InGraph, Happened, Somewhere, Single
<1> QED BY <1>1, <1>2 DEF Once

LEMMA HeadOnce ==
    ASSUME Typed, OnTheWay, Once, NEW t \in Tasks, hand[t] # <<>>, Next1(t),
           UNCHANGED <<events, seen, gone>>, Grows({Head(hand[t])}) \/ UNCHANGED steps
    PROVE  Once'
<1> DEFINE h == Head(hand[t])
<1>1. /\ \A u \in Tasks : u # t => hand'[u] = hand[u]
      /\ Range(hand'[t]) \subseteq Range(hand[t]) /\ h \in Range(hand[t])
      /\ IsInjective(hand'[t]) /\ h \notin Range(hand'[t])
    BY HeadGone DEF Once
<1>2. h \in Events /\ h \in Happened BY HeadEvent
<1> HIDE DEF h
<1>3. \A u \in Tasks : IsInjective(hand'[u]) BY <1>1 DEF Once
<1>4. ASSUME NEW e \in Events PROVE AtOnePlace(e)'
  <2>1. AtOnePlace(e) BY DEF Once
  <2>2. \A u \in Tasks : e \in Range(hand'[u]) => e \in Range(hand[u]) BY <1>1
  <2>3. Held(e)' => Held(e) BY <2>2 DEF Held
  <2>4. Somewhere(steps', e) => Somewhere(steps, e) \/ e = h
      BY DEF Grows, Adds, h
  <2>5. Held(h) /\ AtOnePlace(h) BY <1>1, <1>2 DEF Held, Once
  <2>6. events[e].kind # "file" /\ e \in Happened => Single(steps', e)
    <3>1. CASE UNCHANGED steps BY <2>1, <3>1 DEF AtOnePlace
    <3>2. CASE Grows({h})
      <4>1. Single(steps, e) /\ (e \in {h} => ~Somewhere(steps, e)) => Single(steps', e)
          BY <3>2 DEF Grows, Adds
      <4> QED BY <2>1, <2>5, <4>1 DEF AtOnePlace, InGraph
    <3> QED BY <3>1, <3>2 DEF h
  <2>7. e = h /\ events[e].kind # "file" => ~Held(e)'
    <3> SUFFICES ASSUME e = h, events[e].kind # "file", NEW u \in Tasks, e \in Range(hand'[u])
                 PROVE  FALSE
        BY DEF Held
    <3>1. u = t BY <1>1, <1>2, <2>1, <2>2 DEF AtOnePlace
    <3> QED BY <1>1, <3>1
  <2>8. InGraph(e)' => InGraph(e) \/ e = h BY <2>4 DEF InGraph
  <2>9. InGraph(e)' \/ Held(e)' => e \in Happened' BY <1>2, <2>1, <2>3, <2>8 DEF AtOnePlace, Happened
  <2>10. ASSUME e \in Happened, events[e].kind # "file"
         PROVE  /\ ~(e \in gone' /\ Somewhere(steps', e)) /\ (Held(e)' => ~InGraph(e)')
                /\ events[e].kind # "pick" /\ (InGraph(e)' \/ Held(e)') => events[e].seq \in seen
      BY <2>1, <2>3, <2>4, <2>5, <2>7, <2>8, <2>10 DEF AtOnePlace, InGraph
  <2>11. events' = events /\ seen' = seen /\ Happened' = Happened BY DEF Happened
  <2> QED BY <2>1, <2>2, <2>6, <2>9, <2>10, <2>11 DEF AtOnePlace
<1> QED BY <1>3, <1>4 DEF Once

LEMMA IngestedOnce ==
    ASSUME Typed, OnTheWay, Once, NEW t \in Tasks, hand[t] = <<>>, NEW set \in SUBSET Happened,
           \A e \in set : events[e].seq \notin seen /\ events[e].kind # "pick",
           IngestAll(t, set), UNCHANGED <<events, steps, gone>>
    PROVE  Once'
<1>1. /\ seen' = seen \cup {events[e].seq : e \in set}
      /\ \A u \in Tasks : u # t => hand'[u] = hand[u]
      /\ IsInjective(hand'[t]) /\ Range(hand'[t]) \subseteq set
    BY Ingested
<1>2. \A u \in Tasks : IsInjective(hand'[u]) BY <1>1 DEF Once
<1>3. ASSUME NEW e \in Events PROVE AtOnePlace(e)'
  <2>1. AtOnePlace(e) BY DEF Once
  <2>2. \A u \in Tasks : e \in Range(hand'[u]) => e \in Range(hand[u]) \/ (u = t /\ e \in set) BY <1>1
  <2>3. InGraph(e)' <=> InGraph(e) BY DEF InGraph, Somewhere
  <2>4. Happened' = Happened /\ seen \subseteq seen' /\ (e \in set => events[e].seq \in seen')
      BY <1>1 DEF Happened
  <2>5. e \in set => e \in Happened /\ (events[e].kind # "file" => ~InGraph(e) /\ ~Held(e))
      BY <2>1 DEF AtOnePlace
  <2>6. Held(e)' => Held(e) \/ e \in set BY <2>2 DEF Held
  <2>7. ASSUME e \in Happened, events[e].kind # "file"
        PROVE  \A u, v \in Tasks : e \in Range(hand'[u]) /\ e \in Range(hand'[v]) => u = v
      BY <2>1, <2>2, <2>5, <2>7 DEF AtOnePlace, Held
  <2>8. Single(steps', e) <=> Single(steps, e) BY DEF Single
  <2> QED BY <2>1, <2>3, <2>4, <2>5, <2>6, <2>7, <2>8 DEF AtOnePlace, InGraph
<1> QED BY <1>2, <1>3 DEF Once

\* An event happens; a picked element is held at once.
LEMMA NextOnce ==
    ASSUME Typed, OnTheWay, Once, NEW r \in EventRecords, events' = Append(events, r),
           Len(events) + 1 \in Events, UNCHANGED <<steps, gone, seen>>,
           hand' = hand \/ (r.kind = "pick" /\ hand' = [hand EXCEPT ![Len(events) + 1] = <<Len(events) + 1>>])
    PROVE  Once'
<1> DEFINE n == Len(events) + 1
<1>1. /\ Happened' = Happened \cup {n} /\ n \notin Happened
      /\ events'[n] = r /\ \A e \in Happened : events'[e] = events[e]
    BY NextEvent
<1>2. n \in Events /\ n \in Tasks BY Ids
<1>3. hand \in [Tasks -> Seq(Events)] BY DEF Typed, TasksTyped
<1>4. hand' = hand \/ (r.kind = "pick" /\ hand' = [hand EXCEPT ![n] = <<n>>]) OBVIOUS
<1> HIDE DEF n
<1>5. \A u \in Tasks : hand'[u] = hand[u] \/ (r.kind = "pick" /\ u = n /\ hand'[u] = <<n>>)
    BY <1>2, <1>3, <1>4
<1>6. \A u \in Tasks : IsInjective(hand'[u]) BY <1>5, InjectiveSmall DEF Once
<1>7. \A u \in Tasks : hand'[u] # hand[u] => r.kind = "pick" /\ u = n /\ Range(hand'[u]) = {n}
    BY <1>5, InjectiveSmall
<1>8. hand[n] = <<>> BY <1>1, <1>2 DEF OnTheWay, Ready
<1>9. AtOnePlace(n) /\ ~InGraph(n) /\ ~Held(n) BY <1>1, <1>2 DEF Once, AtOnePlace
<1>10. ASSUME NEW e \in Events PROVE AtOnePlace(e)'
  <2>1. AtOnePlace(e) BY DEF Once
  <2>2. (InGraph(e)' <=> InGraph(e)) /\ (Single(steps', e) <=> Single(steps, e))
        /\ (Somewhere(steps', e) <=> Somewhere(steps, e))
      BY DEF InGraph, Somewhere, Single
  <2>3. CASE e = n
    <3>1. Single(steps, e) /\ ~Somewhere(steps, e) BY <1>9, <2>3 DEF InGraph, Single, Somewhere
    <3>2. \A u \in Tasks : e \in Range(hand'[u]) => u = n /\ r.kind = "pick"
        BY <1>7, <1>9, <2>3 DEF Held
    <3>3. Held(e)' => r.kind = "pick" BY <3>2 DEF Held
    <3>4. events'[e].kind = r.kind /\ e \in Happened' /\ ~InGraph(e) BY <1>1, <1>9, <2>3
    <3> QED BY <2>2, <3>1, <3>2, <3>3, <3>4 DEF AtOnePlace
  <2>4. CASE e # n
    <3>1. \A u \in Tasks : e \in Range(hand'[u]) => e \in Range(hand[u]) BY <1>7, <2>4
    <3>2. Held(e)' => Held(e) BY <3>1 DEF Held
    <3>3. e \in Happened' => e \in Happened /\ events'[e] = events[e] BY <1>1, <2>4
    <3>4. e \in Happened => e \in Happened' BY <1>1
    <3> QED BY <2>1, <2>2, <3>1, <3>2, <3>3, <3>4 DEF AtOnePlace
  <2> QED BY <2>3, <2>4
<1> QED BY <1>6, <1>10 DEF Once

\* A step is appended for a file chooser, or for no event.
LEMMA AppendedOnce ==
    ASSUME Typed, Once, NEW from \in SUBSET Happened, \A e \in from : events[e].kind = "file",
           Grows(from), UNCHANGED <<events, seen, hand, gone>>
    PROVE  Once'
<1>1. ASSUME NEW e \in Events PROVE AtOnePlace(e)'
  <2>1. AtOnePlace(e) BY DEF Once
  <2>2. (Held(e)' <=> Held(e)) /\ Happened' = Happened BY DEF Held, Happened
  <2>3. /\ Somewhere(steps', e) <=> Somewhere(steps, e) \/ e \in from
        /\ Single(steps, e) /\ (e \in from => ~Somewhere(steps, e)) => Single(steps', e)
      BY DEF Grows, Adds
  <2> QED BY <2>1, <2>2, <2>3 DEF AtOnePlace, InGraph
<1> QED BY <1>1 DEF Once

LEMMA EditedOnce ==
    ASSUME Typed, Once, NEW i \in DOMAIN steps, DeleteStep(i) \/ MoveStep(i)
    PROVE  Once'
<1>0. GraphTyped /\ UNCHANGED <<events, seen, hand>> BY DEF Typed, DeleteStep, MoveStep, Control
<1>1. ASSUME NEW e \in Events PROVE AtOnePlace(e)'
  <2>1. AtOnePlace(e) BY DEF Once
  <2>2. (Held(e)' <=> Held(e)) /\ Happened' = Happened BY <1>0 DEF Held, Happened
  <2>3. CASE DeleteStep(i)
    <3>1. steps' = RemoveAt(steps, i) /\ gone' = gone \cup steps[i].from BY <2>3 DEF DeleteStep
    <3>2. /\ Somewhere(steps, e) <=> Somewhere(steps', e) \/ e \in steps[i].from
          /\ Single(steps, e) => /\ Single(steps', e)
                                 /\ e \in steps[i].from => ~Somewhere(steps', e)
        BY <1>0, <3>1, RemovedStep
    <3>3. InGraph(e)' <=> InGraph(e) BY <3>1, <3>2 DEF InGraph
    <3>4. e \in gone' <=> e \in gone \/ e \in steps[i].from BY <3>1
    <3> QED BY <1>0, <2>1, <2>2, <3>2, <3>3, <3>4 DEF AtOnePlace, InGraph
  <2>4. CASE MoveStep(i)
    <3>1. /\ i \in 1..(Len(steps) - 1) /\ steps' = [steps EXCEPT ![i] = steps[i + 1], ![i + 1] = steps[i]]
          /\ gone' = gone
        BY <2>4 DEF MoveStep
    <3>2. (Somewhere(steps', e) <=> Somewhere(steps, e)) /\ (Single(steps, e) => Single(steps', e))
        BY <1>0, <3>1, MovedStep
    <3> QED BY <1>0, <2>1, <2>2, <3>1, <3>2 DEF AtOnePlace, InGraph
  <2> QED BY <2>3, <2>4
<1> QED BY <1>0, <1>1 DEF Once

\* What is new has a number that was not taken, and came from the page.
LEMMA NewEvents ==
    ASSUME Typed, OnTheWay
    PROVE  /\ \A e \in calls : New({e}) \in SUBSET Happened
                               /\ \A f \in New({e}) : events[f].seq \notin seen /\ events[f].kind # "pick"
           /\ \A d \in Drainers : New(answer[d]) \in SUBSET Happened
                               /\ \A f \in New(answer[d]) : events[f].seq \notin seen /\ events[f].kind # "pick"
<1>1. ASSUME NEW e \in calls PROVE events[e].kind # "pick"
  <2>1. e \in Events /\ Sent(e) BY DEF Typed, PageTyped, Sent
  <2> QED BY <2>1 DEF OnTheWay, SentHappened
<1>2. ASSUME NEW d \in Drainers, NEW e \in answer[d] PROVE events[e].kind # "pick"
  <2>1. e \in Events /\ Sent(e) BY DEF Typed, TasksTyped, Sent
  <2> QED BY <2>1 DEF OnTheWay, SentHappened
<1> QED BY <1>1, <1>2, NewHappened DEF New

LEMMA OnceStays == Typed /\ OnTheWay /\ Once /\ [Next]_vars => Once'
<1> SUFFICES ASSUME Typed, OnTheWay, Once, [Next]_vars PROVE Once' OBVIOUS
<1>0. hand \in [Tasks -> Seq(Events)] BY DEF Typed, TasksTyped
<1>1. ASSUME UNCHANGED <<events, steps, gone, seen, hand>> PROVE Once' BY <1>1, DroppedOnce
<1>2. CASE Navigate \/ OpenFrame BY <1>1, <1>2 DEF Navigate, OpenFrame, graph
<1>3. ASSUME NEW d \in Docs, NEW kind \in Kinds, NEW el \in Elements, Act(d, kind, el) PROVE Once'
  <2>1. PICK r \in EventRecords : events' = Append(events, r) BY <1>3, ActRecord
  <2>2. Len(events) + 1 \in Events /\ UNCHANGED <<steps, gone, seen, hand>> BY <1>3 DEF Act, graph
  <2> QED BY <2>1, <2>2, NextOnce
<1>4. ASSUME NEW e \in Events, Receive(e) PROVE Once'
  <2>1. e \in calls /\ IngestAll(e, New({e})) /\ UNCHANGED <<events, steps, gone>>
      BY <1>4 DEF Receive, page, graph
  <2>2. e \in Tasks /\ hand[e] = <<>> BY <2>1, Ids DEF OnTheWay, Ready
  <2> QED BY <2>1, <2>2, NewEvents, IngestedOnce
<1>5. ASSUME NEW d \in Drainers, Drain(d) PROVE Once' BY <1>1, <1>5 DEF Drain, graph
<1>6. ASSUME NEW d \in Drainers, Flushed(d) PROVE Once'
  <2>1. at[d] = "answered" /\ IngestAll(d, New(answer[d])) /\ UNCHANGED <<events, steps, gone>>
      BY <1>6 DEF Flushed, page, graph
  <2>2. d \in Tasks /\ hand[d] = <<>> BY <2>1, Ids DEF OnTheWay, Ready
  <2> QED BY <2>1, <2>2, NewEvents, IngestedOnce
<1>7. CASE PollDone BY <1>1, <1>7 DEF PollDone, page, graph
<1>8. ASSUME NEW t \in Tasks, Built(t) PROVE Once'
  <2>1. hand[t] # <<>> /\ Next1(t) /\ UNCHANGED <<events, seen, gone>> BY <1>8 DEF Built, page
  <2> QED BY <1>8, <2>1, BuiltGrows, HeadOnce
<1>9. ASSUME NEW t \in Tasks, PickBuilt(t) PROVE Once'
  <2>1. hand[t] # <<>> /\ Next1(t) /\ UNCHANGED <<events, seen, gone>> BY <1>9 DEF PickBuilt, page
  <2> QED BY <1>9, <2>1, PickGrows, HeadOnce
<1>10. ASSUME NEW t \in Tasks, UploadBuilt(t) PROVE Once'
  <2>1. hand[t] # <<>> /\ UNCHANGED <<events, seen, gone>> BY <1>10 DEF UploadBuilt, page
  <2>2. CASE Upload(t, 0) /\ Next1(t) BY <2>1, <2>2, UploadGrows, HeadOnce
  <2>3. CASE hand' = hand /\ steps' = steps BY <1>1, <2>1, <2>3
  <2>4. CASE Next1(t) /\ steps' = steps BY <2>1, <2>4, HeadOnce
  <2> QED BY <1>10, <2>2, <2>3, <2>4 DEF UploadBuilt, graph
<1>11. ASSUME NEW t \in Tasks, Uploaded(t) PROVE Once'
  <2>1. /\ taken[t] # 0 /\ Upload(t, taken[t]) /\ Next1(t) /\ UNCHANGED <<events, seen, gone>>
      BY <1>11 DEF Uploaded, page
  <2>2. hand[t] # <<>> /\ taken[t] \in Nat BY <2>1 DEF OnTheWay, HeldHappened, Typed, TasksTyped
  <2> QED BY <2>1, <2>2, UploadGrows, HeadOnce
<1>12. ASSUME NEW e \in Events, ChooserHandled(e) \/ PanelTimesOut(e) PROVE Once'
    BY <1>1, <1>12 DEF ChooserHandled, PanelTimesOut, page, graph
<1>13. CASE PanelAnswered \/ SkipEnds BY <1>1, <1>13 DEF PanelAnswered, SkipEnds, page, graph
<1>14. ASSUME NEW e \in Events, ChooserRecorded(e) PROVE Once'
  <2>1. UNCHANGED <<events, seen, hand, gone>> BY <1>14 DEF ChooserRecorded, page
  <2>2. e \in Happened /\ events[e].kind = "file" /\ (Grows({e}) \/ UNCHANGED <<steps, edges, made>>)
      BY <1>14, ChooserGrows
  <2>3. {e} \in SUBSET Happened /\ \A f \in {e} : events[f].kind = "file" BY <2>2
  <2>4. CASE Grows({e}) BY <2>1, <2>3, <2>4, AppendedOnce
  <2>5. CASE UNCHANGED steps BY <1>1, <2>1, <2>5
  <2> QED BY <2>2, <2>4, <2>5
<1>15. CASE ToggleArm \/ SetPending \/ CancelPick
    BY <1>1, <1>15 DEF ToggleArm, SetPending, CancelPick, Control
<1>16. CASE AddStep
  <2>1. UNCHANGED <<events, seen, hand, gone>> BY <1>16 DEF AddStep, Control
  <2>2. {} \in SUBSET Happened /\ \A e \in {} : events[e].kind = "file" OBVIOUS
  <2> QED BY <1>16, <2>1, <2>2, AddedGrows, AppendedOnce
<1>17. ASSUME NEW el \in Elements, Pick(el) PROVE Once'
  <2>1. PICK r \in EventRecords : events' = Append(events, r) /\ r.kind = "pick" BY <1>17, PickRecord
  <2>2. /\ Len(events) + 1 \in Events /\ UNCHANGED <<steps, gone, seen>>
        /\ hand' = [hand EXCEPT ![Len(events) + 1] = <<Len(events) + 1>>]
      BY <1>17 DEF Pick, Control
  <2> QED BY <2>1, <2>2, NextOnce
<1>18. ASSUME NEW i \in DOMAIN steps, DeleteStep(i) \/ MoveStep(i) PROVE Once' BY <1>18, EditedOnce
<1>19. CASE Stop BY <1>1, <1>19 DEF Stop, page, graph
<1>20. CASE Write
  <2>1. hand' = [hand EXCEPT ![Poll] = <<>>] /\ UNCHANGED <<events, steps, gone, seen>>
      BY <1>20 DEF Write, page
  <2>2. \A t \in Tasks : hand'[t] = hand[t] \/ hand'[t] = <<>> BY <1>0, <2>1
  <2> QED BY <2>1, <2>2, DroppedOnce
<1>21. CASE Close
  <2>1. UNCHANGED <<events, steps, gone, seen>> /\ \A t \in Tasks : hand'[t] = <<>>
      BY <1>21 DEF Close, page, graph
  <2> QED BY <2>1, DroppedOnce
<1>22. CASE UNCHANGED vars BY <1>1, <1>22 DEF vars, page, graph
<1>23. ASSUME NEW d \in Drainers, Dies(d) PROVE Once'
  <2>1. hand' = [hand EXCEPT ![d] = <<>>] /\ UNCHANGED <<events, steps, gone, seen>>
      BY <1>23 DEF Dies, page, graph
  <2>2. \A t \in Tasks : hand'[t] = hand[t] \/ hand'[t] = <<>> BY <1>0, <2>1
  <2> QED BY <2>1, <2>2, DroppedOnce
<1> QED BY <1>2, <1>3, <1>4, <1>5, <1>6, <1>7, <1>8, <1>9, <1>10, <1>11, <1>12, <1>13, <1>14, <1>15, <1>16,
           <1>17, <1>18, <1>19, <1>20, <1>21, <1>22, <1>23
        DEF Next, Page, Arriving, Building, Choosing, Controls, Ending

LEMMA OnceInit == Init => Once
<1> SUFFICES ASSUME Init PROVE Once OBVIOUS
<1>1. steps = <<>> /\ gone = {} /\ events = <<>> /\ \A t \in Tasks : hand[t] = <<>> BY DEF Init
<1>2. \A t \in Tasks : IsInjective(hand[t]) /\ Range(hand[t]) = {} BY <1>1, InjectiveSmall
<1>3. \A e : ~Somewhere(steps, e) /\ Single(steps, e) BY <1>1 DEF Somewhere, Single
<1> QED BY <1>1, <1>2, <1>3 DEF Once, AtOnePlace, Held, InGraph

LEMMA CountedOnce == Typed /\ Once => RecordedOnce
<1> SUFFICES ASSUME Typed, Once, NEW e \in DOMAIN events, events[e].kind # "file"
             PROVE  Cardinality({i \in DOMAIN steps : e \in steps[i].from}) + (IF e \in gone THEN 1 ELSE 0) <= 1
    BY DEF RecordedOnce
<1>1. Single(steps, e) /\ ~(e \in gone /\ Somewhere(steps, e))
    BY HappenedIds DEF Once, AtOnePlace, Happened
<1> DEFINE places == {i \in DOMAIN steps : e \in steps[i].from}
<1>2. CASE Somewhere(steps, e)
  <2>1. PICK i \in DOMAIN steps : e \in steps[i].from BY <1>2 DEF Somewhere
  <2>2. places = {i} BY <1>1, <2>1 DEF Single
  <2>3. Cardinality(places) = 1 BY <2>2, FS_Singleton
  <2> QED BY <1>1, <1>2, <2>3
<1>3. CASE ~Somewhere(steps, e)
  <2>1. places = {} BY <1>3 DEF Somewhere
  <2>2. Cardinality(places) = 0 BY <2>1, FS_EmptySet
  <2> QED BY <2>2
<1> QED BY <1>2, <1>3

\* _ingest_capture and _process_new_sequences: an event that came both through the
\* queue and through its binding call is in one step, once, or in a deleted one.
THEOREM RecordedAtMostOnce == Spec => []RecordedOnce
BY TypedInit, OnTheWayInit, OnceInit, TypedAndOnTheWay, OnceStays, CountedOnce, PTL DEF Spec

-----------------------------------------------------------------------------
(* The first event of its number is in the graph, or in a hand. *)

\* What an action that changes neither events nor numbers has to keep.
LEMMA PlaceKept ==
    ASSUME Placed, UNCHANGED <<events, seen>>,
           Working' =>
               /\ calls \subseteq calls' /\ Working
               /\ \A e \in Happened : Captured(e) /\ (InGraph(e) \/ Held(e)) => InGraph(e)' \/ Held(e)'
    PROVE  Placed'
<1>1. Happened' = Happened /\ seen' \subseteq {events'[e].seq : e \in Happened'} BY DEF Placed, Happened
<1>2. ASSUME Working', NEW e \in Happened, Captured(e) PROVE Found(e)'
  <2>1. Found(e) BY <1>2 DEF Placed
  <2>2. Alone(e)' <=> Alone(e) BY DEF Alone, Happened
  <2> QED BY <1>2, <2>1, <2>2 DEF Found
<1> QED BY <1>1, <1>2 DEF Placed, Captured

LEMMA StoppedFirst == Typed /\ [Next]_vars /\ Working'
                        => Working
<1> SUFFICES ASSUME Typed, [Next]_vars, Working'
             PROVE  Working
    OBVIOUS
<1> USE DEF Working
<1>0. at \in [Drainers -> {"sleep", "none", "asked", "answered", "work", "off", "dead", "ended", "closed"}]
    BY DEF Typed, TasksTyped
<1>1. ASSUME UNCHANGED at PROVE Working BY <1>1
<1>2. CASE Page BY <1>1, <1>2 DEF Page, Navigate, OpenFrame, Act
<1>3. ASSUME NEW e \in Events, Receive(e) PROVE Working BY <1>1, <1>3 DEF Receive
<1>4. ASSUME NEW d \in Drainers, Drain(d) PROVE Working
    BY <1>0, <1>4, Ids DEF Drain
<1>5. ASSUME NEW d \in Drainers, Flushed(d) PROVE Working
    BY <1>0, <1>5, Ids DEF Flushed
<1>6. CASE PollDone BY <1>0, <1>6, Ids DEF PollDone
<1>7. CASE Building BY <1>1, <1>7 DEF Building, Built, PickBuilt, UploadBuilt, Uploaded
<1>8. CASE Choosing
    BY <1>1, <1>8 DEF Choosing, PanelAnswered, SkipEnds, ChooserHandled, PanelTimesOut, ChooserRecorded
<1>9. CASE Controls
    BY <1>1, <1>9 DEF Controls, ToggleArm, SetPending, CancelPick, AddStep, Pick, DeleteStep, MoveStep, Control
<1>10. CASE Ending BY <1>0, <1>10, Ids DEF Ending, Stop, Write, Close, Dies
<1>11. CASE UNCHANGED vars BY <1>1, <1>11 DEF vars
<1> QED BY <1>2, <1>3, <1>4, <1>5, <1>6, <1>7, <1>8, <1>9, <1>10, <1>11 DEF Next, Arriving

\* An event happens.
LEMMA NextPlaced ==
    ASSUME Typed, Placed, NEW r \in EventRecords, events' = Append(events, r), Len(events) + 1 \in Events,
           UNCHANGED <<steps, gone, seen, at>>, calls \subseteq calls',
           Len(events) + 1 \in calls' \/ r.kind \notin {"click", "fill"},
           \A t \in Tasks : Range(hand[t]) \subseteq Range(hand'[t])
    PROVE  Placed'
<1> DEFINE n == Len(events) + 1
<1>1. /\ Happened' = Happened \cup {n} /\ n \notin Happened
      /\ events'[n] = r /\ \A e \in Happened : events'[e] = events[e]
    BY NextEvent
<1>2. n \in calls' \/ r.kind \notin {"click", "fill"} OBVIOUS
<1> HIDE DEF n
<1>3. seen' \subseteq {events'[e].seq : e \in Happened'} BY <1>1 DEF Placed
<1>4. ASSUME Working, NEW e \in Happened', Captured(e)' PROVE Found(e)'
  <2>1. CASE e = n
    <3>1. events'[e].seq \in seen => ~Alone(e)'
      <4> SUFFICES ASSUME events'[e].seq \in seen PROVE ~Alone(e)' OBVIOUS
      <4>1. PICK f \in Happened : events[f].seq = events'[e].seq BY DEF Placed
      <4>2. f # e /\ f \in Happened' /\ events'[f].seq = events'[e].seq BY <1>1, <2>1, <4>1
      <4> QED BY <4>2 DEF Alone
    <3> QED BY <1>1, <1>2, <1>4, <2>1, <3>1 DEF Found, Captured
  <2>2. CASE e # n
    <3>1. e \in Happened /\ events'[e] = events[e] BY <1>1, <2>2
    <3>2. Found(e) BY <1>4, <3>1 DEF Placed, Captured, Working
    <3>3. Alone(e)' => Alone(e) BY <1>1, <3>1 DEF Alone
    <3>4. InGraph(e) \/ Held(e) => InGraph(e)' \/ Held(e)' BY DEF InGraph, Held, Somewhere
    <3> QED BY <3>1, <3>2, <3>3, <3>4 DEF Found
  <2> QED BY <2>1, <2>2
<1> QED BY <1>3, <1>4 DEF Placed, Working

\* A task takes what arrived.
LEMMA IngestedPlaced ==
    ASSUME Typed, OnTheWay, Placed, NEW t \in Tasks, hand[t] = <<>>, NEW set \in SUBSET Happened,
           IngestAll(t, set), UNCHANGED <<events, steps, gone>>,
           Working' => Working,
           \A e \in calls \ calls' : events[e].seq \in seen'
    PROVE  Placed'
<1>1. /\ seen' = seen \cup {events[e].seq : e \in set}
      /\ \A u \in Tasks : u # t => hand'[u] = hand[u]
      /\ \A e \in set : events[e].kind # "file" => e \in Range(hand'[t])
    BY Ingested
<1>2. Happened' = Happened BY DEF Happened
<1>3. seen' \subseteq {events'[e].seq : e \in Happened'} BY <1>1, <1>2 DEF Placed
<1>4. ASSUME Working', NEW e \in Happened, Captured(e) PROVE Found(e)'
  <2>1. Found(e) BY <1>4 DEF Placed
  <2>2. e \in calls' \/ events'[e].seq \in seen' BY <1>1, <2>1 DEF Found
  <2>3. Range(hand[t]) = {} BY InjectiveSmall
  <2>4. InGraph(e) \/ Held(e) => InGraph(e)' \/ Held(e)' BY <1>1, <2>3 DEF InGraph, Held, Somewhere
  <2>5. ASSUME events[e].seq \in seen', Alone(e) PROVE InGraph(e)' \/ Held(e)'
    <3>1. CASE events[e].seq \in seen BY <2>1, <2>4, <2>5, <3>1 DEF Found
    <3>2. CASE events[e].seq \notin seen
      <4>1. PICK f \in set : events[f].seq = events[e].seq BY <1>1, <2>5, <3>2
      <4>2. f = e BY <2>5, <4>1 DEF Alone
      <4>3. e \in Range(hand'[t]) BY <1>1, <1>4, <4>1, <4>2 DEF Captured
      <4> QED BY <4>3 DEF Held
    <3> QED BY <3>1, <3>2
  <2>6. Alone(e)' <=> Alone(e) BY <1>2 DEF Alone
  <2> QED BY <2>2, <2>5, <2>6 DEF Found
<1> QED BY <1>2, <1>3, <1>4 DEF Placed, Captured

\* A task is done with its first event: a capture went into the graph.
LEMMA HeadPlaced ==
    ASSUME Typed, OnTheWay, Once, Placed, NEW t \in Tasks, hand[t] # <<>>, Next1(t),
           UNCHANGED <<events, seen, gone, at, calls>>,
           Grows({Head(hand[t])}) \/ (UNCHANGED steps /\ Head1(t).kind \notin {"click", "fill"})
    PROVE  Placed'
<1> DEFINE h == Head(hand[t])
<1>1. /\ \A u \in Tasks : u # t => hand'[u] = hand[u]
      /\ \A e \in Range(hand[t]) : events[e].kind # "file" /\ e # h => e \in Range(hand'[t])
    BY HeadGone
<1>2. Grows({h}) \/ (UNCHANGED steps /\ events[h].kind \notin {"click", "fill"}) BY DEF Head1
<1> HIDE DEF h
<1>3. ASSUME NEW e \in Happened, Captured(e), InGraph(e) \/ Held(e) PROVE InGraph(e)' \/ Held(e)'
  <2>1. Somewhere(steps, e) => Somewhere(steps', e) BY <1>2 DEF Grows, Adds
  <2>2. CASE InGraph(e) BY <2>1, <2>2 DEF InGraph
  <2>3. CASE e = h
    <3>1. Somewhere(steps', e) BY <1>2, <1>3, <2>3 DEF Grows, Adds, Captured
    <3> QED BY <3>1 DEF InGraph
  <2>4. ASSUME NEW u \in Tasks, e \in Range(hand[u]), e # h PROVE InGraph(e)' \/ Held(e)'
    <3>1. e \in Range(hand'[u]) BY <1>1, <1>3, <2>4 DEF Captured
    <3> QED BY <3>1 DEF Held
  <2> QED BY <1>3, <2>2, <2>3, <2>4 DEF Held
<1> QED BY <1>3, PlaceKept DEF Working

\* What Receive leaves out of calls has a number that was taken by then.
LEMMA ReceivedSeen ==
    ASSUME NEW e \in Events, Receive(e), NEW f \in calls \ calls', Typed, OnTheWay
    PROVE  events[f].seq \in seen'
<1>1. f = e /\ e \in calls /\ IngestAll(e, New({e})) BY DEF Receive
<1>2. seen' = seen \cup {events[g].seq : g \in New({e})} BY <1>1 DEF IngestAll
<1>3. events[e].seq \in seen \/ e \in New({e}) BY DEF New
<1> QED BY <1>1, <1>2, <1>3

LEMMA PlacedStays == Typed /\ OnTheWay /\ Once /\ Placed /\ [Next]_vars => Placed'
<1> SUFFICES ASSUME Typed, OnTheWay, Once, Placed, [Next]_vars PROVE Placed' OBVIOUS
<1>0. hand \in [Tasks -> Seq(Events)] BY DEF Typed, TasksTyped
<1>s. Working' => Working
    BY StoppedFirst
<1>1. ASSUME UNCHANGED <<events, seen>>, calls \subseteq calls', gone \subseteq gone',
             \A e : Somewhere(steps, e) => Somewhere(steps', e),
             \A t \in Tasks : Range(hand[t]) \subseteq Range(hand'[t])
      PROVE  Placed'
  <2>1. ASSUME NEW e \in Happened, InGraph(e) \/ Held(e) PROVE InGraph(e)' \/ Held(e)'
      BY <1>1, <2>1 DEF InGraph, Held
  <2> QED BY <1>s, <1>1, <2>1, PlaceKept
<1>2. ASSUME UNCHANGED <<events, seen, calls, gone, steps, hand>> PROVE Placed'
    BY <1>1, <1>2 DEF Somewhere
<1>3. CASE Navigate \/ OpenFrame BY <1>2, <1>3 DEF Navigate, OpenFrame, graph
<1>4. ASSUME NEW d \in Docs, NEW kind \in Kinds, NEW el \in Elements, Act(d, kind, el) PROVE Placed'
  <2>1. PICK r \in EventRecords : events' = Append(events, r) /\ r.kind = kind BY <1>4, ActRecord
  <2>2. /\ Len(events) + 1 \in Events /\ UNCHANGED <<steps, gone, seen, at, hand>>
        /\ calls \subseteq calls' /\ (Len(events) + 1 \in calls' \/ kind = "file")
      BY <1>4 DEF Act, graph
  <2>3. Len(events) + 1 \in calls' \/ r.kind \notin {"click", "fill"} BY <2>1, <2>2
  <2>4. \A t \in Tasks : Range(hand[t]) \subseteq Range(hand'[t]) BY <2>2
  <2>5. calls \subseteq calls' BY <1>4 DEF Act
  <2> QED BY <2>1, <2>2, <2>3, <2>4, <2>5, NextPlaced
<1>5. ASSUME NEW e \in Events, Receive(e) PROVE Placed'
  <2>1. e \in calls /\ IngestAll(e, New({e})) /\ UNCHANGED <<events, steps, gone>>
      BY <1>5 DEF Receive, page, graph
  <2>2. e \in Tasks /\ hand[e] = <<>> BY <2>1, Ids DEF OnTheWay, Ready
  <2>3. New({e}) \in SUBSET Happened BY <2>1, NewHappened
  <2>4. \A f \in calls \ calls' : events[f].seq \in seen' BY <1>5, ReceivedSeen
  <2> QED BY <1>s, <2>1, <2>2, <2>3, <2>4, IngestedPlaced
<1>6. ASSUME NEW d \in Drainers, Drain(d) PROVE Placed' BY <1>2, <1>6 DEF Drain, graph
<1>7. ASSUME NEW d \in Drainers, Flushed(d) PROVE Placed'
  <2>1. /\ at[d] = "answered" /\ IngestAll(d, New(answer[d])) /\ UNCHANGED <<events, steps, gone, calls>>
      BY <1>7 DEF Flushed, page, graph
  <2>2. d \in Tasks /\ hand[d] = <<>> BY <2>1, Ids DEF OnTheWay, Ready
  <2>3. New(answer[d]) \in SUBSET Happened BY NewHappened
  <2>4. \A f \in calls \ calls' : events[f].seq \in seen' BY <2>1
  <2> QED BY <1>s, <2>1, <2>2, <2>3, <2>4, IngestedPlaced
<1>8. CASE PollDone BY <1>2, <1>8 DEF PollDone, page, graph
<1>9. ASSUME NEW t \in Tasks, Built(t) PROVE Placed'
  <2>1. hand[t] # <<>> /\ Next1(t) /\ UNCHANGED <<events, seen, gone, at, calls>> BY <1>9 DEF Built, page
  <2> QED BY <1>9, <2>1, BuiltGrows, HeadPlaced
<1>10. ASSUME NEW t \in Tasks, PickBuilt(t) PROVE Placed'
  <2>1. /\ hand[t] # <<>> /\ Next1(t) /\ UNCHANGED <<events, seen, gone, at, calls>>
        /\ Head1(t).kind = "pick"
      BY <1>10 DEF PickBuilt, page
  <2> QED BY <1>10, <2>1, PickGrows, HeadPlaced
<1>11. ASSUME NEW t \in Tasks, UploadBuilt(t) PROVE Placed'
  <2>1. hand[t] # <<>> /\ UNCHANGED <<events, seen, gone, at, calls>> /\ Head1(t).kind = "file"
      BY <1>11 DEF UploadBuilt, page
  <2>2. CASE Upload(t, 0) /\ Next1(t) BY <2>1, <2>2, UploadGrows, HeadPlaced
  <2>3. CASE hand' = hand /\ steps' = steps BY <1>2, <2>1, <2>3
  <2>4. CASE Next1(t) /\ steps' = steps BY <2>1, <2>4, HeadPlaced
  <2> QED BY <1>11, <2>2, <2>3, <2>4 DEF UploadBuilt, graph
<1>12. ASSUME NEW t \in Tasks, Uploaded(t) PROVE Placed'
  <2>1. /\ taken[t] # 0 /\ Upload(t, taken[t]) /\ Next1(t) /\ UNCHANGED <<events, seen, gone, at, calls>>
      BY <1>12 DEF Uploaded, page
  <2>2. hand[t] # <<>> /\ taken[t] \in Nat BY <2>1 DEF OnTheWay, HeldHappened, Typed, TasksTyped
  <2> QED BY <2>1, <2>2, UploadGrows, HeadPlaced
<1>13. ASSUME NEW e \in Events, ChooserHandled(e) \/ PanelTimesOut(e) PROVE Placed'
    BY <1>2, <1>13 DEF ChooserHandled, PanelTimesOut, page, graph
<1>14. CASE PanelAnswered \/ SkipEnds BY <1>2, <1>14 DEF PanelAnswered, SkipEnds, page, graph
<1>15. ASSUME NEW e \in Events, ChooserRecorded(e) PROVE Placed'
  <2>1. UNCHANGED <<events, seen, hand, gone, calls>> BY <1>15 DEF ChooserRecorded, page
  <2>2. Grows({e}) \/ UNCHANGED <<steps, edges, made>> BY <1>15, ChooserGrows
  <2>3. \A f : Somewhere(steps, f) => Somewhere(steps', f) BY <2>2 DEF Grows, Adds, Somewhere
  <2> QED BY <1>1, <2>1, <2>3
<1>16. CASE ToggleArm \/ SetPending \/ CancelPick
    BY <1>2, <1>16 DEF ToggleArm, SetPending, CancelPick, Control
<1>17. CASE AddStep
  <2>1. UNCHANGED <<events, seen, hand, gone, calls>> BY <1>17 DEF AddStep, Control
  <2>2. \A f : Somewhere(steps, f) => Somewhere(steps', f) BY <1>17, AddedGrows DEF Grows, Adds
  <2> QED BY <1>1, <2>1, <2>2
<1>18. ASSUME NEW el \in Elements, Pick(el) PROVE Placed'
  <2>1. PICK r \in EventRecords : events' = Append(events, r) /\ r.kind = "pick" BY <1>18, PickRecord
  <2>2. /\ Len(events) + 1 \in Events /\ UNCHANGED <<steps, gone, seen, at, calls>>
        /\ hand' = [hand EXCEPT ![Len(events) + 1] = <<Len(events) + 1>>]
      BY <1>18 DEF Pick, Control
  <2>3. hand[Len(events) + 1] = <<>>
    <3>1. Len(events) + 1 \notin Happened BY <2>1, <2>2, NextEvent
    <3> QED BY <2>2, <3>1 DEF OnTheWay, Ready
  <2>4. \A t \in Tasks : hand'[t] = hand[t] \/ hand[t] = <<>> BY <1>0, <2>2, <2>3
  <2>5. \A t \in Tasks : Range(hand[t]) \subseteq Range(hand'[t]) BY <2>4, InjectiveSmall
  <2>6. r.kind \notin {"click", "fill"} BY <2>1
  <2> QED BY <2>1, <2>2, <2>5, <2>6, NextPlaced
<1>19. ASSUME NEW i \in DOMAIN steps, DeleteStep(i) \/ MoveStep(i) PROVE Placed'
  <2>0. GraphTyped /\ UNCHANGED <<events, seen, hand, calls, at>>
      BY <1>19 DEF Typed, DeleteStep, MoveStep, Control
  <2>1. \A e : InGraph(e) => InGraph(e)'
    <3>1. CASE DeleteStep(i)
      <4>1. steps' = RemoveAt(steps, i) /\ gone' = gone \cup steps[i].from BY <3>1 DEF DeleteStep
      <4>2. \A e : Somewhere(steps, e) => Somewhere(steps', e) \/ e \in steps[i].from
          BY <2>0, <4>1, RemovedStep
      <4> QED BY <4>1, <4>2 DEF InGraph
    <3>2. CASE MoveStep(i)
      <4>1. /\ i \in 1..(Len(steps) - 1) /\ gone' = gone
            /\ steps' = [steps EXCEPT ![i] = steps[i + 1], ![i + 1] = steps[i]]
          BY <3>2 DEF MoveStep
      <4>2. \A e : Somewhere(steps, e) => Somewhere(steps', e) BY <2>0, <4>1, MovedStep
      <4> QED BY <4>1, <4>2 DEF InGraph
    <3> QED BY <1>19, <3>1, <3>2
  <2>2. \A e : Held(e)' <=> Held(e) BY <2>0 DEF Held
  <2> QED BY <2>0, <2>1, <2>2, PlaceKept DEF Working
<1>20. CASE Stop BY <1>2, <1>20 DEF Stop, page, graph
<1>21. CASE Write
  <2>1. ~Working' BY <1>21, Ids DEF Write, Working
  <2> QED BY <1>21, <2>1, PlaceKept DEF Write, page
<1>22. CASE Close
  <2>1. at'[Stopping] = "closed" BY <1>22, Ids DEF Close, Typed, TasksTyped
  <2> QED BY <1>22, <2>1, PlaceKept DEF Close, Working, page
<1>24. ASSUME NEW d \in Drainers, Dies(d) PROVE Placed'
  <2>1. at'[d] = IF d = Poll THEN "dead" ELSE "ended" BY <1>24 DEF Dies, Typed, TasksTyped
  <2>2. ~Working' BY <2>1, Ids DEF Working, Drainers
  <2> QED BY <1>24, <2>2, PlaceKept DEF Dies, page
<1>23. CASE UNCHANGED vars BY <1>2, <1>23 DEF vars, page, graph
<1> QED BY <1>3, <1>4, <1>5, <1>6, <1>7, <1>8, <1>9, <1>10, <1>11, <1>12, <1>13, <1>14, <1>15, <1>16,
           <1>17, <1>18, <1>19, <1>20, <1>21, <1>22, <1>23, <1>24 DEF Next, Page, Arriving, Building,
           Choosing, Controls, Ending

LEMMA PlacedInit == Init => Placed
<1> SUFFICES ASSUME Init PROVE Placed OBVIOUS
<1>1. events = <<>> /\ seen = {} BY DEF Init
<1> QED BY <1>1 DEF Placed, Happened

LEMMA QuietRecorded == Placed => FirstOfItsNumberIsRecorded
<1> SUFFICES ASSUME Placed, Quiet, NEW e \in DOMAIN events, Captured(e),
                    \A f \in DOMAIN events : f # e => events[f].seq # events[e].seq
             PROVE  Recorded(e)
    BY DEF FirstOfItsNumberIsRecorded
<1>1. Found(e) /\ Alone(e) BY DEF Placed, Quiet, Working, Alone, Happened
<1>2. ~Held(e) BY InjectiveSmall DEF Quiet, Held
<1>3. InGraph(e) BY <1>1, <1>2 DEF Found, Quiet
<1> QED BY <1>3 DEF InGraph, Somewhere, Recorded, Sources

\* _ingest_capture: an event whose number no other one has is in the graph when
\* nothing is under way, whichever of its two ways it was lost on.
THEOREM FirstIsRecorded == Spec => []FirstOfItsNumberIsRecorded
BY TypedInit, OnTheWayInit, OnceInit, PlacedInit, TypedAndOnTheWay, OnceStays, PlacedStays,
   QuietRecorded, PTL DEF Spec

=============================================================================
