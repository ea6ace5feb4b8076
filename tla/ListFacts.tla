------------------------------ MODULE ListFacts --------------------------------
(*****************************************************************************)
(* What the operators on lists of steps and of candidates return, for lists  *)
(* of every length: the facts that the proofs of the components cite.        *)
(*****************************************************************************)
EXTENDS ListOps, SequencesExt, WellFoundedInduction, TLAPS

\* Every set of numbers that is not empty has a least one: what the inductions over
\* the length of a list rest on.
LEMMA LeastNat ==
    ASSUME NEW S \in SUBSET Nat, S # {}
    PROVE  \E n \in S : \A m \in S : n <= m
<1> DEFINE R == OpToRel(<, Nat)
<1>1. IsWellFoundedOn(R, Nat) BY NatLessThanWellFounded
<1>2. \A x, y \in Nat : x < y => <<x, y>> \in R BY DEF OpToRel
<1> HIDE DEF R
<1>3. PICK n \in S : \A m \in S : <<m, n>> \notin R BY <1>1, WFMin
<1>4. \A m \in S : ~(m < n) BY <1>2, <1>3
<1> QED BY <1>4

\* g[i] is what the first i elements of the list leave.
KeptUpTo(list, T, n, g) ==
    g = [i \in 0..n |->
            IF i = 0 THEN <<>>
            ELSE IF list[i] \in T THEN Append(g[i - 1], list[i]) ELSE g[i - 1]]

\* The recursion of Keep has a solution, for lists of every length ...
LEMMA KeptExists ==
    ASSUME NEW list, NEW T, NEW len \in Nat
    PROVE  \E g : KeptUpTo(list, T, len, g)
<1> DEFINE Good(n, g) == KeptUpTo(list, T, n, g)
           Bad == {n \in Nat : ~\E g : Good(n, g)}
<1>1. Good(0, [i \in 0..0 |-> <<>>]) BY DEF KeptUpTo
<1>2. ASSUME NEW n \in Nat, NEW h, Good(n, h) PROVE \E g : Good(n + 1, g)
  <2> DEFINE e == IF list[n + 1] \in T THEN Append(h[n], list[n + 1]) ELSE h[n]
             g == [i \in 0..(n + 1) |-> IF i = n + 1 THEN e ELSE h[i]]
  <2>1. ASSUME NEW i \in 0..(n + 1)
        PROVE  g[i] = IF i = 0 THEN <<>>
                      ELSE IF list[i] \in T THEN Append(g[i - 1], list[i]) ELSE g[i - 1]
    <3>1. CASE i = n + 1
      <4>1. g[i] = e /\ g[i - 1] = h[n] BY <3>1
      <4> QED BY <3>1, <4>1
    <3>2. CASE i = 0 BY <3>2, <1>2 DEF KeptUpTo
    <3>3. CASE i \in 1..n
      <4>1. g[i] = h[i] /\ g[i - 1] = h[i - 1] /\ i \in 0..n /\ i # 0 BY <3>3
      <4>2. h[i] = IF list[i] \in T THEN Append(h[i - 1], list[i]) ELSE h[i - 1]
          BY <4>1, <1>2 DEF KeptUpTo
      <4> QED BY <4>1, <4>2
    <3> QED BY <3>1, <3>2, <3>3
  <2>2. Good(n + 1, g) BY <2>1 DEF KeptUpTo
  <2> QED BY <2>2
<1> HIDE DEF Good
<1>3. Bad = {}
  <2> SUFFICES ASSUME Bad # {} PROVE FALSE OBVIOUS
  <2>0. Bad \in SUBSET Nat OBVIOUS
  <2>1. PICK n \in Bad : \A m \in Bad : n <= m BY <2>0, LeastNat
  <2>2. n # 0 BY <1>1, <2>1
  <2>3. n - 1 \in Nat /\ n - 1 \notin Bad BY <2>0, <2>1, <2>2
  <2>4. PICK h : Good(n - 1, h) BY <2>3
  <2>5. \E g : Good((n - 1) + 1, g) BY <1>2, <2>3, <2>4
  <2> QED BY <2>0, <2>1, <2>5
<1> QED BY <1>3 DEF Good

\* ... which leaves of the first n elements those that are in T.
LEMMA KeptElements ==
    ASSUME NEW S, NEW list \in Seq(S), NEW T, NEW g, KeptUpTo(list, T, Len(list), g),
           NEW n \in 0..Len(list)
    PROVE  /\ g[n] \in Seq(S) /\ Len(g[n]) <= n
           /\ \A x : (\E i \in 1..Len(g[n]) : g[n][i] = x)
                     <=> x \in T /\ \E i \in 1..n : list[i] = x
<1> DEFINE Good(k) == /\ g[k] \in Seq(S) /\ Len(g[k]) <= k
                      /\ \A x : (\E i \in 1..Len(g[k]) : g[k][i] = x)
                                <=> x \in T /\ \E i \in 1..k : list[i] = x
           Bad == {k \in 0..Len(list) : ~Good(k)}
<1>0. Len(list) \in Nat OBVIOUS
<1>1. Good(0) BY DEF KeptUpTo
<1>2. ASSUME NEW k \in 0..Len(list), k # 0, Good(k - 1) PROVE Good(k)
  <2>1. k - 1 \in 0..Len(list) /\ k \in 1..Len(list) BY <1>2
  <2>2. g[k] = IF list[k] \in T THEN Append(g[k - 1], list[k]) ELSE g[k - 1]
      BY <1>2 DEF KeptUpTo
  <2>3. list[k] \in S BY <2>1
  <2>4. 1..k = 1..(k - 1) \cup {k} BY <2>1
  <2>5. CASE list[k] \notin T
    <3>1. g[k] = g[k - 1] BY <2>2, <2>5
    <3> QED BY <1>2, <2>1, <2>4, <2>5, <3>1
  <2>6. CASE list[k] \in T
    <3> DEFINE h == g[k - 1]
    <3>1. g[k] = Append(h, list[k]) BY <2>2, <2>6
    <3>2. h \in Seq(S) /\ Len(h) <= k - 1 BY <1>2
    <3>3. \A x : (\E i \in 1..Len(h) : h[i] = x) <=> x \in T /\ \E i \in 1..(k - 1) : list[i] = x
        BY <1>2
    <3> HIDE DEF h, Good
    <3>4. /\ g[k] \in Seq(S) /\ Len(g[k]) = Len(h) + 1 /\ Len(h) \in Nat
          /\ \A i \in 1..Len(h) : g[k][i] = h[i]
          /\ g[k][Len(h) + 1] = list[k]
        BY <2>3, <3>1, <3>2
    <3>5. Len(g[k]) <= k BY <2>1, <3>2, <3>4
    <3>6. 1..Len(g[k]) = 1..Len(h) \cup {Len(h) + 1} BY <3>4
    <3>7. ASSUME NEW x
          PROVE  (\E i \in 1..Len(g[k]) : g[k][i] = x)
                 <=> (\E i \in 1..Len(h) : h[i] = x) \/ x = list[k]
        BY <3>4, <3>6
    <3>8. ASSUME NEW x
          PROVE  (\E i \in 1..k : list[i] = x)
                 <=> (\E i \in 1..(k - 1) : list[i] = x) \/ x = list[k]
        BY <2>4
    <3>9. \A x : (\E i \in 1..Len(g[k]) : g[k][i] = x) <=> x \in T /\ \E i \in 1..k : list[i] = x
        BY <2>6, <3>3, <3>7, <3>8
    <3> QED BY <3>4, <3>5, <3>9 DEF Good
  <2> QED BY <2>5, <2>6
<1> HIDE DEF Good
<1>3. Bad = {}
  <2> SUFFICES ASSUME Bad # {} PROVE FALSE OBVIOUS
  <2>0. Bad \in SUBSET Nat OBVIOUS
  <2>1. PICK k \in Bad : \A m \in Bad : k <= m BY <2>0, LeastNat
  <2>2. k # 0 BY <1>1, <2>1
  <2>3. k - 1 \in 0..Len(list) /\ k - 1 \notin Bad BY <2>0, <2>1, <2>2
  <2>4. Good(k - 1) BY <2>3
  <2> QED BY <1>2, <2>1, <2>2, <2>4
<1>4. Good(n) BY <1>3
<1> QED BY <1>4 DEF Good

\* Keep returns the elements that are in T, and no other.
LEMMA KeepKeeps ==
    ASSUME NEW S, NEW list \in Seq(S), NEW T
    PROVE  /\ Keep(list, T) \in Seq(S) /\ Len(Keep(list, T)) <= Len(list)
           /\ \A x : (\E i \in 1..Len(Keep(list, T)) : Keep(list, T)[i] = x)
                     <=> x \in T /\ \E i \in 1..Len(list) : list[i] = x
<1> DEFINE g == CHOOSE f : KeptUpTo(list, T, Len(list), f)
<1>1. KeptUpTo(list, T, Len(list), g)
  <2>1. Len(list) \in Nat OBVIOUS
  <2> QED BY <2>1, KeptExists
<1>2. Keep(list, T) = g[Len(list)] BY Zenon DEF Keep, KeptUpTo
<1>3. Len(list) \in 0..Len(list) OBVIOUS
<1> HIDE DEF g
<1> QED BY <1>1, <1>2, <1>3, KeptElements

\* The same, of the set of elements.
LEMMA KeepRange ==
    ASSUME NEW S, NEW list \in Seq(S), NEW T
    PROVE  Keep(list, T) \in Seq(S) /\ Range(Keep(list, T)) = Range(list) \cap T
<1>1. /\ Keep(list, T) \in Seq(S)
      /\ \A x : (\E i \in 1..Len(Keep(list, T)) : Keep(list, T)[i] = x)
                <=> x \in T /\ \E i \in 1..Len(list) : list[i] = x
    BY KeepKeeps
<1>2. DOMAIN Keep(list, T) = 1..Len(Keep(list, T)) /\ DOMAIN list = 1..Len(list) BY <1>1
<1> QED BY <1>1, <1>2 DEF Range

\* An insertion adds one element.
LEMMA InsertRange ==
    ASSUME NEW S, NEW list \in Seq(S), NEW at \in 1..(Len(list) + 1), NEW id \in S
    PROVE  /\ InsertAt(list, at, id) \in Seq(S)
           /\ Range(InsertAt(list, at, id)) \subseteq Range(list) \cup {id}
<1> DEFINE before == SubSeq(list, 1, at - 1)
           behind == SubSeq(list, at, Len(list))
<1>1. /\ before \in Seq(S) /\ behind \in Seq(S)
      /\ \A i \in 1..Len(before) : before[i] \in Range(list)
      /\ \A i \in 1..Len(behind) : behind[i] \in Range(list)
    BY DEF Range
<1>2. InsertAt(list, at, id) = before \o <<id>> \o behind BY DEF InsertAt
<1> HIDE DEF before, behind
<1>3. \A i \in 1..Len(before \o <<id>> \o behind) :
        (before \o <<id>> \o behind)[i] \in Range(list) \cup {id}
    BY <1>1
<1>4. before \o <<id>> \o behind \in Seq(S) BY <1>1
<1> QED BY <1>2, <1>3, <1>4 DEF Range

=============================================================================
