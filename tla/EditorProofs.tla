----------------------------- MODULE EditorProofs ------------------------------
(*****************************************************************************)
(* What is proved of the parts in which a person edits a test: the rounds    *)
(* of the model in the panel, the list of steps that the panels show, and    *)
(* the interactive replay of the dashboard.                                  *)
(*****************************************************************************)
EXTENDS LlmRounds, PanelVersions, InteractiveReplay, ListFacts, FiniteSetTheorems

-----------------------------------------------------------------------------
(*****************************************************************************)
(* LlmRounds, for every number of panels, of attempts in an answer, of       *)
(* clicks and of answers.                                                    *)
(*****************************************************************************)

Statuses == {"error", "executing", "passed", "failed"}

\* The state of Assist in a panel is a record of these fields.
Formed(s) ==
    /\ s = [waiting |-> s.waiting, pending |-> s.pending, tried |-> s.tried,
            offered |-> s.offered, timers |-> s.timers]
    /\ s.tried \in Int /\ s.timers \in Nat

\* The rounds a panel can still start without a click on Ask: one for each
\* running timer, one for an offer that may turn out wrong.
Chances(s) == s.timers + IF s.offered THEN 1 ELSE 0

\* Each of them, and each that was started, is for an attempt that was heard of.
RoundsEarned ==
    /\ assist \in [Panels -> {assist[p] : p \in Panels}]
    /\ asked \in [Panels -> [Kinds -> Int]]
    /\ \A p \in Panels : /\ Formed(assist[p])
                         /\ asked[p]["assist"] + Chances(assist[p]) <= assist[p].tried
                         /\ asked[p]["assist"] <= MaxAuto

LEMMA ChancesNat == ASSUME NEW s, Formed(s) PROVE Chances(s) \in Nat
<1>1. CASE s.offered BY <1>1 DEF Chances, Formed
<1>2. CASE ~s.offered BY <1>2 DEF Chances, Formed
<1> QED BY <1>1, <1>2

(* An announcement adds a chance only together with an attempt.             *)
LEMMA HearsShape ==
    ASSUME NEW s, Formed(s), NEW m, m.status \in Statuses
    PROVE  /\ Formed(AssistHears(s, m))
           /\ Chances(AssistHears(s, m)) - Chances(s)
              <= AssistHears(s, m).tried - s.tried
<1> DEFINE r == AssistHears(s, m)
<1>0. s.tried \in Int /\ s.timers \in Nat /\ Chances(s) \in Nat BY ChancesNat DEF Formed
<1>1. ASSUME Formed(r), r.timers = s.timers, r.offered = s.offered, r.tried - s.tried >= 0
      PROVE  Chances(r) - Chances(s) <= r.tried - s.tried
  <2>1. Chances(r) = Chances(s) BY <1>1 DEF Chances
  <2> QED BY <1>0, <1>1, <2>1 DEF Formed
<1>2. CASE m.status = "error"
  <2>1. r = [s EXCEPT !.waiting = FALSE, !.pending = 0] BY <1>2 DEF AssistHears
  <2>2. Formed(r) /\ r.timers = s.timers /\ r.offered = s.offered /\ r.tried = s.tried
      BY <2>1 DEF Formed
  <2> QED BY <1>0, <1>1, <2>2
<1>3. CASE m.status = "executing"
  <2>1. r = [s EXCEPT !.pending = Remaining(m)] BY <1>3 DEF AssistHears
  <2>2. Formed(r) /\ r.timers = s.timers /\ r.offered = s.offered /\ r.tried = s.tried
      BY <2>1 DEF Formed
  <2> QED BY <1>0, <1>1, <2>2
<1>4. CASE m.status = "passed"
  <2>1. r = [s EXCEPT !.tried = s.tried + 1, !.pending = 0, !.waiting = FALSE,
                      !.offered = TRUE]
      BY <1>4 DEF AssistHears
  <2>2. s.tried + 1 \in Int BY <1>0
  <2>3. /\ Formed(r) /\ r.timers = s.timers /\ r.offered = TRUE
        /\ r.tried = s.tried + 1
      BY <2>1, <2>2 DEF Formed
  <2>4. Chances(r) = s.timers + 1 BY <2>3 DEF Chances
  <2>5. Chances(s) >= s.timers
    <3>1. CASE s.offered BY <1>0, <3>1 DEF Chances
    <3>2. CASE ~s.offered BY <1>0, <3>2 DEF Chances
    <3> QED BY <3>1, <3>2
  <2>6. Chances(r) - Chances(s) <= r.tried - s.tried BY <1>0, <2>3, <2>4, <2>5
  <2> QED BY <2>3, <2>6
<1>5. CASE m.status = "failed" /\ LastOne(s)
  <2>1. r = [s EXCEPT !.tried = s.tried + 1, !.pending = 0, !.waiting = FALSE,
                      !.timers = s.timers + 1]
      BY <1>5 DEF AssistHears
  <2>2. s.tried + 1 \in Int /\ s.timers + 1 \in Nat BY <1>0
  <2>3. /\ Formed(r) /\ r.timers = s.timers + 1 /\ r.offered = s.offered
        /\ r.tried = s.tried + 1
      BY <2>1, <2>2 DEF Formed
  <2>4. Chances(r) = Chances(s) + 1
    <3>1. CASE s.offered BY <1>0, <2>3, <3>1 DEF Chances
    <3>2. CASE ~s.offered BY <1>0, <2>3, <3>2 DEF Chances
    <3> QED BY <3>1, <3>2
  <2>5. Chances(r) - Chances(s) <= r.tried - s.tried BY <1>0, <2>3, <2>4
  <2> QED BY <2>3, <2>5
<1>6. CASE m.status = "failed" /\ ~LastOne(s)
  <2>1. r = [s EXCEPT !.tried = s.tried + 1, !.pending = s.pending - 1]
      BY <1>6 DEF AssistHears
  <2>2. s.tried + 1 \in Int BY <1>0
  <2>3. /\ Formed(r) /\ r.timers = s.timers /\ r.offered = s.offered
        /\ r.tried = s.tried + 1
      BY <2>1, <2>2 DEF Formed
  <2> QED BY <1>0, <1>1, <2>3
<1> QED BY <1>2, <1>3, <1>4, <1>5, <1>6 DEF Statuses

(* What a panel announces to all keeps every count, and the rounds a panel  *)
(* asked for by itself change for Build only, where it was not stopped.     *)
LEMMA AnnounceStep ==
    ASSUME RoundsEarned, NEW k, NEW m, m.status \in Statuses, Announce(k, m)
    PROVE  /\ RoundsEarned'
           /\ \A p \in Panels : build[p].stopped => asked'[p]["build"] = asked[p]["build"]
<1>1. CASE k = "assist"
  <2>1. /\ assist' = [p \in Panels |-> AssistHears(assist[p], m)]
        /\ UNCHANGED <<build, inbox, asked>>
      BY <1>1 DEF Announce
  <2>2. ASSUME NEW p \in Panels
        PROVE  /\ Formed(assist'[p])
               /\ asked'[p]["assist"] + Chances(assist'[p]) <= assist'[p].tried
               /\ asked'[p]["assist"] <= MaxAuto
    <3>1. assist'[p] = AssistHears(assist[p], m) BY <2>1
    <3>2. Formed(assist[p]) BY DEF RoundsEarned
    <3>3. /\ Formed(assist'[p])
          /\ Chances(assist'[p]) - Chances(assist[p]) <= assist'[p].tried - assist[p].tried
        BY <3>1, <3>2, HearsShape
    <3>4. /\ Chances(assist'[p]) \in Nat /\ Chances(assist[p]) \in Nat
          /\ assist'[p].tried \in Int /\ assist[p].tried \in Int
        BY <3>2, <3>3, ChancesNat DEF Formed
    <3>5. /\ asked[p]["assist"] + Chances(assist[p]) <= assist[p].tried
          /\ asked[p]["assist"] <= MaxAuto /\ asked[p]["assist"] \in Int
        BY DEF RoundsEarned, Kinds
    <3> QED BY <2>1, <3>3, <3>4, <3>5
  <2>3. assist' \in [Panels -> {assist'[p] : p \in Panels}] BY <2>1
  <2> QED BY <2>1, <2>2, <2>3 DEF RoundsEarned
<1>2. CASE k # "assist"
  <2> DEFINE again == {p \in Panels : AsksAgain(build[p], m)}
  <2>1. /\ UNCHANGED assist
        /\ asked' = [p \in Panels |-> IF p \in again
                                      THEN [asked[p] EXCEPT !["build"] = asked[p]["build"] + 1]
                                      ELSE asked[p]]
      BY <1>2 DEF Announce
  <2>2. ASSUME NEW p \in Panels
        PROVE  /\ asked'[p] \in [Kinds -> Int] /\ asked'[p]["assist"] = asked[p]["assist"]
               /\ p \notin again => asked'[p] = asked[p]
    <3>1. asked[p] \in [Kinds -> Int] BY DEF RoundsEarned
    <3>2. asked[p]["build"] + 1 \in Int BY <3>1 DEF Kinds
    <3>3. CASE p \in again
      <4>1. asked'[p] = [asked[p] EXCEPT !["build"] = asked[p]["build"] + 1] BY <2>1, <3>3
      <4> QED BY <3>1, <3>2, <3>3, <4>1 DEF Kinds
    <3>4. CASE p \notin again BY <2>1, <3>1, <3>4
    <3> QED BY <3>3, <3>4
  <2>3. asked' \in [Panels -> [Kinds -> Int]] BY <2>1, <2>2
  <2>4. \A p \in Panels : build[p].stopped => p \notin again BY DEF AsksAgain
  <2> QED BY <2>1, <2>2, <2>3, <2>4 DEF RoundsEarned
<1> QED BY <1>1, <1>2

BuildAskedKept == \A p \in Panels : build[p].stopped => asked'[p]["build"] = asked[p]["build"]

(* A round that a panel starts by itself uses up a chance.                  *)
LEMMA NextRoundStep ==
    ASSUME RoundsEarned, NEW p \in Panels, NEW s, Formed(s), NextRound(p, s),
           asked[p]["assist"] + Chances(s) + 1 <= s.tried
    PROVE  RoundsEarned' /\ BuildAskedKept
<1> USE RoundsAssumption
<1>1. /\ Chances(s) \in Nat /\ asked[p] \in [Kinds -> Int] /\ asked[p]["assist"] \in Int
      /\ asked[p]["assist"] <= MaxAuto /\ s.tried \in Int /\ MaxAuto \in Nat
    BY ChancesNat DEF RoundsEarned, Formed, Kinds
<1>2. CASE s.tried >= MaxAuto
  <2>1. assist' = [assist EXCEPT ![p] = s] /\ asked' = asked BY <1>2 DEF NextRound
  <2>2. asked[p]["assist"] + Chances(s) <= s.tried BY <1>1
  <2>3. assist'[p] = s /\ \A q \in Panels \ {p} : assist'[q] = assist[q]
      BY <2>1 DEF RoundsEarned
  <2>4. assist' \in [Panels -> {assist'[q] : q \in Panels}] BY <2>1 DEF RoundsEarned
  <2> QED BY <1>1, <2>1, <2>2, <2>3, <2>4 DEF RoundsEarned, BuildAskedKept
<1>3. CASE ~(s.tried >= MaxAuto)
  <2> DEFINE r == [s EXCEPT !.waiting = TRUE, !.pending = 0]
  <2>1. /\ assist' = [assist EXCEPT ![p] = r]
        /\ asked' = [asked EXCEPT ![p]["assist"] = asked[p]["assist"] + 1]
        /\ r = [s EXCEPT !.waiting = TRUE, !.pending = 0]
      BY <1>3 DEF NextRound
  <2> HIDE DEF r
  <2>2. /\ Formed(r) /\ r.timers = s.timers /\ r.offered = s.offered /\ r.tried = s.tried
      BY <2>1 DEF Formed
  <2>3. Chances(r) = Chances(s) BY <2>2 DEF Chances
  <2>4. assist'[p] = r /\ \A q \in Panels \ {p} : assist'[q] = assist[q]
      BY <2>1 DEF RoundsEarned
  <2>5. assist' \in [Panels -> {assist'[q] : q \in Panels}] BY <2>1 DEF RoundsEarned
  <2>6. /\ asked' \in [Panels -> [Kinds -> Int]]
        /\ asked'[p]["assist"] = asked[p]["assist"] + 1
        /\ asked'[p]["build"] = asked[p]["build"]
        /\ \A q \in Panels \ {p} : asked'[q] = asked[q]
      BY <1>1, <2>1 DEF RoundsEarned, Kinds
  <2>7. asked'[p]["assist"] + Chances(r) <= r.tried /\ asked'[p]["assist"] <= MaxAuto
      BY <1>1, <1>3, <2>2, <2>3, <2>6
  <2>8. \A q \in Panels : /\ Formed(assist'[q])
                          /\ asked'[q]["assist"] + Chances(assist'[q]) <= assist'[q].tried
                          /\ asked'[q]["assist"] <= MaxAuto
    <3> TAKE q \in Panels
    <3>1. CASE q = p BY <2>2, <2>4, <2>7, <3>1
    <3>2. CASE q # p BY <2>4, <2>6, <3>2 DEF RoundsEarned
    <3> QED BY <3>1, <3>2
  <2>9. BuildAskedKept BY <2>6 DEF BuildAskedKept
  <2> QED BY <2>5, <2>6, <2>8, <2>9 DEF RoundsEarned
<1> QED BY <1>2, <1>3

(* Withdrawing an offer costs a chance.                                     *)
LEMMA OfferGone ==
    ASSUME NEW s, Formed(s), s.offered
    PROVE  LET r == [s EXCEPT !.offered = FALSE]
           IN  Formed(r) /\ r.tried = s.tried /\ Chances(r) + 1 = Chances(s)
<1> DEFINE r == [s EXCEPT !.offered = FALSE]
<1>0. r = [s EXCEPT !.offered = FALSE] OBVIOUS
<1> HIDE DEF r
<1>1. Formed(r) /\ r.tried = s.tried /\ r.timers = s.timers /\ r.offered = FALSE
    BY <1>0 DEF Formed
<1>2. Chances(r) = r.timers /\ Chances(s) = s.timers + 1 BY <1>1 DEF Chances, Formed
<1>3. r.timers \in Nat BY <1>1 DEF Formed
<1>4. Formed(r) /\ r.tried = s.tried /\ Chances(r) + 1 = Chances(s) BY <1>1, <1>2, <1>3
<1> QED BY <1>4 DEF r

(* Where a panel's state of Assist becomes one with no more chances.        *)
LEMMA AssistOnly ==
    ASSUME RoundsEarned, NEW p \in Panels, NEW s, Formed(s),
           s.tried = assist[p].tried, Chances(s) <= Chances(assist[p]),
           assist' = [assist EXCEPT ![p] = s], UNCHANGED asked
    PROVE  RoundsEarned' /\ BuildAskedKept
<1>1. assist'[p] = s /\ \A q \in Panels \ {p} : assist'[q] = assist[q] BY DEF RoundsEarned
<1>2. assist' \in [Panels -> {assist'[q] : q \in Panels}] BY DEF RoundsEarned
<1>3. asked[p]["assist"] + Chances(s) <= s.tried
  <2>1. /\ Chances(s) \in Nat /\ Chances(assist[p]) \in Nat /\ s.tried \in Int
        /\ asked[p]["assist"] \in Int
        /\ asked[p]["assist"] + Chances(assist[p]) <= assist[p].tried
      BY ChancesNat DEF RoundsEarned, Formed, Kinds
  <2> QED BY <2>1
<1>4. \A q \in Panels : /\ Formed(assist'[q])
                        /\ asked'[q]["assist"] + Chances(assist'[q]) <= assist'[q].tried
                        /\ asked'[q]["assist"] <= MaxAuto
  <2> TAKE q \in Panels
  <2>1. CASE q = p BY <1>1, <1>3, <2>1 DEF RoundsEarned
  <2>2. CASE q # p BY <1>1, <2>2 DEF RoundsEarned
  <2> QED BY <2>1, <2>2
<1>5. BuildAskedKept BY DEF BuildAskedKept
<1> QED BY <1>2, <1>4, <1>5 DEF RoundsEarned

LEMMA RoundsStep ==
    RoundsEarned /\ [LlmNext]_llmVars => RoundsEarned' /\ BuildAskedKept
<1> SUFFICES ASSUME RoundsEarned, [LlmNext]_llmVars PROVE RoundsEarned' /\ BuildAskedKept
    OBVIOUS
<1>0. ASSUME UNCHANGED <<assist, asked>> PROVE RoundsEarned' /\ BuildAskedKept
    BY <1>0 DEF RoundsEarned, BuildAskedKept
<1>1. CASE UNCHANGED llmVars BY <1>0, <1>1 DEF llmVars
<1>2. ASSUME NEW p \in Panels, Serve(p) PROVE RoundsEarned' /\ BuildAskedKept
  <2>1. CASE Take(p) \/ Plan(p) BY <1>0, <2>1 DEF Take, Plan
  <2>2. ASSUME NEW m, m.status \in Statuses, Announce(serving[p].kind, m)
        PROVE  RoundsEarned' /\ BuildAskedKept
      BY <2>2, AnnounceStep DEF BuildAskedKept
  <2>3. CASE Refuse(p) \/ Breaks(p)
    <3>1. Announce(serving[p].kind, [status |-> "error"]) BY <2>3 DEF Refuse, Breaks
    <3> QED BY <2>2, <3>1 DEF Statuses
  <2>4. CASE Try(p)
    <3> DEFINE m == [status |-> "executing", at |-> serving[p].at,
                     total |-> serving[p].total]
    <3>1. Announce(serving[p].kind, m) BY <2>4 DEF Try
    <3>2. m.status \in Statuses BY DEF Statuses
    <3> HIDE DEF m
    <3> QED BY <2>2, <3>1, <3>2
  <2>5. CASE Passes(p)
    <3>1. Announce(serving[p].kind, [status |-> "passed"]) BY <2>5 DEF Passes
    <3> QED BY <2>2, <3>1 DEF Statuses
  <2>6. CASE Fails(p)
    <3>1. Announce(serving[p].kind, [status |-> "failed"]) BY <2>6 DEF Fails
    <3> QED BY <2>2, <3>1 DEF Statuses
  <2> QED BY <1>2, <2>1, <2>3, <2>4, <2>5, <2>6 DEF Serve, Asking, Trying
<1>3. ASSUME NEW p \in Panels, TimerFires(p) PROVE RoundsEarned' /\ BuildAskedKept
  <2> DEFINE s == [assist[p] EXCEPT !.timers = assist[p].timers - 1]
  <2>1. NextRound(p, s) /\ assist[p].timers > 0 BY <1>3 DEF TimerFires
  <2>2. Formed(assist[p]) BY DEF RoundsEarned
  <2>3. assist[p].timers - 1 \in Nat BY <2>1, <2>2 DEF Formed
  <2>4. /\ Formed(s) /\ s.tried = assist[p].tried /\ s.offered = assist[p].offered
        /\ s.timers = assist[p].timers - 1
      BY <2>2, <2>3 DEF Formed
  <2> HIDE DEF s
  <2>5. Chances(s) + 1 = Chances(assist[p])
    <3>1. CASE s.offered BY <2>2, <2>3, <2>4, <3>1 DEF Chances, Formed
    <3>2. CASE ~s.offered BY <2>2, <2>3, <2>4, <3>2 DEF Chances, Formed
    <3> QED BY <3>1, <3>2
  <2>6. asked[p]["assist"] + Chances(s) + 1 <= s.tried
    <3>1. Chances(s) \in Nat /\ asked[p]["assist"] \in Int /\ s.tried \in Int
        BY <2>4, ChancesNat DEF RoundsEarned, Kinds, Formed
    <3>2. asked[p]["assist"] + Chances(assist[p]) <= assist[p].tried BY DEF RoundsEarned
    <3> QED BY <2>4, <2>5, <3>1, <3>2
  <2> QED BY <2>1, <2>4, <2>6, NextRoundStep
<1>4. ASSUME NEW p \in Panels, StillBroken(p) PROVE RoundsEarned' /\ BuildAskedKept
  <2> DEFINE s == [assist[p] EXCEPT !.offered = FALSE]
  <2>1. NextRound(p, s) /\ assist[p].offered BY <1>4 DEF StillBroken
  <2>2. Formed(assist[p]) BY DEF RoundsEarned
  <2>3. Formed(s) /\ s.tried = assist[p].tried /\ Chances(s) + 1 = Chances(assist[p])
      BY <2>1, <2>2, OfferGone
  <2>4. asked[p]["assist"] + Chances(s) + 1 <= s.tried
    <3>1. Chances(s) \in Nat /\ asked[p]["assist"] \in Int /\ s.tried \in Int
        BY <2>3, ChancesNat DEF RoundsEarned, Kinds, Formed
    <3>2. asked[p]["assist"] + Chances(assist[p]) <= assist[p].tried BY DEF RoundsEarned
    <3> QED BY <2>3, <3>1, <3>2
  <2> HIDE DEF s
  <2> QED BY <2>1, <2>3, <2>4, NextRoundStep
<1>5. ASSUME NEW p \in Panels, Worked(p) PROVE RoundsEarned' /\ BuildAskedKept
  <2> DEFINE s == [assist[p] EXCEPT !.offered = FALSE]
  <2>1. assist' = [assist EXCEPT ![p] = s] /\ assist[p].offered /\ UNCHANGED asked
      BY <1>5 DEF Worked
  <2>2. Formed(assist[p]) BY DEF RoundsEarned
  <2>3. Formed(s) /\ s.tried = assist[p].tried /\ Chances(s) + 1 = Chances(assist[p])
      BY <2>1, <2>2, OfferGone
  <2>4. Chances(s) <= Chances(assist[p])
    <3>1. Chances(s) \in Nat BY <2>3, ChancesNat
    <3> QED BY <2>3, <3>1
  <2> HIDE DEF s
  <2> QED BY <2>1, <2>3, <2>4, AssistOnly
<1>6. ASSUME NEW p \in Panels, Ask(p) PROVE RoundsEarned' /\ BuildAskedKept
  <2> DEFINE s == [assist[p] EXCEPT !.waiting = TRUE, !.pending = 0, !.offered = FALSE]
  <2>1. assist' = [assist EXCEPT ![p] = s] /\ UNCHANGED asked BY <1>6 DEF Ask
  <2>0. s = [assist[p] EXCEPT !.waiting = TRUE, !.pending = 0, !.offered = FALSE] OBVIOUS
  <2> HIDE DEF s
  <2>2. Formed(assist[p]) BY DEF RoundsEarned
  <2>3. /\ Formed(s) /\ s.tried = assist[p].tried /\ s.timers = assist[p].timers
        /\ s.offered = FALSE
      BY <2>0, <2>2 DEF Formed
  <2>4. Chances(s) = s.timers BY <2>2, <2>3 DEF Chances, Formed
  <2>5. Chances(s) <= Chances(assist[p])
    <3>1. CASE assist[p].offered BY <2>2, <2>3, <2>4, <3>1 DEF Chances, Formed
    <3>2. CASE ~assist[p].offered BY <2>2, <2>3, <2>4, <3>2 DEF Chances, Formed
    <3> QED BY <3>1, <3>2
  <2> QED BY <2>1, <2>3, <2>5, AssistOnly
<1>7. ASSUME NEW p \in Panels, BuildRun(p) \/ BuildRetry(p) \/ BuildStop(p) \/ BuildInsert(p)
      PROVE  RoundsEarned' /\ BuildAskedKept
    BY <1>0, <1>7 DEF BuildRun, BuildRetry, BuildStop, BuildInsert
<1> QED BY <1>1, <1>2, <1>3, <1>4, <1>5, <1>6, <1>7 DEF LlmNext, UserClicks

LEMMA RoundsInit == LlmInit => RoundsEarned
<1> SUFFICES ASSUME LlmInit PROVE RoundsEarned OBVIOUS
<1> USE RoundsAssumption
<1>1. \A p \in Panels : assist[p] = [waiting |-> FALSE, pending |-> 0, tried |-> 0,
                                     offered |-> FALSE, timers |-> 0]
    BY DEF LlmInit
<1>2. \A p \in Panels : /\ Formed(assist[p])
                        /\ assist[p].timers = 0 /\ assist[p].offered = FALSE
                        /\ assist[p].tried = 0
    BY <1>1 DEF Formed
<1>3. \A p \in Panels : Chances(assist[p]) = 0 BY <1>2 DEF Chances
<1>4. /\ asked \in [Panels -> [Kinds -> Int]]
      /\ \A p \in Panels : asked[p]["assist"] = 0
    BY DEF LlmInit, Kinds
<1>5. assist \in [Panels -> {assist[p] : p \in Panels}] BY DEF LlmInit
<1> QED BY <1>2, <1>3, <1>4, <1>5 DEF RoundsEarned

(* LLM Assist starts no more rounds by itself than LA_MAX_AUTO_ITERATIONS,  *)
(* because every round it may still start is for an attempt it counted.     *)
THEOREM AutoRoundsStayBounded == LlmSpec => []AutoRoundsBounded
<1>1. RoundsEarned => AutoRoundsBounded BY DEF RoundsEarned, AutoRoundsBounded
<1> QED BY <1>1, RoundsInit, RoundsStep, PTL DEF LlmSpec

(* A panel whose user stopped LLM Build does not ask again by itself.       *)
THEOREM StopHonoured == LlmSpec => StopIsHonoured
<1>1. RoundsEarned /\ [LlmNext]_llmVars => [BuildAskedKept]_llmVars BY RoundsStep
<1> QED BY <1>1, RoundsInit, RoundsStep, PTL DEF LlmSpec, StopIsHonoured, BuildAskedKept

-----------------------------------------------------------------------------
(* Who waits, and for what. *)

AtWork(q) == serving[q].kind = "assist" /\ serving[q].stage \in {"next", "trying"}

\* The attempts of a round that were not announced as passed or failed.
ToMake(q) == serving[q].total - serving[q].at + 1

Served ==
    /\ inbox \in [Panels -> Seq(Kinds)]
    /\ serving \in [Panels -> [stage : {"idle", "asking", "next", "trying"},
                               kind : Kinds \cup {"none"}, total : Nat, at : Nat]]
    /\ \A q \in Panels :
         /\ serving[q].stage = "idle" <=> serving[q].kind = "none"
         /\ serving[q].stage \in {"next", "trying"} => serving[q].at <= serving[q].total

\* No panel expects more attempts than some round of Assist is still to make.
Expects ==
    \A p \in Panels :
        /\ assist[p].pending \in Int /\ assist[p].waiting \in BOOLEAN
        /\ assist[p].pending > 0 =>
             \E q \in Panels : AtWork(q) /\ assist[p].pending <= ToMake(q)

Awaits == RoundsEarned /\ Served /\ Expects /\ NobodyWaitsForNothing

\* What the wait of a panel becomes when it hears of an attempt.
LEMMA HearsPending ==
    ASSUME NEW s, Formed(s), NEW m, m.status \in Statuses, NEW r, r = AssistHears(s, m)
    PROVE  /\ m.status \in {"error", "passed"} => r.waiting = FALSE /\ r.pending = 0
           /\ m.status = "executing" => r.waiting = s.waiting /\ r.pending = Remaining(m)
           /\ m.status = "failed" =>
                \/ r.waiting = FALSE /\ r.pending = 0
                \/ ~LastOne(s) /\ r.waiting = s.waiting /\ r.pending = s.pending - 1
<1>1. CASE m.status = "error"
  <2>1. r = [s EXCEPT !.waiting = FALSE, !.pending = 0] BY <1>1 DEF AssistHears
  <2>2. r.waiting = FALSE /\ r.pending = 0 BY <2>1 DEF Formed
  <2> QED BY <1>1, <2>2
<1>2. CASE m.status = "executing"
  <2>1. r = [s EXCEPT !.pending = Remaining(m)] BY <1>2 DEF AssistHears
  <2>2. r.waiting = s.waiting /\ r.pending = Remaining(m) BY <2>1 DEF Formed
  <2> QED BY <1>2, <2>2
<1>3. CASE m.status = "passed"
  <2>1. r = [s EXCEPT !.tried = s.tried + 1, !.pending = 0, !.waiting = FALSE,
                      !.offered = TRUE]
      BY <1>3 DEF AssistHears
  <2>2. r.waiting = FALSE /\ r.pending = 0 BY <2>1 DEF Formed
  <2> QED BY <1>3, <2>2
<1>4. CASE m.status = "failed" /\ LastOne(s)
  <2>1. r = [s EXCEPT !.tried = s.tried + 1, !.pending = 0, !.waiting = FALSE,
                      !.timers = s.timers + 1]
      BY <1>4 DEF AssistHears
  <2>2. r.waiting = FALSE /\ r.pending = 0 BY <2>1 DEF Formed
  <2> QED BY <1>4, <2>2
<1>5. CASE m.status = "failed" /\ ~LastOne(s)
  <2>1. r = [s EXCEPT !.tried = s.tried + 1, !.pending = s.pending - 1]
      BY <1>5 DEF AssistHears
  <2>2. r.waiting = s.waiting /\ r.pending = s.pending - 1 BY <2>1 DEF Formed
  <2> QED BY <1>5, <2>2
<1> QED BY <1>1, <1>2, <1>3, <1>4, <1>5 DEF Statuses

LEMMA Queues ==
    ASSUME NEW s \in Seq(Kinds), NEW k \in Kinds
    PROVE  /\ Append(s, k) \in Seq(Kinds) /\ Contains(Append(s, k), k)
           /\ \A e : Contains(s, e) => Contains(Append(s, k), e)
           /\ s # <<>> => /\ Tail(s) \in Seq(Kinds) /\ Head(s) \in Kinds
                          /\ \A e : Contains(s, e) => e = Head(s) \/ Contains(Tail(s), e)
<1>1. /\ Append(s, k) \in Seq(Kinds) /\ Len(Append(s, k)) = Len(s) + 1 /\ Len(s) \in Nat
      /\ Append(s, k)[Len(s) + 1] = k
      /\ \A i \in 1..Len(s) : Append(s, k)[i] = s[i] /\ i \in 1..(Len(s) + 1)
      /\ Len(s) + 1 \in 1..(Len(s) + 1)
    OBVIOUS
<1>2. ASSUME s # <<>>
      PROVE  /\ Tail(s) \in Seq(Kinds) /\ Head(s) \in Kinds
             /\ \A e : Contains(s, e) => e = Head(s) \/ Contains(Tail(s), e)
  <2>1. /\ Tail(s) \in Seq(Kinds) /\ Len(Tail(s)) = Len(s) - 1 /\ Head(s) = s[1]
        /\ Head(s) \in Kinds /\ \A i \in 1..Len(Tail(s)) : Tail(s)[i] = s[i + 1]
      BY <1>2
  <2>2. ASSUME NEW i \in 1..Len(s), s[i] # Head(s) PROVE Contains(Tail(s), s[i])
    <3>1. i # 1 BY <2>1, <2>2
    <3>2. i - 1 \in 1..Len(Tail(s)) /\ Tail(s)[i - 1] = s[i] BY <2>1, <3>1
    <3> QED BY <3>2 DEF Contains
  <2> QED BY <2>1, <2>2 DEF Contains
<1> QED BY <1>1, <1>2 DEF Contains

\* A step that ends no round of Assist, and empties no inbox but into a round.
LEMMA StillAwaited ==
    ASSUME NobodyWaitsForNothing,
           \A q \in Panels : serving[q].kind = "assist" => serving'[q].kind = "assist",
           \A q \in Panels : Contains(inbox[q], "assist") =>
               Contains(inbox'[q], "assist") \/ serving'[q].kind = "assist",
           \A p \in Panels : assist'[p].waiting =>
               assist[p].waiting \/ \E q \in Panels : Contains(inbox'[q], "assist")
    PROVE  NobodyWaitsForNothing'
BY DEF NobodyWaitsForNothing

\* A step that moves no round on, or one of Build only.
LEMMA StillExpected ==
    ASSUME Expects,
           \A q \in Panels : AtWork(q) => AtWork(q)' /\ ToMake(q)' = ToMake(q),
           \A p \in Panels : /\ assist'[p].waiting \in BOOLEAN
                             /\ assist'[p].pending \in {0, assist[p].pending}
    PROVE  Expects'
BY DEF Expects

\* What the announcement of a round does to the waits of the panels.
LEMMA AnnouncedWaits ==
    ASSUME Awaits, NEW k \in Kinds, NEW m, m.status \in Statuses, Announce(k, m)
    PROVE  /\ k # "assist" => UNCHANGED assist
           /\ k = "assist" => \A p \in Panels :
                /\ m.status \in {"error", "passed"} =>
                     ~assist'[p].waiting /\ assist'[p].waiting \in BOOLEAN
                     /\ assist'[p].pending = 0
                /\ m.status = "executing" =>
                     assist'[p].waiting = assist[p].waiting /\ assist'[p].pending = Remaining(m)
                /\ m.status = "failed" =>
                     \/ assist'[p].waiting = FALSE /\ assist'[p].pending = 0
                     \/ /\ assist[p].pending > 1 /\ assist'[p].waiting = assist[p].waiting
                        /\ assist'[p].pending = assist[p].pending - 1
           /\ inbox' \in [Panels -> Seq(Kinds)]
           /\ \A q \in Panels, e \in Kinds : Contains(inbox[q], e) => Contains(inbox'[q], e)
<1>1. CASE k = "assist"
  <2>1. /\ \A p \in Panels : assist'[p] = AssistHears(assist[p], m)
        /\ inbox' = inbox
      BY <1>1 DEF Announce
  <2>2. ASSUME NEW p \in Panels
        PROVE  /\ m.status \in {"error", "passed"} =>
                    assist'[p].waiting = FALSE /\ assist'[p].pending = 0
               /\ m.status = "executing" =>
                    assist'[p].waiting = assist[p].waiting /\ assist'[p].pending = Remaining(m)
               /\ m.status = "failed" =>
                    \/ assist'[p].waiting = FALSE /\ assist'[p].pending = 0
                    \/ /\ ~LastOne(assist[p]) /\ assist'[p].waiting = assist[p].waiting
                       /\ assist'[p].pending = assist[p].pending - 1
    <3>1. Formed(assist[p]) BY DEF Awaits, RoundsEarned
    <3>2. assist'[p] = AssistHears(assist[p], m) BY <2>1
    <3> DEFINE x == assist[p]
               r == assist'[p]
    <3>3. Formed(x) /\ r = AssistHears(x, m) BY <3>1, <3>2
    <3> HIDE DEF x, r
    <3>4. /\ m.status \in {"error", "passed"} => r.waiting = FALSE /\ r.pending = 0
          /\ m.status = "executing" => r.waiting = x.waiting /\ r.pending = Remaining(m)
          /\ m.status = "failed" =>
               \/ r.waiting = FALSE /\ r.pending = 0
               \/ ~LastOne(x) /\ r.waiting = x.waiting /\ r.pending = x.pending - 1
        BY <3>3, HearsPending, Zenon
    <3> QED BY <3>4 DEF x, r
  <2>3. \A p \in Panels : assist[p].pending \in Int BY DEF Awaits, Expects
  <2>4. \A p \in Panels : ~LastOne(assist[p]) => assist[p].pending > 1 BY <2>3 DEF LastOne
  <2>5. inbox' \in [Panels -> Seq(Kinds)] BY <2>1 DEF Awaits, Served
  <2> QED BY <1>1, <2>1, <2>2, <2>4, <2>5
<1>2. CASE k # "assist"
  <2>1. /\ UNCHANGED assist
        /\ inbox' = [p \in Panels |-> IF AsksAgain(build[p], m) THEN Append(inbox[p], "build")
                                                                 ELSE inbox[p]]
      BY <1>2 DEF Announce
  <2>2. ASSUME NEW q \in Panels
        PROVE  /\ inbox'[q] \in Seq(Kinds)
               /\ \A e \in Kinds : Contains(inbox[q], e) => Contains(inbox'[q], e)
    <3>1. inbox[q] \in Seq(Kinds) BY DEF Awaits, Served
    <3>2. "build" \in Kinds BY DEF Kinds
    <3>3. /\ Append(inbox[q], "build") \in Seq(Kinds)
          /\ \A e : Contains(inbox[q], e) => Contains(Append(inbox[q], "build"), e)
        BY <3>1, <3>2, Queues
    <3>4. inbox'[q] = inbox[q] \/ inbox'[q] = Append(inbox[q], "build") BY <2>1
    <3> QED BY <3>1, <3>3, <3>4
  <2>3. inbox' \in [Panels -> Seq(Kinds)] BY <2>1, <2>2
  <2> QED BY <1>2, <2>1, <2>2, <2>3
<1> QED BY <1>1, <1>2

\* A step that puts a request in the inbox of a panel, or none.
LEMMA AwaitsSent ==
    ASSUME Awaits, RoundsEarned', NEW p \in Panels, NEW k \in Kinds,
           \/ inbox' = inbox
           \/ inbox' = [inbox EXCEPT ![p] = Append(inbox[p], k)],
           UNCHANGED serving,
           \A q \in Panels : /\ assist'[q].waiting \in BOOLEAN
                             /\ assist'[q].pending \in {0, assist[q].pending}
                             /\ assist'[q].waiting => assist[q].waiting
                                  \/ (q = p /\ inbox' # inbox /\ k = "assist")
    PROVE  Awaits'
<1>1. \A q \in Panels : inbox'[q] = inbox[q] \/ inbox'[q] = Append(inbox[q], k)
    BY DEF Awaits, Served
<1>2. inbox' # inbox => inbox'[p] = Append(inbox[p], k) BY DEF Awaits, Served
<1>3. \A q \in Panels : /\ Append(inbox[q], k) \in Seq(Kinds)
                        /\ Contains(Append(inbox[q], k), k)
                        /\ \A e : Contains(inbox[q], e) => Contains(Append(inbox[q], k), e)
    BY Queues DEF Awaits, Served
<1>4. inbox' \in [Panels -> Seq(Kinds)] BY <1>1, <1>3 DEF Awaits, Served
<1>5. Served' BY <1>4 DEF Awaits, Served
<1>6. \A q \in Panels : AtWork(q) => AtWork(q)' /\ ToMake(q)' = ToMake(q)
    BY DEF AtWork, ToMake
<1>7. Expects' BY <1>6, StillExpected DEF Awaits
<1>8. \A q \in Panels : Contains(inbox[q], "assist") => Contains(inbox'[q], "assist")
    BY <1>1, <1>3
<1>9. ASSUME NEW q \in Panels, assist'[q].waiting
      PROVE  assist[q].waiting \/ \E x \in Panels : Contains(inbox'[x], "assist")
    BY <1>2, <1>3, <1>9
<1>10. NobodyWaitsForNothing' BY <1>8, <1>9, StillAwaited DEF Awaits
<1> QED BY <1>5, <1>7, <1>10 DEF Awaits

\* A round moves to another stage, or to its end.
LEMMA ServedMoves ==
    ASSUME Served, NEW p \in Panels, NEW s, serving' = [serving EXCEPT ![p] = s],
           inbox' \in [Panels -> Seq(Kinds)],
           s \in [stage : {"idle", "asking", "next", "trying"},
                  kind : Kinds \cup {"none"}, total : Nat, at : Nat],
           s.stage = "idle" <=> s.kind = "none",
           s.stage \in {"next", "trying"} => s.at <= s.total
    PROVE  /\ Served' /\ serving'[p] = s
           /\ \A q \in Panels \ {p} : serving'[q] = serving[q]
<1>1. serving'[p] = s /\ \A q \in Panels \ {p} : serving'[q] = serving[q] BY DEF Served
<1>2. serving' \in [Panels -> [stage : {"idle", "asking", "next", "trying"},
                               kind : Kinds \cup {"none"}, total : Nat, at : Nat]]
    BY DEF Served
<1>3. ASSUME NEW q \in Panels
      PROVE  /\ serving'[q].stage = "idle" <=> serving'[q].kind = "none"
             /\ serving'[q].stage \in {"next", "trying"} => serving'[q].at <= serving'[q].total
  <2>1. CASE q = p BY <1>1, <2>1
  <2>2. CASE q # p BY <1>1, <2>2 DEF Served
  <2> QED BY <2>1, <2>2
<1> QED BY <1>1, <1>2, <1>3 DEF Served

LEMMA AwaitsTake ==
    ASSUME Awaits, RoundsEarned', NEW p \in Panels, Take(p) PROVE Awaits'
<1>1. inbox[p] \in Seq(Kinds) /\ inbox[p] # <<>> /\ serving[p].stage = "idle"
    BY DEF Awaits, Served, Take
<1>2. /\ Tail(inbox[p]) \in Seq(Kinds) /\ Head(inbox[p]) \in Kinds
      /\ \A e : Contains(inbox[p], e) => e = Head(inbox[p]) \/ Contains(Tail(inbox[p]), e)
  <2>1. "build" \in Kinds BY DEF Kinds
  <2> QED BY <1>1, <2>1, Queues
<1> DEFINE s == [Idle EXCEPT !.stage = "asking", !.kind = Head(inbox[p])]
<1>3. /\ inbox' = [inbox EXCEPT ![p] = Tail(inbox[p])] /\ UNCHANGED assist
      /\ serving' = [serving EXCEPT ![p] = s]
    BY DEF Take
<1>4. /\ s \in [stage : {"idle", "asking", "next", "trying"},
                kind : Kinds \cup {"none"}, total : Nat, at : Nat]
      /\ s.stage = "asking" /\ s.kind = Head(inbox[p]) /\ s.kind # "none"
    BY <1>2 DEF Idle, Kinds
<1> HIDE DEF s
<1>5. /\ Served' /\ serving'[p] = s
      /\ \A q \in Panels \ {p} : inbox'[q] = inbox[q] /\ serving'[q] = serving[q]
      /\ inbox'[p] = Tail(inbox[p])
  <2>1. inbox' \in [Panels -> Seq(Kinds)] BY <1>2, <1>3 DEF Awaits, Served
  <2>2. /\ inbox'[p] = Tail(inbox[p])
        /\ \A q \in Panels \ {p} : inbox'[q] = inbox[q]
      BY <1>3 DEF Awaits, Served
  <2> QED BY <1>3, <1>4, <2>1, <2>2, ServedMoves DEF Awaits
<1>6. \A q \in Panels : AtWork(q) => AtWork(q)' /\ ToMake(q)' = ToMake(q)
    BY <1>1, <1>5 DEF AtWork, ToMake
<1>7. Expects' BY <1>3, <1>6, StillExpected DEF Awaits, Expects
<1>8. serving[p].kind # "assist" BY <1>1 DEF Awaits, Served
<1>9. \A q \in Panels : serving[q].kind = "assist" => serving'[q].kind = "assist"
    BY <1>5, <1>8
<1>10. ASSUME NEW q \in Panels, Contains(inbox[q], "assist")
       PROVE  Contains(inbox'[q], "assist") \/ serving'[q].kind = "assist"
  <2>1. CASE q = p BY <1>2, <1>4, <1>5, <1>10, <2>1
  <2>2. CASE q # p BY <1>5, <1>10, <2>2
  <2> QED BY <2>1, <2>2
<1>11. NobodyWaitsForNothing' BY <1>3, <1>9, <1>10, StillAwaited DEF Awaits
<1> QED BY <1>5, <1>7, <1>11 DEF Awaits

LEMMA IdleServed ==
    /\ Idle \in [stage : {"idle", "asking", "next", "trying"},
                 kind : Kinds \cup {"none"}, total : Nat, at : Nat]
    /\ Idle.stage = "idle" /\ Idle.kind = "none"
BY DEF Idle

\* The round of p ends, with word to every panel that it does.
LEMMA AwaitsEnd ==
    ASSUME Awaits, RoundsEarned', NEW p \in Panels, Refuse(p) \/ Passes(p) \/ Breaks(p)
    PROVE  Awaits'
<1>1. PICK m \in {[status |-> "error"], [status |-> "passed"]} : Announce(serving[p].kind, m)
    BY DEF Refuse, Passes, Breaks
<1>2. serving' = [serving EXCEPT ![p] = Idle] /\ serving[p].stage # "idle"
    BY DEF Refuse, Passes, Breaks
<1>3. serving[p].kind \in Kinds BY <1>2 DEF Awaits, Served
<1>4. m.status \in {"error", "passed"} /\ m.status \in Statuses BY DEF Statuses
<1>5. /\ inbox' \in [Panels -> Seq(Kinds)]
      /\ \A q \in Panels, e \in Kinds : Contains(inbox[q], e) => Contains(inbox'[q], e)
    BY <1>1, <1>3, <1>4, AnnouncedWaits
<1>6. /\ Served' /\ serving'[p] = Idle
      /\ \A q \in Panels \ {p} : serving'[q] = serving[q]
    BY <1>2, <1>5, ServedMoves, IdleServed DEF Awaits
<1>7. CASE serving[p].kind = "assist"
  <2>1. \A q \in Panels : ~assist'[q].waiting /\ assist'[q].waiting \in BOOLEAN
                          /\ assist'[q].pending = 0
      BY <1>1, <1>3, <1>4, <1>7, AnnouncedWaits
  <2>2. Expects' BY <2>1 DEF Expects
  <2>3. NobodyWaitsForNothing' BY <2>1 DEF NobodyWaitsForNothing
  <2> QED BY <1>6, <2>2, <2>3 DEF Awaits
<1>8. CASE serving[p].kind # "assist"
  <2>1. UNCHANGED assist BY <1>1, <1>3, <1>4, <1>8, AnnouncedWaits
  <2>2. \A q \in Panels : AtWork(q) => AtWork(q)' /\ ToMake(q)' = ToMake(q)
      BY <1>6, <1>8 DEF AtWork, ToMake
  <2>3. Expects' BY <2>1, <2>2, StillExpected DEF Awaits, Expects
  <2>4. \A q \in Panels : serving[q].kind = "assist" => serving'[q].kind = "assist"
      BY <1>6, <1>8
  <2>5. \A q \in Panels : Contains(inbox[q], "assist") => Contains(inbox'[q], "assist")
      BY <1>5 DEF Kinds
  <2>6. NobodyWaitsForNothing' BY <2>1, <2>4, <2>5, StillAwaited DEF Awaits
  <2> QED BY <1>6, <2>3, <2>6 DEF Awaits
<1> QED BY <1>7, <1>8

LEMMA AwaitsPlan ==
    ASSUME Awaits, RoundsEarned', NEW p \in Panels, Plan(p) PROVE Awaits'
<1>1. PICK n \in 1..MaxAttempts :
        serving' = [serving EXCEPT ![p] = [serving[p] EXCEPT !.stage = "next", !.total = n,
                                                             !.at = 1]]
    BY DEF Plan
<1>2. serving[p].stage = "asking" /\ UNCHANGED <<assist, inbox>> BY DEF Plan
<1> DEFINE s == [serving[p] EXCEPT !.stage = "next", !.total = n, !.at = 1]
<1>3. serving[p] \in [stage : {"idle", "asking", "next", "trying"},
                      kind : Kinds \cup {"none"}, total : Nat, at : Nat]
    BY DEF Awaits, Served
<1>4. n \in Nat /\ 1 <= n BY RoundsAssumption
<1>5. /\ s \in [stage : {"idle", "asking", "next", "trying"},
                kind : Kinds \cup {"none"}, total : Nat, at : Nat]
      /\ s.stage = "next" /\ s.kind = serving[p].kind /\ s.at <= s.total
    BY <1>3, <1>4
<1>6. s.kind # "none" BY <1>2, <1>5 DEF Awaits, Served
<1>7. inbox' \in [Panels -> Seq(Kinds)] BY <1>2 DEF Awaits, Served
<1> HIDE DEF s
<1>8. serving' = [serving EXCEPT ![p] = s] BY <1>1 DEF s
<1>9. /\ Served' /\ serving'[p] = s
      /\ \A q \in Panels \ {p} : serving'[q] = serving[q]
    BY <1>5, <1>6, <1>7, <1>8, ServedMoves DEF Awaits
<1>10. \A q \in Panels : AtWork(q) => AtWork(q)' /\ ToMake(q)' = ToMake(q)
    BY <1>2, <1>9 DEF AtWork, ToMake
<1>11. Expects' BY <1>2, <1>10, StillExpected DEF Awaits, Expects
<1>12. NobodyWaitsForNothing' BY <1>2, <1>5, <1>9, StillAwaited DEF Awaits
<1> QED BY <1>9, <1>11, <1>12 DEF Awaits

\* What holds of the waits when a round that is not one of Assist moves on.
LEMMA AwaitsBuild ==
    ASSUME Awaits, RoundsEarned', Served', NEW p \in Panels, UNCHANGED assist,
           serving[p].kind # "assist", \A q \in Panels \ {p} : serving'[q] = serving[q],
           \A q \in Panels, e \in Kinds : Contains(inbox[q], e) => Contains(inbox'[q], e)
    PROVE  Awaits'
<1>1. \A q \in Panels : AtWork(q) => AtWork(q)' /\ ToMake(q)' = ToMake(q) BY DEF AtWork, ToMake
<1>2. Expects' BY <1>1, StillExpected DEF Awaits, Expects
<1>3. \A q \in Panels : serving[q].kind = "assist" => serving'[q].kind = "assist" OBVIOUS
<1>4. "assist" \in Kinds BY DEF Kinds
<1>5. NobodyWaitsForNothing' BY <1>3, <1>4, StillAwaited DEF Awaits
<1> QED BY <1>2, <1>5 DEF Awaits

LEMMA AwaitsTry ==
    ASSUME Awaits, RoundsEarned', NEW p \in Panels, Try(p) PROVE Awaits'
<1> DEFINE m == [status |-> "executing", at |-> serving[p].at, total |-> serving[p].total]
           s == [serving[p] EXCEPT !.stage = "trying"]
<1>1. /\ Announce(serving[p].kind, m) /\ serving[p].stage = "next"
      /\ serving' = [serving EXCEPT ![p] = s]
    BY DEF Try
<1>2. /\ serving[p] \in [stage : {"idle", "asking", "next", "trying"},
                         kind : Kinds \cup {"none"}, total : Nat, at : Nat]
      /\ serving[p].at <= serving[p].total /\ serving[p].kind # "none"
    BY <1>1 DEF Awaits, Served
<1>3. /\ s \in [stage : {"idle", "asking", "next", "trying"},
                kind : Kinds \cup {"none"}, total : Nat, at : Nat]
      /\ s.stage = "trying" /\ s.kind = serving[p].kind
      /\ s.at = serving[p].at /\ s.total = serving[p].total
    BY <1>2
<1>4. m.status = "executing" /\ m.status \in Statuses
      /\ Remaining(m) = serving[p].total - serving[p].at + 1
    BY DEF Statuses, Remaining
<1> HIDE DEF m, s
<1>5. serving[p].kind \in Kinds BY <1>2
<1>6. /\ inbox' \in [Panels -> Seq(Kinds)]
      /\ \A q \in Panels, e \in Kinds : Contains(inbox[q], e) => Contains(inbox'[q], e)
    BY <1>1, <1>4, <1>5, AnnouncedWaits
<1>7. /\ Served' /\ serving'[p] = s
      /\ \A q \in Panels \ {p} : serving'[q] = serving[q]
    BY <1>1, <1>2, <1>3, <1>6, ServedMoves DEF Awaits
<1>8. CASE serving[p].kind = "assist"
  <2>1. \A q \in Panels : /\ assist'[q].waiting = assist[q].waiting
                          /\ assist'[q].pending = Remaining(m)
      BY <1>1, <1>4, <1>5, <1>8, AnnouncedWaits
  <2>2. AtWork(p)' /\ ToMake(p)' = Remaining(m) BY <1>3, <1>4, <1>7, <1>8 DEF AtWork, ToMake
  <2>3. Remaining(m) \in Int BY <1>2, <1>4
  <2>4. \A q \in Panels : assist'[q].waiting \in BOOLEAN /\ assist'[q].pending \in Int
      BY <2>1, <2>3 DEF Awaits, Expects
  <2>5. \A q \in Panels : assist'[q].pending <= ToMake(p)' BY <2>1, <2>2, <2>3
  <2>6. Expects' BY <2>2, <2>4, <2>5 DEF Expects
  <2>7. serving'[p].kind = "assist" BY <1>3, <1>7, <1>8
  <2>8. NobodyWaitsForNothing' BY <2>7 DEF NobodyWaitsForNothing
  <2> QED BY <1>7, <2>6, <2>8 DEF Awaits
<1>9. CASE serving[p].kind # "assist"
  <2>1. UNCHANGED assist BY <1>1, <1>4, <1>5, <1>9, AnnouncedWaits
  <2> QED BY <1>6, <1>7, <1>9, <2>1, AwaitsBuild
<1> QED BY <1>8, <1>9

LEMMA AwaitsFails ==
    ASSUME Awaits, RoundsEarned', NEW p \in Panels, Fails(p) PROVE Awaits'
<1> DEFINE m == [status |-> "failed"]
           last == serving[p].at = serving[p].total
           n == [serving[p] EXCEPT !.stage = "next", !.at = serving[p].at + 1]
           s == IF last THEN Idle ELSE n
<1>1. /\ Announce(serving[p].kind, m) /\ serving[p].stage = "trying"
      /\ serving' = [serving EXCEPT ![p] = s]
  <2>1. serving' = [serving EXCEPT ![p] =
                      IF serving[p].at = serving[p].total THEN Idle
                      ELSE [serving[p] EXCEPT !.stage = "next", !.at = serving[p].at + 1]]
      BY DEF Fails
  <2> QED BY <2>1 DEF Fails
<1>2. /\ serving[p] \in [stage : {"idle", "asking", "next", "trying"},
                         kind : Kinds \cup {"none"}, total : Nat, at : Nat]
      /\ serving[p].at <= serving[p].total /\ serving[p].kind # "none"
    BY <1>1 DEF Awaits, Served
<1>3. /\ n \in [stage : {"idle", "asking", "next", "trying"},
                kind : Kinds \cup {"none"}, total : Nat, at : Nat]
      /\ n.stage = "next" /\ n.kind = serving[p].kind
      /\ n.at = serving[p].at + 1 /\ n.total = serving[p].total
  <2>1. serving[p].at + 1 \in Nat BY <1>2
  <2>2. n = [serving[p] EXCEPT !.stage = "next", !.at = serving[p].at + 1] OBVIOUS
  <2> HIDE DEF n, s, m, last
  <2> QED BY <1>2, <2>1, <2>2
<1>4. m.status = "failed" /\ m.status \in Statuses BY DEF Statuses
<1>5. serving[p].kind \in Kinds BY <1>2
<1> HIDE DEF m, n
<1>6. /\ inbox' \in [Panels -> Seq(Kinds)]
      /\ \A q \in Panels, e \in Kinds : Contains(inbox[q], e) => Contains(inbox'[q], e)
    BY <1>1, <1>4, <1>5, AnnouncedWaits
<1>7. /\ s \in [stage : {"idle", "asking", "next", "trying"},
                kind : Kinds \cup {"none"}, total : Nat, at : Nat]
      /\ s.stage = "idle" <=> s.kind = "none"
      /\ s.stage \in {"next", "trying"} => s.at <= s.total
  <2>1. CASE last BY <2>1, IdleServed
  <2>2. CASE ~last BY <1>2, <1>3, <2>2
  <2> QED BY <2>1, <2>2
<1> HIDE DEF s
<1>8. /\ Served' /\ serving'[p] = s
      /\ \A q \in Panels \ {p} : serving'[q] = serving[q]
    BY <1>1, <1>6, <1>7, ServedMoves DEF Awaits
<1>9. CASE serving[p].kind = "assist"
  <2>1. ASSUME NEW x \in Panels, assist[x].pending > 1
        PROVE  \E q \in Panels : AtWork(q)' /\ assist[x].pending - 1 <= ToMake(q)'
    <3>1. assist[x].pending \in Int BY DEF Awaits, Expects
    <3>2. assist[x].pending > 0 BY <2>1, <3>1
    <3>3. PICK q \in Panels : AtWork(q) /\ assist[x].pending <= ToMake(q)
        BY <3>2 DEF Awaits, Expects
    <3>4. ToMake(q) \in Int BY DEF Awaits, Served, ToMake
    <3>5. CASE q # p
      <4>1. AtWork(q)' /\ ToMake(q)' = ToMake(q) BY <1>8, <3>3, <3>5 DEF AtWork, ToMake
      <4> QED BY <3>1, <3>3, <3>4, <4>1
    <3>6. CASE q = p
      <4>1. ToMake(p) = serving[p].total - serving[p].at + 1 BY DEF ToMake
      <4>2. ~last BY <1>2, <2>1, <3>1, <3>3, <3>6, <4>1
      <4>3. serving'[p] = n BY <1>8, <4>2 DEF s
      <4>4. AtWork(p)' BY <1>3, <1>9, <4>2, <4>3 DEF AtWork
      <4>5. ToMake(p)' = ToMake(p) - 1 BY <1>2, <1>3, <4>1, <4>2, <4>3 DEF ToMake
      <4> QED BY <3>1, <3>3, <3>4, <3>6, <4>4, <4>5
    <3> QED BY <3>5, <3>6
  <2>2. \A x \in Panels :
          \/ assist'[x].waiting = FALSE /\ assist'[x].pending = 0
          \/ /\ assist[x].pending > 1 /\ assist'[x].waiting = assist[x].waiting
             /\ assist'[x].pending = assist[x].pending - 1
      BY <1>1, <1>4, <1>5, <1>9, AnnouncedWaits
  <2>3. \A x \in Panels : assist[x].waiting \in BOOLEAN /\ assist[x].pending \in Int
      BY DEF Awaits, Expects
  <2>4. ASSUME NEW x \in Panels
        PROVE  /\ assist'[x].pending \in Int /\ assist'[x].waiting \in BOOLEAN
               /\ assist'[x].pending > 0 =>
                    \E q \in Panels : AtWork(q)' /\ assist'[x].pending <= ToMake(q)'
    <3>1. CASE assist'[x].waiting = FALSE /\ assist'[x].pending = 0
      <4>1. ~(assist'[x].pending > 0) /\ assist'[x].pending \in Int BY <3>1
      <4>2. assist'[x].waiting \in BOOLEAN BY <3>1, Zenon
      <4> QED BY <4>1, <4>2
    <3>2. CASE /\ assist[x].pending > 1 /\ assist'[x].waiting = assist[x].waiting
               /\ assist'[x].pending = assist[x].pending - 1
        BY <2>1, <2>3, <3>2
    <3> QED BY <2>2, <3>1, <3>2
  <2>5. Expects' BY <2>4 DEF Expects
  <2>6. ASSUME NEW x \in Panels, assist'[x].waiting
        PROVE  \E q \in Panels : serving'[q].kind = "assist"
      BY <2>1, <2>2, <2>6 DEF AtWork
  <2>7. NobodyWaitsForNothing' BY <2>6 DEF NobodyWaitsForNothing
  <2> QED BY <1>8, <2>5, <2>7 DEF Awaits
<1>10. CASE serving[p].kind # "assist"
  <2>1. UNCHANGED assist BY <1>1, <1>4, <1>5, <1>10, AnnouncedWaits
  <2> QED BY <1>6, <1>8, <1>10, <2>1, AwaitsBuild
<1> QED BY <1>9, <1>10

LEMMA AwaitsNextRound ==
    ASSUME Awaits, RoundsEarned', NEW p \in Panels, NEW s, Formed(s), NextRound(p, s),
           UNCHANGED serving, s.waiting = assist[p].waiting, s.pending = assist[p].pending
    PROVE  Awaits'
<1>1. assist \in [Panels -> {assist[q] : q \in Panels}] BY DEF Awaits, RoundsEarned
<1>2. "assist" \in Kinds BY DEF Kinds
<1>3. \A q \in Panels : assist[q].waiting \in BOOLEAN /\ assist[q].pending \in Int
    BY DEF Awaits, Expects
<1>4. CASE s.tried >= MaxAuto
  <2>1. assist' = [assist EXCEPT ![p] = s] /\ inbox' = inbox BY <1>4 DEF NextRound
  <2>2. \A q \in Panels : assist'[q] = IF q = p THEN s ELSE assist[q] BY <1>1, <2>1
  <2>3. \A q \in Panels : /\ assist'[q].waiting = assist[q].waiting
                          /\ assist'[q].pending = assist[q].pending
      BY <2>2
  <2> QED BY <1>2, <1>3, <2>1, <2>3, AwaitsSent
<1>5. CASE ~(s.tried >= MaxAuto)
  <2> DEFINE r == [s EXCEPT !.waiting = TRUE, !.pending = 0]
  <2>1. /\ assist' = [assist EXCEPT ![p] = r]
        /\ inbox' = [inbox EXCEPT ![p] = Append(inbox[p], "assist")]
      BY <1>5 DEF NextRound, Send
  <2>2. r.waiting = TRUE /\ r.pending = 0 BY DEF Formed
  <2> HIDE DEF r
  <2>3. \A q \in Panels : assist'[q] = IF q = p THEN r ELSE assist[q] BY <1>1, <2>1
  <2>4. inbox' # inbox
    <3>1. inbox'[p] = Append(inbox[p], "assist") /\ inbox[p] \in Seq(Kinds)
        BY <2>1 DEF Awaits, Served
    <3>2. Len(inbox'[p]) = Len(inbox[p]) + 1 /\ Len(inbox[p]) \in Nat BY <1>2, <3>1
    <3> QED BY <3>2
  <2>5. \A q \in Panels : /\ assist'[q].waiting \in BOOLEAN
                          /\ assist'[q].pending \in {0, assist[q].pending}
                          /\ assist'[q].waiting => assist[q].waiting \/ q = p
      BY <1>3, <2>2, <2>3
  <2> QED BY <1>2, <2>1, <2>4, <2>5, AwaitsSent
<1> QED BY <1>4, <1>5

\* A step that leaves Assist and its requests alone.
LEMMA AwaitsKept ==
    ASSUME Awaits, RoundsEarned', UNCHANGED <<assist, serving>>, NEW p \in Panels,
           NEW k \in Kinds, inbox' = inbox \/ Send(p, k)
    PROVE  Awaits'
<1>1. \A q \in Panels : /\ assist'[q].waiting \in BOOLEAN
                        /\ assist'[q].pending \in {0, assist[q].pending}
                        /\ assist'[q].waiting => assist[q].waiting
    BY DEF Awaits, Expects
<1> QED BY <1>1, AwaitsSent DEF Send

LEMMA AwaitsStep == Awaits /\ [LlmNext]_llmVars => Awaits'
<1> SUFFICES ASSUME Awaits, [LlmNext]_llmVars PROVE Awaits' OBVIOUS
<1>0. RoundsEarned' BY RoundsStep DEF Awaits
<1>1. CASE UNCHANGED llmVars
  <2>1. NobodyWaitsForNothing' = NobodyWaitsForNothing BY <1>1 DEF llmVars, NobodyWaitsForNothing
  <2>2. Served' /\ Expects' BY <1>1 DEF llmVars, Awaits, Served, Expects, AtWork, ToMake
  <2> QED BY <1>0, <2>1, <2>2 DEF Awaits
<1>2. ASSUME NEW p \in Panels, Serve(p) PROVE Awaits'
    BY <1>0, <1>2, AwaitsTake, AwaitsPlan, AwaitsTry, AwaitsFails, AwaitsEnd
       DEF Serve, Asking, Trying
<1>3. \A p \in Panels : /\ Formed(assist[p]) /\ assist[p].waiting \in BOOLEAN
                        /\ assist[p].pending \in Int
    BY DEF Awaits, RoundsEarned, Expects
<1>4. ASSUME NEW p \in Panels, TimerFires(p) PROVE Awaits'
  <2> DEFINE s == [assist[p] EXCEPT !.timers = assist[p].timers - 1]
  <2>1. NextRound(p, s) /\ UNCHANGED serving /\ assist[p].timers > 0 BY <1>4 DEF TimerFires
  <2>0. Formed(assist[p]) BY <1>3
  <2>2. assist[p].timers - 1 \in Nat BY <2>0, <2>1 DEF Formed
  <2>3. Formed(s) /\ s.waiting = assist[p].waiting /\ s.pending = assist[p].pending
      BY <2>0, <2>2 DEF Formed
  <2> HIDE DEF s
  <2> QED BY <1>0, <2>1, <2>3, AwaitsNextRound
<1>5. ASSUME NEW p \in Panels, StillBroken(p) PROVE Awaits'
  <2> DEFINE s == [assist[p] EXCEPT !.offered = FALSE]
  <2>1. NextRound(p, s) /\ UNCHANGED serving BY <1>5 DEF StillBroken, Click
  <2>0. Formed(assist[p]) /\ assist[p].offered BY <1>3, <1>5 DEF StillBroken
  <2>2. Formed(s) BY <2>0, OfferGone
  <2>3. s.waiting = assist[p].waiting /\ s.pending = assist[p].pending BY <2>0 DEF Formed
  <2> HIDE DEF s
  <2> QED BY <1>0, <2>1, <2>2, <2>3, AwaitsNextRound
<1>6. assist \in [Panels -> {assist[p] : p \in Panels}] BY DEF Awaits, RoundsEarned
<1>7. ASSUME NEW p \in Panels, Worked(p) PROVE Awaits'
  <2> DEFINE s == [assist[p] EXCEPT !.offered = FALSE]
  <2>1. assist' = [assist EXCEPT ![p] = s] /\ UNCHANGED <<serving, inbox>>
      BY <1>7 DEF Worked, Click
  <2>2. s.waiting = assist[p].waiting /\ s.pending = assist[p].pending BY <1>3 DEF Formed
  <2> HIDE DEF s
  <2>3. \A q \in Panels : assist'[q] = IF q = p THEN s ELSE assist[q] BY <1>6, <2>1
  <2>4. \A q \in Panels : /\ assist'[q].waiting \in BOOLEAN
                          /\ assist'[q].pending \in {0, assist[q].pending}
                          /\ assist'[q].waiting => assist[q].waiting
      BY <1>3, <2>2, <2>3
  <2>5. "assist" \in Kinds BY DEF Kinds
  <2> QED BY <1>0, <2>1, <2>4, <2>5, AwaitsSent
<1>8. ASSUME NEW p \in Panels, Ask(p) PROVE Awaits'
  <2> DEFINE s == [assist[p] EXCEPT !.waiting = TRUE, !.pending = 0, !.offered = FALSE]
  <2>1. /\ assist' = [assist EXCEPT ![p] = s] /\ UNCHANGED serving
        /\ inbox' = [inbox EXCEPT ![p] = Append(inbox[p], "assist")]
      BY <1>8 DEF Ask, Click, Send
  <2>2. s.waiting = TRUE /\ s.pending = 0 BY <1>3 DEF Formed
  <2> HIDE DEF s
  <2>3. \A q \in Panels : assist'[q] = IF q = p THEN s ELSE assist[q] BY <1>6, <2>1
  <2>4. \A q \in Panels : /\ assist'[q].waiting \in BOOLEAN
                          /\ assist'[q].pending \in {0, assist[q].pending}
                          /\ assist'[q].waiting => assist[q].waiting \/ q = p
      BY <1>3, <2>2, <2>3
  <2>5. "assist" \in Kinds BY DEF Kinds
  <2>6. inbox' # inbox
    <3>1. inbox'[p] = Append(inbox[p], "assist") /\ inbox[p] \in Seq(Kinds)
        BY <2>1 DEF Awaits, Served
    <3>2. Len(inbox'[p]) = Len(inbox[p]) + 1 /\ Len(inbox[p]) \in Nat BY <2>5, <3>1
    <3> QED BY <3>2
  <2> QED BY <1>0, <2>1, <2>4, <2>5, <2>6, AwaitsSent
<1>9. ASSUME NEW p \in Panels, BuildRun(p) \/ BuildRetry(p) \/ BuildStop(p) \/ BuildInsert(p)
      PROVE  Awaits'
  <2>1. "build" \in Kinds BY DEF Kinds
  <2>2. UNCHANGED <<assist, serving>> /\ (inbox' = inbox \/ Send(p, "build"))
      BY <1>9 DEF BuildRun, BuildRetry, BuildStop, BuildInsert, Click
  <2> QED BY <1>0, <2>1, <2>2, AwaitsKept
<1> QED BY <1>1, <1>2, <1>4, <1>5, <1>7, <1>8, <1>9 DEF LlmNext, UserClicks

LEMMA AwaitsInit == LlmInit => Awaits
<1> SUFFICES ASSUME LlmInit PROVE Awaits OBVIOUS
<1>1. \A p \in Panels : assist[p].waiting = FALSE /\ assist[p].pending = 0 BY DEF LlmInit
<1>2. Expects
  <2>1. \A p \in Panels : assist[p].waiting \in BOOLEAN BY <1>1, Zenon
  <2>2. \A p \in Panels : assist[p].pending \in Int /\ ~(assist[p].pending > 0) BY <1>1
  <2> QED BY <2>1, <2>2 DEF Expects
<1>3. NobodyWaitsForNothing BY <1>1 DEF NobodyWaitsForNothing
<1>4. \A p \in Panels : serving[p] = Idle BY DEF LlmInit
<1>5. Served
  <2>1. inbox \in [Panels -> Seq(Kinds)] BY DEF LlmInit
  <2>2. serving \in [Panels -> [stage : {"idle", "asking", "next", "trying"},
                                kind : Kinds \cup {"none"}, total : Nat, at : Nat]]
      BY IdleServed DEF LlmInit
  <2> QED BY <1>4, <2>1, <2>2, IdleServed DEF Served
<1> QED BY <1>2, <1>3, <1>5, RoundsInit DEF Awaits

(* A panel that waits for Assist has something to hear: no panel expects    *)
(* more attempts than some round of Assist is still to make.                *)
THEOREM WaitsEnd == LlmSpec => []NobodyWaitsForNothing
<1>1. Awaits => NobodyWaitsForNothing BY DEF Awaits
<1> QED BY <1>1, AwaitsInit, AwaitsStep, PTL DEF LlmSpec

-----------------------------------------------------------------------------
(*****************************************************************************)
(* PanelVersions, for every number of viewers, of names, of steps and of     *)
(* messages on their way: no panel hides a step for good.                    *)
(*****************************************************************************)

Announced == [type : {"step_appended", "version_loaded"}, list : Seq(Nat)]

Sent == {m \in [type : {"append", "duplicate", "delete", "save", "load", "delete_version",
                        "save_to_file", "load_from_file"},
                name : Names \cup {"none", "main"}, ids : SUBSET Nat] :
           m.type = "load" => m.name \in Names \cup {"main"}}

VersionsTyped ==
    /\ steps \in Seq(Nat) /\ lastId \in Nat /\ original \in Seq(Nat) /\ file \in Seq(Nat)
    /\ versions \in [Names -> Seq(Nat)] /\ view \in [Viewers -> Seq(Nat)]
    /\ toServer \in [Viewers -> Seq(Sent)] /\ toPanel \in [Viewers -> Seq(Announced)]
    /\ job \in [Viewers -> [kind : {"none", "save", "load"}, name : Names \cup {"none", "main"},
                            list : Seq(Nat)]]

\* A panel that shows a list will show step s when it has heard these announcements.
Reaches(shown, heard, s) ==
    \/ s \in Range(shown) /\ \A i \in 1..Len(heard) : heard[i].type = "step_appended"
    \/ \E i \in 1..Len(heard) :
         /\ s \in Range(heard[i].list)
         /\ \A j \in (i + 1)..Len(heard) : heard[j].type = "step_appended"

\* One of these messages deletes step s.
Drops(sent, s) == \E k \in 1..Len(sent) : sent[k].type = "delete" /\ s \in sent[k].ids

\* What a panel does not show it will hear of, or has itself deleted.
Announces ==
    \A p \in Viewers : \A s \in Range(steps) :
        Reaches(view[p], toPanel[p], s) \/ Drops(toServer[p], s)

-----------------------------------------------------------------------------
LEMMA ReachesTold ==
    ASSUME NEW shown, NEW heard \in Seq(Announced), NEW m \in Announced, NEW s
    PROVE  /\ m.type = "step_appended" /\ Reaches(shown, heard, s)
                => Reaches(shown, Append(heard, m), s)
           /\ s \in Range(m.list) => Reaches(shown, Append(heard, m), s)
<1> DEFINE all == Append(heard, m)
<1>1. /\ all \in Seq(Announced) /\ Len(all) = Len(heard) + 1 /\ Len(heard) \in Nat
      /\ \A i \in 1..Len(heard) : all[i] = heard[i]
      /\ all[Len(heard) + 1] = m
    OBVIOUS
<1> HIDE DEF all
<1>2. ASSUME s \in Range(m.list) PROVE Reaches(shown, all, s)
  <2>1. Len(all) \in 1..Len(all) /\ (Len(all) + 1)..Len(all) = {} BY <1>1
  <2>2. s \in Range(all[Len(all)].list) BY <1>1, <1>2
  <2> QED BY <2>1, <2>2 DEF Reaches
<1>3. ASSUME m.type = "step_appended", Reaches(shown, heard, s) PROVE Reaches(shown, all, s)
  <2>1. CASE s \in Range(shown) /\ \A i \in 1..Len(heard) : heard[i].type = "step_appended"
    <3>1. \A i \in 1..Len(all) : all[i].type = "step_appended" BY <1>1, <1>3, <2>1
    <3> QED BY <2>1, <3>1 DEF Reaches
  <2>2. ASSUME NEW i \in 1..Len(heard), s \in Range(heard[i].list),
               \A j \in (i + 1)..Len(heard) : heard[j].type = "step_appended"
        PROVE  Reaches(shown, all, s)
    <3>1. i \in 1..Len(all) /\ s \in Range(all[i].list) BY <1>1, <2>2
    <3>2. \A j \in (i + 1)..Len(all) : all[j].type = "step_appended" BY <1>1, <1>3, <2>2
    <3> QED BY <3>1, <3>2 DEF Reaches
  <2> QED BY <1>3, <2>1, <2>2 DEF Reaches
<1> QED BY <1>2, <1>3 DEF all

LEMMA ReachesHeard ==
    ASSUME NEW shown \in Seq(Nat), NEW heard \in Seq(Announced), heard # <<>>, NEW s,
           Reaches(shown, heard, s)
    PROVE  Reaches(IF Head(heard).type = "step_appended" THEN shown \o Head(heard).list
                                                         ELSE Head(heard).list,
                   Tail(heard), s)
<1> DEFINE m == Head(heard)
           rest == Tail(heard)
           now == IF m.type = "step_appended" THEN shown \o m.list ELSE m.list
<1>1. /\ rest \in Seq(Announced) /\ Len(rest) = Len(heard) - 1 /\ Len(heard) \in Nat
      /\ Len(heard) > 0 /\ m = heard[1] /\ m \in Announced
      /\ \A i \in 1..Len(rest) : rest[i] = heard[i + 1]
    OBVIOUS
<1>2. /\ s \in Range(m.list) => s \in Range(now)
      /\ s \in Range(shown) /\ m.type = "step_appended" => s \in Range(now)
  <2>1. m.list \in Seq(Nat) BY <1>1 DEF Announced
  <2>2. \A a, b \in Seq(Nat) : /\ s \in Range(a) => s \in Range(a \o b)
                               /\ s \in Range(b) => s \in Range(a \o b)
    <3> TAKE a, b \in Seq(Nat)
    <3>1. ASSUME NEW i \in DOMAIN a PROVE i \in DOMAIN (a \o b) /\ (a \o b)[i] = a[i]
        OBVIOUS
    <3>2. ASSUME NEW i \in DOMAIN b
          PROVE  Len(a) + i \in DOMAIN (a \o b) /\ (a \o b)[Len(a) + i] = b[i]
        OBVIOUS
    <3> QED BY <3>1, <3>2 DEF Range
  <2> QED BY <2>1, <2>2
<1> HIDE DEF m, rest, now
<1>3. CASE s \in Range(shown) /\ \A i \in 1..Len(heard) : heard[i].type = "step_appended"
  <2>1. m.type = "step_appended" BY <1>1, <1>3
  <2>2. ASSUME NEW i \in 1..Len(rest) PROVE rest[i].type = "step_appended"
    <3>1. i + 1 \in 1..Len(heard) /\ rest[i] = heard[i + 1] BY <1>1
    <3> QED BY <1>3, <3>1
  <2>3. Reaches(now, rest, s) BY <1>2, <1>3, <2>1, <2>2 DEF Reaches
  <2> QED BY <2>3 DEF m, rest, now
<1>4. ASSUME NEW i \in 1..Len(heard), s \in Range(heard[i].list),
             \A j \in (i + 1)..Len(heard) : heard[j].type = "step_appended"
      PROVE  Reaches(now, rest, s)
  <2>1. CASE i = 1
    <3>1. ASSUME NEW j \in 1..Len(rest) PROVE rest[j].type = "step_appended"
      <4>1. j + 1 \in (i + 1)..Len(heard) /\ rest[j] = heard[j + 1] BY <1>1, <2>1
      <4> QED BY <1>4, <4>1
    <3> QED BY <1>1, <1>2, <1>4, <2>1, <3>1 DEF Reaches
  <2>2. CASE i # 1
    <3>1. i - 1 \in 1..Len(rest) /\ rest[i - 1] = heard[i] BY <1>1, <2>2
    <3>2. ASSUME NEW j \in ((i - 1) + 1)..Len(rest) PROVE rest[j].type = "step_appended"
      <4>1. j + 1 \in (i + 1)..Len(heard) /\ j \in 1..Len(rest) BY <1>1
      <4>2. rest[j] = heard[j + 1] BY <1>1, <4>1
      <4> QED BY <1>4, <4>1, <4>2
    <3> QED BY <1>4, <3>1, <3>2 DEF Reaches
  <2> QED BY <2>1, <2>2
<1> QED BY <1>3, <1>4 DEF Reaches, m, rest, now

LEMMA DropsSent ==
    ASSUME NEW sent \in Seq(Sent), NEW m \in Sent, NEW s
    PROVE  /\ Drops(sent, s) => Drops(Append(sent, m), s)
           /\ m.type = "delete" /\ s \in m.ids => Drops(Append(sent, m), s)
<1> DEFINE all == Append(sent, m)
<1>1. /\ Len(all) = Len(sent) + 1 /\ Len(sent) \in Nat
      /\ \A i \in 1..Len(sent) : all[i] = sent[i]
      /\ all[Len(sent) + 1] = m
    OBVIOUS
<1> HIDE DEF all
<1>2. Drops(sent, s) => Drops(all, s) BY <1>1 DEF Drops
<1>3. m.type = "delete" /\ s \in m.ids => Drops(all, s) BY <1>1 DEF Drops
<1> QED BY <1>2, <1>3 DEF all

LEMMA DropsTaken ==
    ASSUME NEW sent \in Seq(Sent), sent # <<>>, NEW s, Drops(sent, s)
    PROVE  Drops(Tail(sent), s) \/ (Head(sent).type = "delete" /\ s \in Head(sent).ids)
<1>1. /\ Len(Tail(sent)) = Len(sent) - 1 /\ Len(sent) \in Nat /\ Head(sent) = sent[1]
      /\ \A i \in 1..Len(Tail(sent)) : Tail(sent)[i] = sent[i + 1]
    OBVIOUS
<1>2. PICK k \in 1..Len(sent) : sent[k].type = "delete" /\ s \in sent[k].ids BY DEF Drops
<1>3. CASE k = 1 BY <1>1, <1>2, <1>3
<1>4. CASE k # 1
  <2>1. k - 1 \in 1..Len(Tail(sent)) /\ Tail(sent)[k - 1] = sent[k] BY <1>1, <1>4
  <2> QED BY <1>2, <2>1 DEF Drops
<1> QED BY <1>3, <1>4

-----------------------------------------------------------------------------
LEMMA InsertBehindIds ==
    ASSUME VersionsTyped, NEW after, InsertBehind(after)
    PROVE  /\ steps' \in Seq(Nat) /\ lastId' = lastId + 1 /\ lastId + 1 \in Nat
           /\ Range(steps') \subseteq Range(steps) \cup {lastId + 1}
<1> DEFINE I == {k \in 1..Len(steps) : steps[k] = after}
           i == IF I # {} THEN Min(I) ELSE 0
           at == IF i = 0 THEN Len(steps) + 1 ELSE i + 1
<1>1. steps \in Seq(Nat) /\ lastId \in Nat BY DEF VersionsTyped
<1>2. I # {} => Min(I) \in I
  <2>1. I \in SUBSET Nat OBVIOUS
  <2> HIDE DEF I
  <2> SUFFICES ASSUME I # {} PROVE Min(I) \in I OBVIOUS
  <2>2. \E n \in I : \A m \in I : n <= m BY <2>1, LeastNat
  <2> QED BY <2>2 DEF Min
<1>3. at \in 1..(Len(steps) + 1) BY <1>1, <1>2
<1>4. steps' = InsertAt(steps, at, lastId + 1) /\ lastId' = lastId + 1
    BY DEF InsertBehind, SelectInSeq
<1>5. lastId + 1 \in Nat BY <1>1
<1> HIDE DEF at
<1> QED BY <1>1, <1>3, <1>4, <1>5, InsertRange

LEMMA AppendIds ==
    ASSUME NEW list \in Seq(Nat), NEW id \in Nat
    PROVE  Append(list, id) \in Seq(Nat) /\ Range(Append(list, id)) \subseteq Range(list) \cup {id}
BY DEF Range

LEMMA AppendedIds ==
    ASSUME NEW id \in Nat
    PROVE  /\ Appended(id) \in Announced /\ Appended(id).type = "step_appended"
           /\ id \in Range(Appended(id).list)
BY DEF Appended, Announced, Range

LEMMA LoadedIds ==
    ASSUME NEW list \in Seq(Nat)
    PROVE  Loaded(list) \in Announced /\ Range(Loaded(list).list) = Range(list)
BY DEF Loaded, Announced

-----------------------------------------------------------------------------
VersionsInv == VersionsTyped /\ Announces

\* Handlers other than that of a deletion leave the deletions that are on their way.
LEMMA DropsStay ==
    ASSUME VersionsTyped, NEW p \in Viewers, NEW type, type # "delete", Got(p, type)
    PROVE  \A q \in Viewers : \A s : Drops(toServer[q], s) => Drops(toServer'[q], s)
<1> TAKE q \in Viewers
<1> TAKE s
<1>1. toServer[q] \in Seq(Sent) BY DEF VersionsTyped
<1>2. toServer'[q] = IF q = p THEN Tail(toServer[q]) ELSE toServer[q]
    BY DEF VersionsTyped, Got
<1>3. q = p => toServer[q] # <<>> /\ Head(toServer[q]).type # "delete" BY DEF Got
<1> QED BY <1>1, <1>2, <1>3, DropsTaken

\* What is told to all panels, or not worth telling, keeps the announcements whole.
LEMMA ToldToAll ==
    ASSUME VersionsInv, NEW m \in Announced, Tell(m), view' = view,
           \A s \in Range(steps') : \/ s \in Range(m.list)
                                    \/ m.type = "step_appended" /\ s \in Range(steps),
           \A q \in Viewers : \A s : Drops(toServer[q], s) => Drops(toServer'[q], s)
    PROVE  Announces'
<1> SUFFICES ASSUME NEW p \in Viewers, NEW s \in Range(steps')
             PROVE  Reaches(view'[p], toPanel'[p], s) \/ Drops(toServer'[p], s)
    BY DEF Announces
<1>1. toPanel[p] \in Seq(Announced) /\ toPanel'[p] = Append(toPanel[p], m)
    BY DEF VersionsInv, VersionsTyped, Tell
<1>2. CASE s \in Range(m.list) BY <1>1, <1>2, ReachesTold
<1>3. CASE m.type = "step_appended" /\ s \in Range(steps)
  <2>1. Reaches(view[p], toPanel[p], s) \/ Drops(toServer[p], s)
      BY <1>3 DEF VersionsInv, Announces
  <2> QED BY <1>1, <1>3, <2>1, ReachesTold
<1> QED BY <1>2, <1>3

LEMMA ToldToNone ==
    ASSUME VersionsInv, UNCHANGED <<view, toPanel>>, Range(steps') \subseteq Range(steps),
           \A q \in Viewers : \A s : Drops(toServer[q], s) => Drops(toServer'[q], s)
    PROVE  Announces'
BY DEF VersionsInv, Announces

\* A panel that posts a message still reaches what it showed, or deletes it.
LEMMA PostKeeps ==
    ASSUME VersionsInv, NEW p \in Viewers, NEW m \in Sent, Post(p, m),
           view' = view \/ (view' = [view EXCEPT ![p] = Keep(@, Range(@) \ m.ids)]
                            /\ m.type = "delete")
    PROVE  Announces'
<1> SUFFICES ASSUME NEW q \in Viewers, NEW s \in Range(steps)
             PROVE  Reaches(view'[q], toPanel[q], s) \/ Drops(toServer'[q], s)
    BY DEF Announces, Post
<1>1. /\ toServer[q] \in Seq(Sent) /\ view[q] \in Seq(Nat)
      /\ toServer'[q] = IF q = p THEN Append(toServer[q], m) ELSE toServer[q]
    BY DEF VersionsInv, VersionsTyped, Post
<1>2. Drops(toServer[q], s) => Drops(toServer'[q], s) BY <1>1, DropsSent
<1>3. Reaches(view[q], toPanel[q], s) \/ Drops(toServer[q], s) BY DEF VersionsInv, Announces
<1>4. CASE view'[q] = view[q] BY <1>2, <1>3, <1>4
<1>5. CASE q = p /\ m.type = "delete" /\ view'[q] = Keep(view[q], Range(view[q]) \ m.ids)
  <2>1. CASE s \in m.ids BY <1>1, <1>5, <2>1, DropsSent
  <2>2. CASE s \notin m.ids
    <3>1. Range(view'[q]) = Range(view[q]) \cap (Range(view[q]) \ m.ids) BY <1>1, <1>5, KeepRange
    <3>2. s \in Range(view[q]) => s \in Range(view'[q]) BY <2>2, <3>1
    <3>3. Reaches(view[q], toPanel[q], s) => Reaches(view'[q], toPanel[q], s)
        BY <3>2 DEF Reaches
    <3> QED BY <1>2, <1>3, <3>3
  <2> QED BY <2>1, <2>2
<1>6. view'[q] = view[q] \/ (q = p /\ m.type = "delete"
                             /\ view'[q] = Keep(view[q], Range(view[q]) \ m.ids))
    BY DEF VersionsInv, VersionsTyped
<1> QED BY <1>4, <1>5, <1>6

LEMMA VersionsStart == VersionsInit => VersionsInv
<1> SUFFICES ASSUME VersionsInit PROVE VersionsInv OBVIOUS
<1>1. steps \in Seq(Nat)
  <2>1. FirstSteps \in Nat BY VersionsAssumption
  <2> QED BY <2>1 DEF VersionsInit
<1>2. VersionsTyped
  <2>1. FirstSteps \in Nat BY VersionsAssumption
  <2>2. <<>> \in Seq(Nat) /\ <<0>> \in Seq(Nat) /\ <<>> \in Seq(Sent) /\ <<>> \in Seq(Announced)
      OBVIOUS
  <2>3. Free \in [kind : {"none", "save", "load"}, name : Names \cup {"none", "main"},
                  list : Seq(Nat)]
      BY <2>2 DEF Free
  <2> QED BY <1>1, <2>1, <2>2, <2>3 DEF VersionsInit, VersionsTyped, Missing
<1>3. Announces
  <2> SUFFICES ASSUME NEW p \in Viewers, NEW s \in Range(steps) PROVE Reaches(view[p], toPanel[p], s)
      BY DEF Announces
  <2>1. view[p] = steps /\ toPanel[p] = <<>> BY DEF VersionsInit
  <2> QED BY <2>1 DEF Reaches
<1> QED BY <1>2, <1>3 DEF VersionsInv

\* What a panel may post, and what that leaves typed.
LEMMA PostTyped ==
    ASSUME VersionsTyped, NEW p \in Viewers, NEW m \in Sent, Post(p, m),
           view' \in [Viewers -> Seq(Nat)]
    PROVE  VersionsTyped'
<1>1. toServer' \in [Viewers -> Seq(Sent)] BY DEF VersionsTyped, Post
<1> QED BY <1>1 DEF VersionsTyped, Post

LEMMA PanelKeeps ==
    ASSUME VersionsInv, NEW p \in Viewers, PanelActs(p) PROVE VersionsInv'
<1>0. view \in [Viewers -> Seq(Nat)] /\ VersionsTyped BY DEF VersionsInv, VersionsTyped
<1>1. \A id \in Range(view[p]) : id \in Nat BY <1>0 DEF Range
<1>2. \A t \in {"append", "duplicate", "delete", "save", "delete_version", "save_to_file",
                "load_from_file", "load"},
         n \in Names \cup {"none", "main"}, ids \in SUBSET Nat :
         t # "load" \/ n # "none" \/ "none" \in Names
            => [type |-> t, name |-> n, ids |-> ids] \in Sent
    BY DEF Sent
<1>3. ASSUME NEW m \in Sent, Post(p, m), UNCHANGED view PROVE VersionsInv'
    BY <1>0, <1>3, PostTyped, PostKeeps DEF VersionsInv
<1>4. CASE PostAppend(p)
  <2>1. PICK after \in Range(view[p]) \cup {0} :
          Post(p, [type |-> "append", name |-> "none", ids |-> {after}])
      BY <1>4 DEF PostAppend
  <2>2. [type |-> "append", name |-> "none", ids |-> {after}] \in Sent BY <1>1, <1>2
  <2> QED BY <1>3, <1>4, <2>1, <2>2 DEF PostAppend
<1>5. CASE PostDuplicate(p)
  <2>1. PICK id \in Range(view[p]) :
          Post(p, [type |-> "duplicate", name |-> "none", ids |-> {id}])
      BY <1>5 DEF PostDuplicate
  <2>2. [type |-> "duplicate", name |-> "none", ids |-> {id}] \in Sent BY <1>1, <1>2
  <2> QED BY <1>3, <1>5, <2>1, <2>2 DEF PostDuplicate
<1>6. CASE PostDelete(p)
  <2>1. PICK id \in Range(view[p]) :
          /\ Post(p, [type |-> "delete", name |-> "none", ids |-> {id}])
          /\ view' = [view EXCEPT ![p] = Keep(@, Range(@) \ {id})]
      BY <1>6 DEF PostDelete
  <2> DEFINE m == [type |-> "delete", name |-> "none", ids |-> {id}]
  <2>2. m \in Sent BY <1>1, <1>2
  <2>3. view' = [view EXCEPT ![p] = Keep(@, Range(@) \ m.ids)] /\ m.type = "delete" BY <2>1
  <2>4. view' \in [Viewers -> Seq(Nat)]
    <3>1. Keep(view[p], Range(view[p]) \ {id}) \in Seq(Nat) BY <1>0, KeepRange
    <3> QED BY <1>0, <2>1, <3>1
  <2>5. Post(p, m) BY <2>1
  <2> HIDE DEF m
  <2> QED BY <1>0, <2>2, <2>3, <2>4, <2>5, PostTyped, PostKeeps DEF VersionsInv
<1>7. CASE PostVersion(p)
  <2>1. PICK n \in Names, t \in {"save", "load", "delete_version"} :
          Post(p, [type |-> t, name |-> n, ids |-> Range(view[p])])
      BY <1>7 DEF PostVersion
  <2>2. [type |-> t, name |-> n, ids |-> Range(view[p])] \in Sent
    <3>1. Range(view[p]) \in SUBSET Nat BY <1>1
    <3> QED BY <3>1 DEF Sent
  <2> QED BY <1>3, <1>7, <2>1, <2>2 DEF PostVersion
<1>8. CASE PostFile(p)
  <2>1. PICK t \in {"save_to_file", "load_from_file"} :
          Post(p, [type |-> t, name |-> "none", ids |-> {}])
      BY <1>8 DEF PostFile
  <2>2. [type |-> t, name |-> "none", ids |-> {}] \in Sent BY <1>2
  <2> QED BY <1>3, <1>8, <2>1, <2>2 DEF PostFile
<1>9. CASE PostMain(p)
  <2>1. [type |-> "load", name |-> "main", ids |-> {}] \in Sent BY <1>2
  <2> QED BY <1>3, <1>9, <2>1 DEF PostMain
<1>10. CASE Reload(p)
  <2>1. steps \in Seq(Nat) /\ toPanel \in [Viewers -> Seq(Announced)] BY DEF VersionsInv, VersionsTyped
  <2>2. Loaded(steps) \in Announced /\ Range(Loaded(steps).list) = Range(steps) BY <2>1, LoadedIds
  <2> DEFINE m == Loaded(steps)
  <2>3. \A q \in Viewers : toPanel'[q] = IF q = p THEN <<m>> ELSE Append(toPanel[q], m)
      BY <1>10 DEF Reload
  <2>4. toPanel' \in [Viewers -> Seq(Announced)] BY <1>10, <2>1, <2>2 DEF Reload
  <2>5. view' \in [Viewers -> Seq(Nat)] BY <1>0, <1>10 DEF Reload
  <2>6. VersionsTyped' BY <1>0, <1>10, <2>4, <2>5 DEF VersionsTyped, Reload
  <2>7. steps' = steps BY <1>10 DEF Reload
  <2>9. m \in Announced /\ Range(m.list) = Range(steps) BY <2>2
  <2> HIDE DEF m
  <2>8. ASSUME NEW q \in Viewers, NEW s \in Range(steps) PROVE Reaches(view'[q], toPanel'[q], s)
    <3>1. CASE q = p
      <4>1. Len(<<m>>) = 1 /\ <<m>>[1] = m /\ 2..1 = {} OBVIOUS
      <4>2. 1 \in 1..Len(<<m>>) /\ (1 + 1)..Len(<<m>>) = {} BY <4>1
      <4>3. Reaches(view'[q], <<m>>, s) BY <2>9, <4>1, <4>2 DEF Reaches
      <4> QED BY <2>3, <3>1, <4>3
    <3>2. CASE q # p
      <4>1. toPanel[q] \in Seq(Announced) /\ s \in Range(m.list) BY <2>1, <2>9
      <4>2. Reaches(view'[q], Append(toPanel[q], m), s) BY <2>9, <4>1, ReachesTold
      <4> QED BY <2>3, <3>2, <4>2
    <3> QED BY <3>1, <3>2
  <2> QED BY <2>6, <2>7, <2>8 DEF VersionsInv, Announces
<1>11. CASE Hear(p)
  <2>1. /\ toPanel[p] # <<>> /\ toPanel[p] \in Seq(Announced) /\ view[p] \in Seq(Nat)
        /\ toPanel \in [Viewers -> Seq(Announced)]
        /\ toPanel' = [toPanel EXCEPT ![p] = Tail(@)]
        /\ UNCHANGED <<steps, toServer>>
      BY <1>0, <1>11 DEF Hear, VersionsTyped
  <2> DEFINE m == Head(toPanel[p])
             now == IF m.type = "step_appended" THEN view[p] \o m.list ELSE m.list
  <2>2. view' = [view EXCEPT ![p] = now] BY <1>11 DEF Hear
  <2>3. now \in Seq(Nat)
    <3>1. m \in Announced BY <2>1
    <3>2. m.list \in Seq(Nat) BY <3>1 DEF Announced
    <3> QED BY <2>1, <3>2
  <2>4. VersionsTyped'
    <3>1. Tail(toPanel[p]) \in Seq(Announced) BY <2>1
    <3>2. toPanel' \in [Viewers -> Seq(Announced)] BY <2>1, <3>1
    <3> HIDE DEF now
    <3>3. view' \in [Viewers -> Seq(Nat)] BY <1>0, <2>2, <2>3
    <3> QED BY <1>0, <1>11, <3>2, <3>3 DEF VersionsTyped, Hear
  <2>5. ASSUME NEW s, Reaches(view[p], toPanel[p], s) PROVE Reaches(now, Tail(toPanel[p]), s)
      BY <2>1, <2>5, ReachesHeard
  <2> HIDE DEF now
  <2>6. \A q \in Viewers : q # p => view'[q] = view[q] /\ toPanel'[q] = toPanel[q]
      BY <1>0, <2>1, <2>2
  <2>7. view'[p] = now /\ toPanel'[p] = Tail(toPanel[p]) BY <1>0, <2>1, <2>2
  <2>8. Announces' BY <2>1, <2>5, <2>6, <2>7 DEF VersionsInv, Announces
  <2> QED BY <2>4, <2>8 DEF VersionsInv
<1> QED BY <1>4, <1>5, <1>6, <1>7, <1>8, <1>9, <1>10, <1>11 DEF PanelActs

\* A handler that announces what it did, or did nothing a panel could miss.
LEMMA HandlerTyped ==
    ASSUME VersionsTyped, NEW p \in Viewers, NEW type, Got(p, type)
    PROVE  toServer' \in [Viewers -> Seq(Sent)] /\ Head(toServer[p]) \in Sent
<1>1. toServer[p] \in Seq(Sent) /\ toServer[p] # <<>> BY DEF VersionsTyped, Got
<1>2. Tail(toServer[p]) \in Seq(Sent) /\ Head(toServer[p]) \in Sent BY <1>1
<1> QED BY <1>2 DEF VersionsTyped, Got

LEMMA TellTyped ==
    ASSUME VersionsTyped, NEW m \in Announced, Tell(m)
    PROVE  toPanel' \in [Viewers -> Seq(Announced)]
BY DEF VersionsTyped, Tell

LEMMA RecordKeeps == VersionsInv /\ RecordStep => VersionsInv'
<1> SUFFICES ASSUME VersionsInv, RecordStep PROVE VersionsInv' OBVIOUS
<1>1. VersionsTyped /\ steps \in Seq(Nat) /\ lastId + 1 \in Nat BY DEF VersionsInv, VersionsTyped
<1> DEFINE m == Appended(lastId + 1)
<1>2. m \in Announced /\ m.type = "step_appended" /\ lastId + 1 \in Range(m.list)
    BY <1>1, AppendedIds
<1>3. /\ steps' \in Seq(Nat) /\ Range(steps') \subseteq Range(steps) \cup {lastId + 1}
      /\ Tell(m) /\ lastId' = lastId + 1
      /\ UNCHANGED <<original, versions, file, view, toServer, job, edits>>
    BY <1>1, AppendIds DEF RecordStep
<1> HIDE DEF m
<1>4. toPanel' \in [Viewers -> Seq(Announced)] BY <1>1, <1>2, <1>3, TellTyped
<1>5. VersionsTyped' BY <1>1, <1>3, <1>4 DEF VersionsTyped
<1>6. Announces' BY <1>2, <1>3, ToldToAll
<1> QED BY <1>5, <1>6 DEF VersionsInv

LEMMA ServerKeeps ==
    ASSUME VersionsInv, NEW p \in Viewers, ServerActs(p) PROVE VersionsInv'
<1>0. VersionsTyped /\ job[p] \in [kind : {"none", "save", "load"}, name : Names \cup {"none", "main"},
                                   list : Seq(Nat)]
      /\ toPanel \in [Viewers -> Seq(Announced)] /\ steps \in Seq(Nat)
      /\ original \in Seq(Nat) /\ file \in Seq(Nat) /\ versions \in [Names -> Seq(Nat)]
    BY DEF VersionsInv, VersionsTyped
\* A new step that is announced.
<1>1. ASSUME NEW type, Got(p, type), type # "delete", NEW after, InsertBehind(after),
             Tell(Appended(lastId + 1)), UNCHANGED <<original, versions, file, view, job, edits>>
      PROVE  VersionsInv'
  <2> DEFINE m == Appended(lastId + 1)
  <2>1. /\ steps' \in Seq(Nat) /\ lastId' = lastId + 1 /\ lastId + 1 \in Nat
        /\ Range(steps') \subseteq Range(steps) \cup {lastId + 1}
      BY <1>0, <1>1, InsertBehindIds
  <2>2. m \in Announced /\ m.type = "step_appended" /\ lastId + 1 \in Range(m.list)
      BY <2>1, AppendedIds
  <2>3. Tell(m) BY <1>1
  <2> HIDE DEF m
  <2>4. toPanel' \in [Viewers -> Seq(Announced)] /\ toServer' \in [Viewers -> Seq(Sent)]
      BY <1>0, <1>1, <2>2, <2>3, TellTyped, HandlerTyped
  <2>5. VersionsTyped' BY <1>0, <1>1, <2>1, <2>4 DEF VersionsTyped
  <2>6. \A q \in Viewers : \A s : Drops(toServer[q], s) => Drops(toServer'[q], s)
      BY <1>0, <1>1, DropsStay
  <2>7. Announces' BY <1>1, <2>1, <2>2, <2>3, <2>6, ToldToAll
  <2> QED BY <2>5, <2>7 DEF VersionsInv
\* A list that replaces the steps.
<1>2. ASSUME NEW list \in Seq(Nat), steps' = list, Tell(Loaded(list)),
             UNCHANGED <<lastId, original, versions, file, view, edits>>,
             toServer' \in [Viewers -> Seq(Sent)],
             job' \in [Viewers -> [kind : {"none", "save", "load"},
                                   name : Names \cup {"none", "main"}, list : Seq(Nat)]],
             \A q \in Viewers : \A s : Drops(toServer[q], s) => Drops(toServer'[q], s)
      PROVE  VersionsInv'
  <2> DEFINE m == Loaded(list)
  <2>1. m \in Announced /\ Range(m.list) = Range(list) BY LoadedIds
  <2>2. Tell(m) BY <1>2
  <2> HIDE DEF m
  <2>3. toPanel' \in [Viewers -> Seq(Announced)] BY <1>0, <2>1, <2>2, TellTyped
  <2>4. VersionsTyped' BY <1>0, <1>2, <2>3 DEF VersionsTyped
  <2>5. Announces' BY <1>2, <2>1, <2>2, ToldToAll
  <2> QED BY <2>4, <2>5 DEF VersionsInv
\* A handler that leaves steps and panels alone.
<1>3. ASSUME UNCHANGED <<steps, lastId, view, toPanel>>,
             original' \in Seq(Nat), file' \in Seq(Nat), versions' \in [Names -> Seq(Nat)],
             toServer' \in [Viewers -> Seq(Sent)],
             job' \in [Viewers -> [kind : {"none", "save", "load"},
                                   name : Names \cup {"none", "main"}, list : Seq(Nat)]],
             \A q \in Viewers : \A s : Drops(toServer[q], s) => Drops(toServer'[q], s)
      PROVE  VersionsInv'
  <2>1. VersionsTyped' BY <1>0, <1>3 DEF VersionsTyped
  <2>2. Announces' BY <1>3, ToldToNone
  <2> QED BY <2>1, <2>2 DEF VersionsInv
<1>4. ASSUME NEW type, Got(p, type), type # "delete"
      PROVE  /\ toServer' \in [Viewers -> Seq(Sent)] /\ Head(toServer[p]) \in Sent
             /\ Head(toServer[p]).type = type
             /\ \A q \in Viewers : \A s : Drops(toServer[q], s) => Drops(toServer'[q], s)
    BY <1>0, <1>4, HandlerTyped, DropsStay DEF Got
<1>5. CASE AppendStep(p) BY <1>1, <1>5 DEF AppendStep
<1>6. CASE DuplicateStep(p)
  <2>1. PICK id \in Head(toServer[p]).ids :
          IF id \in Range(steps) THEN InsertBehind(id) /\ Tell(Appended(lastId + 1))
                                 ELSE UNCHANGED <<steps, lastId, toPanel>>
      BY <1>6 DEF DuplicateStep
  <2>2. Got(p, "duplicate") /\ UNCHANGED <<original, versions, file, view, job, edits>>
      BY <1>6 DEF DuplicateStep
  <2>3. CASE id \in Range(steps) BY <1>1, <2>1, <2>2, <2>3
  <2>4. CASE id \notin Range(steps)
    <3>1. UNCHANGED <<steps, lastId, view, toPanel, original, versions, file, job>> BY <2>1, <2>2, <2>4
    <3>2. job' \in [Viewers -> [kind : {"none", "save", "load"},
                                name : Names \cup {"none", "main"}, list : Seq(Nat)]]
        BY <1>0, <3>1 DEF VersionsTyped
    <3> QED BY <1>0, <1>3, <1>4, <2>2, <3>1, <3>2
  <2> QED BY <2>3, <2>4
<1>7. CASE DeleteStep(p)
  <2> DEFINE m == Head(toServer[p])
  <2>1. /\ Got(p, "delete") /\ steps' = Keep(steps, Range(steps) \ m.ids)
        /\ UNCHANGED <<lastId, original, versions, file, view, toPanel, job, edits>>
      BY <1>7 DEF DeleteStep
  <2>2. steps' \in Seq(Nat) /\ Range(steps') = Range(steps) \cap (Range(steps) \ m.ids)
      BY <1>0, <2>1, KeepRange
  <2>3. toServer' \in [Viewers -> Seq(Sent)] BY <1>0, <2>1, HandlerTyped
  <2>4. VersionsTyped' BY <1>0, <2>1, <2>2, <2>3 DEF VersionsTyped
  <2>5. ASSUME NEW q \in Viewers, NEW s, Drops(toServer[q], s)
        PROVE  Drops(toServer'[q], s) \/ s \in m.ids
    <3>1. toServer[q] \in Seq(Sent) BY <1>0 DEF VersionsTyped
    <3>2. toServer'[q] = IF q = p THEN Tail(toServer[q]) ELSE toServer[q]
        BY <1>0, <2>1 DEF VersionsTyped, Got
    <3>3. toServer[p] # <<>> BY <2>1 DEF Got
    <3> QED BY <2>5, <3>1, <3>2, <3>3, DropsTaken
  <2> HIDE DEF m
  <2>6. Announces' BY <2>1, <2>2, <2>5 DEF VersionsInv, Announces
  <2> QED BY <2>4, <2>6 DEF VersionsInv
<1>8. CASE SaveVersion(p)
  <2> DEFINE m == Head(toServer[p])
             list == Keep(steps, m.ids)
  <2>1. /\ Got(p, "save") /\ original' = (IF original = <<>> THEN steps ELSE original)
        /\ job' = [job EXCEPT ![p] = [kind |-> "save", name |-> m.name, list |-> list]]
        /\ UNCHANGED <<steps, lastId, versions, file, view, toPanel, edits>>
      BY <1>8 DEF SaveVersion
  <2>2. list \in Seq(Nat) BY <1>0, KeepRange
  <2>3. m.name \in Names \cup {"none", "main"} BY <1>4, <2>1 DEF Sent
  <2> HIDE DEF m, list
  <2>4. job' \in [Viewers -> [kind : {"none", "save", "load"},
                              name : Names \cup {"none", "main"}, list : Seq(Nat)]]
      BY <1>0, <2>1, <2>2, <2>3 DEF VersionsTyped
  <2>5. original' \in Seq(Nat) BY <1>0, <2>1
  <2> QED BY <1>0, <1>3, <1>4, <2>1, <2>4, <2>5
<1>9. CASE SaveWritten(p)
  <2>1. job' \in [Viewers -> [kind : {"none", "save", "load"},
                              name : Names \cup {"none", "main"}, list : Seq(Nat)]]
    <3>1. <<>> \in Seq(Nat) OBVIOUS
    <3> QED BY <1>0, <1>9, <3>1 DEF VersionsTyped, SaveWritten, Free
  <2>2. versions' \in [Names -> Seq(Nat)] BY <1>0, <1>9 DEF SaveWritten
  <2>3. UNCHANGED <<steps, lastId, view, toPanel, original, file, toServer>>
      BY <1>9 DEF SaveWritten
  <2>4. toServer' \in [Viewers -> Seq(Sent)] BY <1>0, <2>3 DEF VersionsTyped
  <2> QED BY <1>0, <1>3, <2>1, <2>2, <2>3, <2>4
<1>10. CASE LoadMain(p)
  <2> DEFINE list == IF original = <<>> THEN steps ELSE original
  <2>1. /\ Got(p, "load") /\ steps' = list /\ Tell(Loaded(steps'))
        /\ UNCHANGED <<lastId, original, versions, file, view, job, edits>>
      BY <1>10 DEF LoadMain
  <2>2. list \in Seq(Nat) BY <1>0
  <2> HIDE DEF list
  <2>3. job' \in [Viewers -> [kind : {"none", "save", "load"},
                              name : Names \cup {"none", "main"}, list : Seq(Nat)]]
      BY <1>0, <2>1 DEF VersionsTyped
  <2>4. Tell(Loaded(list)) BY <2>1
  <2> QED BY <1>2, <1>4, <2>1, <2>2, <2>3, <2>4
<1>11. CASE LoadVersion(p)
  <2> DEFINE n == Head(toServer[p]).name
  <2>1. /\ Got(p, "load") /\ n # "main"
        /\ job' = [job EXCEPT ![p] = [kind |-> "load", name |-> n, list |-> versions[n]]]
        /\ UNCHANGED <<steps, lastId, original, versions, file, view, toPanel, edits>>
      BY <1>11 DEF LoadVersion
  <2>2. n \in Names BY <1>4, <2>1 DEF Sent
  <2> HIDE DEF n
  <2>3. versions[n] \in Seq(Nat) BY <1>0, <2>2
  <2>4. job' \in [Viewers -> [kind : {"none", "save", "load"},
                              name : Names \cup {"none", "main"}, list : Seq(Nat)]]
      BY <1>0, <2>1, <2>2, <2>3 DEF VersionsTyped
  <2> QED BY <1>0, <1>3, <1>4, <2>1, <2>4
<1>12. CASE LoadedVersion(p)
  <2>1. job' \in [Viewers -> [kind : {"none", "save", "load"},
                              name : Names \cup {"none", "main"}, list : Seq(Nat)]]
    <3>1. <<>> \in Seq(Nat) OBVIOUS
    <3> QED BY <1>0, <1>12, <3>1 DEF VersionsTyped, LoadedVersion, Free
  <2>2. UNCHANGED <<lastId, original, versions, file, view, toServer, edits>>
      BY <1>12 DEF LoadedVersion
  <2>3. toServer' \in [Viewers -> Seq(Sent)] BY <1>0, <2>2 DEF VersionsTyped
  <2>4. CASE UNCHANGED <<steps, toPanel>> BY <1>0, <1>3, <2>1, <2>2, <2>3, <2>4
  <2>5. CASE steps' = job[p].list /\ Tell(Loaded(job[p].list))
    <3>1. job[p].list \in Seq(Nat) BY <1>0
    <3> QED BY <1>2, <2>1, <2>2, <2>3, <2>5, <3>1
  <2> QED BY <1>12, <2>4, <2>5 DEF LoadedVersion
<1>13. CASE DeleteVersion(p)
  <2>1. /\ Got(p, "delete_version")
        /\ versions' = [versions EXCEPT ![Head(toServer[p]).name] = Missing]
        /\ UNCHANGED <<steps, lastId, original, view, toPanel, job, edits, file>>
      BY <1>13 DEF DeleteVersion
  <2>2. Missing \in Seq(Nat) BY DEF Missing
  <2>3. versions' \in [Names -> Seq(Nat)] BY <1>0, <2>1, <2>2
  <2>4. job' \in [Viewers -> [kind : {"none", "save", "load"},
                              name : Names \cup {"none", "main"}, list : Seq(Nat)]]
      BY <1>0, <2>1 DEF VersionsTyped
  <2> QED BY <1>0, <1>3, <1>4, <2>1, <2>3, <2>4
<1>14. CASE SaveToFile(p)
  <2>1. /\ Got(p, "save_to_file") /\ file' \in Seq(Nat)
        /\ UNCHANGED <<steps, lastId, original, versions, view, toPanel, job, edits>>
      BY <1>0, <1>14 DEF SaveToFile
  <2>2. job' \in [Viewers -> [kind : {"none", "save", "load"},
                              name : Names \cup {"none", "main"}, list : Seq(Nat)]]
      BY <1>0, <2>1 DEF VersionsTyped
  <2> QED BY <1>0, <1>3, <1>4, <2>1, <2>2
<1>15. CASE LoadFromFile(p)
  <2>1. Got(p, "load_from_file") /\ UNCHANGED <<lastId, original, versions, file, view, job, edits>>
      BY <1>15 DEF LoadFromFile
  <2>2. job' \in [Viewers -> [kind : {"none", "save", "load"},
                              name : Names \cup {"none", "main"}, list : Seq(Nat)]]
      BY <1>0, <2>1 DEF VersionsTyped
  <2>3. CASE UNCHANGED <<steps, toPanel>> BY <1>0, <1>3, <1>4, <2>1, <2>2, <2>3
  <2>4. CASE steps' = file /\ Tell(Loaded(file)) BY <1>0, <1>2, <1>4, <2>1, <2>2, <2>4
  <2> QED BY <1>15, <2>3, <2>4 DEF LoadFromFile
<1> QED BY <1>5, <1>6, <1>7, <1>8, <1>9, <1>10, <1>11, <1>12, <1>13, <1>14, <1>15 DEF ServerActs

LEMMA VersionsStep == VersionsInv /\ [VersionsNext]_versionVars => VersionsInv'
<1> SUFFICES ASSUME VersionsInv, [VersionsNext]_versionVars PROVE VersionsInv' OBVIOUS
<1>1. CASE RecordStep BY <1>1, RecordKeeps
<1>2. ASSUME NEW p \in Viewers, PanelActs(p) \/ ServerActs(p) PROVE VersionsInv'
    BY <1>2, PanelKeeps, ServerKeeps
<1>3. CASE UNCHANGED versionVars
    BY <1>3 DEF VersionsInv, VersionsTyped, Announces, versionVars
<1> QED BY <1>1, <1>2, <1>3 DEF VersionsNext

\* Every list of a panel session holds ids, every message is one that its receiver knows.
THEOREM VersionsAreTyped == VersionsSpec => []VersionsTyped
<1>1. VersionsInv => VersionsTyped BY DEF VersionsInv
<1> QED BY <1>1, VersionsStart, VersionsStep, PTL DEF VersionsSpec

\* NoHiddenStep: a panel with nothing on its way, either way, reaches only what it shows.
THEOREM PanelsShowTheSteps == VersionsSpec => []NoHiddenStep
<1>1. VersionsInv => NoHiddenStep
  <2> SUFFICES ASSUME VersionsInv, NEW p \in Viewers, toPanel[p] = <<>>, toServer[p] = <<>>,
                      NEW s \in Range(steps)
               PROVE  s \in Range(view[p])
      BY DEF NoHiddenStep
  <2>1. Reaches(view[p], <<>>, s) \/ Drops(<<>>, s) BY DEF VersionsInv, Announces
  <2>2. Len(<<>>) = 0 /\ 1..0 = {} OBVIOUS
  <2> QED BY <2>1, <2>2 DEF Reaches, Drops
<1> QED BY <1>1, VersionsStart, VersionsStep, PTL DEF VersionsSpec

-----------------------------------------------------------------------------
(*****************************************************************************)
(* InteractiveReplay, for every number of sessions and of runs, every graph  *)
(* and every page: the errors of a session are those of its last runs, and   *)
(* a fix is written where its probe found the element.                       *)
(*****************************************************************************)

-----------------------------------------------------------------------------
\* A stored step graph: of its locators it is only said that each step has them.
IsGraph(g) ==
    \E E, T : g \in [steps : Seq(StepIds), edges : E, target : [StepIds -> T]]

RunRecord == [kind : {"step", "range"}, session : Sessions, doing : StepIds \cup {None},
              todo : Seq(StepIds)]

Places == {"probe", "area", "matched", "matched with area", "fixed", "refused"}

\* Where a fix is when its probe got past the page.
PastThePage == {"area", "matched", "matched with area"}

FixRecord == [session : Sessions, step : StepIds, at : Places]

ReplayTyped ==
    /\ fresh \subseteq NewSteps /\ IsGraph(disk) /\ current \in {0} \cup Sessions
    /\ live \in [Sessions -> {"none", "open", "closing", "closed"}]
    /\ DOMAIN graph = Sessions /\ graph = [i \in Sessions |-> graph[i]]
    /\ errors \in [Sessions -> SUBSET StepIds]
    /\ ending \in [Sessions -> [Uploads -> {"none", "passed", "failed"}]]
    /\ runs \in Seq(RunRecord)

\* A session has a graph while its browser is open or closes.
HasGraph(i) == live[i] \in {"open", "closing"}

Opened ==
    /\ \A i \in Sessions : IF HasGraph(i) THEN IsGraph(graph[i]) ELSE graph[i] = None
    /\ current # 0 => live[current] = "open"

\* Nothing is known of a session that has not started.
Unstarted ==
    \A i \in Sessions : live[i] = "none" =>
        /\ errors[i] = {} /\ \A s \in Uploads : ending[i][s] = "none"
        /\ \A c \in DOMAIN runs : runs[c].session # i

\* An id that no insertion gave out is in no list and has no history.
Unused(s) ==
    /\ s \notin Range(disk.steps)
    /\ \A i \in Sessions : /\ HasGraph(i) => s \notin Range(graph[i].steps)
                           /\ s \notin errors[i]
                           /\ s \in Uploads => ending[i][s] = "none"
    /\ \A c \in DOMAIN runs : s # runs[c].doing /\ s \notin Range(runs[c].todo)

FreshIsUnused == \A s \in fresh : Unused(s)

OneRun == RunsAtOnce = 1 => \A c, d \in UnderWay : c = d

\* ErrorsAreCurrent of the sessions that have a graph.
ErrorsFollow ==
    RunsAtOnce = 1 =>
        \A i \in Sessions : HasGraph(i) =>
            \A s \in Uploads \cap Range(graph[i].steps) :
                s \in errors[i] <=> ending[i][s] = "failed" /\ s \notin Doing(i)

History == ReplayTyped /\ Opened /\ Unstarted /\ FreshIsUnused /\ OneRun /\ ErrorsFollow

\* A probe that got past the page found a selector of the step there.
FoundThere(i, s) == \E x \in Range(SelectorsOf[s]) : <<i, s, x>> \in matched

Probes ==
    /\ fixes \in Seq(FixRecord)
    /\ \A f \in DOMAIN fixes :
         fixes[f].at \in PastThePage => FoundThere(fixes[f].session, fixes[f].step)

LocatorsStay == current # 0 /\ current' = current => graph'[current].target = graph[current].target

-----------------------------------------------------------------------------
LEMMA InDoing ==
    \A i, s : s \in Doing(i) <=> \E c \in DOMAIN runs : runs[c].session = i /\ runs[c].doing = s
BY DEF Doing

LEMMA HistoryStays ==
    History /\ UNCHANGED <<fresh, disk, current, live, graph, errors, ending, runs>>
        => History' /\ LocatorsStay
BY DEF History, ReplayTyped, Opened, Unstarted, FreshIsUnused, Unused, OneRun, UnderWay,
       ErrorsFollow, Doing, LocatorsStay, HasGraph

LEMMA ProbesStay == Probes /\ UNCHANGED <<fixes, matched>> => Probes'
BY DEF Probes, FoundThere

LEMMA ReplayStarts == Init => History /\ Probes
<1> SUFFICES ASSUME Init PROVE History /\ Probes OBVIOUS
<1>1. IsGraph(disk)
  <2>1. disk = [steps |-> Steps0, edges |-> Linear(Steps0), target |-> SelectorsOf] BY DEF Init
  <2>2. Steps0 \in Seq(StepIds)
    <3>1. Steps0 \in Seq(Range(Steps0)) BY InteractiveAssumption
    <3>2. Range(Steps0) \subseteq StepIds BY DEF StepIds
    <3>3. \A i \in 1..Len(Steps0) : Steps0[i] \in StepIds BY <3>1, <3>2
    <3> QED BY <3>1, <3>3
  <2>3. PICK T : SelectorsOf \in [StepIds -> T] BY InteractiveAssumption
  <2>4. disk \in [steps : Seq(StepIds), edges : {Linear(Steps0)}, target : [StepIds -> T]]
      BY <2>1, <2>2, <2>3
  <2> QED BY <2>4 DEF IsGraph
<1>2. /\ fresh = NewSteps /\ current = 0 /\ live = [i \in Sessions |-> "none"]
      /\ graph = [i \in Sessions |-> None] /\ errors = [i \in Sessions |-> {}]
      /\ ending = [i \in Sessions |-> [s \in Uploads |-> "none"]]
      /\ runs = <<>> /\ fixes = <<>> /\ matched = {} /\ disk.steps = Steps0
    BY DEF Init
<1>3. ReplayTyped
  <2>1. <<>> \in Seq(RunRecord) OBVIOUS
  <2> QED BY <1>1, <1>2, <2>1 DEF ReplayTyped
<1>4. Opened BY <1>2 DEF Opened, HasGraph
<1>5. Unstarted BY <1>2 DEF Unstarted
<1>6. FreshIsUnused
  <2>1. \A s \in NewSteps : s \notin Range(Steps0) BY InteractiveAssumption
  <2> QED BY <1>2, <2>1 DEF FreshIsUnused, Unused, HasGraph
<1>7. OneRun BY <1>2 DEF OneRun, UnderWay
<1>8. ErrorsFollow BY <1>2 DEF ErrorsFollow, HasGraph
<1>9. Probes
  <2>1. <<>> \in Seq(FixRecord) OBVIOUS
  <2> QED BY <1>2, <2>1 DEF Probes
<1> QED BY <1>3, <1>4, <1>5, <1>6, <1>7, <1>8, <1>9 DEF History

-----------------------------------------------------------------------------
(* Sessions. *)

LEMMA StartKeeps == \A i \in Sessions : History /\ Start(i) => History' /\ LocatorsStay
<1> SUFFICES ASSUME History, NEW i \in Sessions, Start(i) PROVE History' /\ LocatorsStay
    OBVIOUS
<1>1. /\ current = 0 /\ live[i] = "none" /\ current' = i
      /\ UNCHANGED <<fresh, disk, errors, ending, runs>>
    BY DEF Start
<1>2. /\ live' \in [Sessions -> {"none", "open", "closing", "closed"}]
      /\ DOMAIN graph' = Sessions /\ graph' = [j \in Sessions |-> graph'[j]]
      /\ \A j \in Sessions : /\ live'[j] = IF j = i THEN "open" ELSE live[j]
                             /\ graph'[j] = IF j = i THEN disk ELSE graph[j]
    BY DEF Start, History, ReplayTyped
<1>3. i # 0 BY InteractiveAssumption DEF Sessions
<1>4. IsGraph(disk) BY DEF History, ReplayTyped
<1>5. ReplayTyped' BY <1>1, <1>2 DEF History, ReplayTyped
<1>6. Opened' BY <1>1, <1>2, <1>4 DEF History, Opened, HasGraph
<1>7. Unstarted' BY <1>1, <1>2 DEF History, Unstarted
<1>8. FreshIsUnused' BY <1>1, <1>2 DEF History, FreshIsUnused, Unused, HasGraph
<1>9. OneRun' BY <1>1 DEF History, OneRun, UnderWay
<1>10. ErrorsFollow'
  <2> SUFFICES ASSUME RunsAtOnce = 1, NEW j \in Sessions, HasGraph(j)',
                      NEW s \in Uploads \cap Range(graph'[j].steps)
               PROVE  s \in errors[j] <=> ending[j][s] = "failed" /\ s \notin Doing(j)
      BY <1>1 DEF ErrorsFollow, Doing, HasGraph
  <2>1. CASE j = i BY <1>1, <2>1 DEF History, Unstarted
  <2>2. CASE j # i BY <1>2, <2>2 DEF History, ErrorsFollow, HasGraph
  <2> QED BY <2>1, <2>2
<1>11. LocatorsStay BY <1>1 DEF LocatorsStay
<1> QED BY <1>5, <1>6, <1>7, <1>8, <1>9, <1>10, <1>11 DEF History

LEMMA StopKeeps == History /\ Stop => History' /\ LocatorsStay
<1> SUFFICES ASSUME History, Stop PROVE History' /\ LocatorsStay OBVIOUS
<1>1. /\ current # 0 /\ current' = 0 /\ UNCHANGED <<fresh, disk, graph, errors, ending, runs>>
    BY DEF Stop
<1>2. /\ live' \in [Sessions -> {"none", "open", "closing", "closed"}]
      /\ \A j \in Sessions : live'[j] = IF j = current THEN "closing" ELSE live[j]
    BY DEF Stop, History, ReplayTyped
<1>3. ReplayTyped' BY <1>1, <1>2 DEF History, ReplayTyped
<1>4. Opened' BY <1>1, <1>2 DEF History, Opened, HasGraph
<1>5. Unstarted' BY <1>1, <1>2 DEF History, Unstarted
<1>10. \A j \in Sessions : HasGraph(j)' <=> HasGraph(j)
    BY <1>1, <1>2 DEF History, Opened, HasGraph
<1>6. FreshIsUnused' BY <1>1, <1>10 DEF History, FreshIsUnused, Unused
<1>7. OneRun' BY <1>1 DEF History, OneRun, UnderWay
<1>8. ErrorsFollow' BY <1>1, <1>10 DEF History, ErrorsFollow, Doing
<1>9. LocatorsStay BY <1>1 DEF LocatorsStay
<1> QED BY <1>3, <1>4, <1>5, <1>6, <1>7, <1>8, <1>9 DEF History

LEMMA ClosedKeeps == \A i \in Sessions : History /\ Closed(i) => History' /\ LocatorsStay
<1> SUFFICES ASSUME History, NEW i \in Sessions, Closed(i) PROVE History' /\ LocatorsStay
    OBVIOUS
<1>1. live[i] = "closing" /\ UNCHANGED <<fresh, disk, current, errors, ending, runs>>
    BY DEF Closed
<1>2. /\ live' \in [Sessions -> {"none", "open", "closing", "closed"}]
      /\ DOMAIN graph' = Sessions /\ graph' = [j \in Sessions |-> graph'[j]]
      /\ \A j \in Sessions : /\ live'[j] = IF j = i THEN "closed" ELSE live[j]
                             /\ graph'[j] = IF j = i THEN None ELSE graph[j]
    BY DEF Closed, History, ReplayTyped
<1>3. current # 0 => current # i /\ current \in Sessions
    BY <1>1 DEF History, Opened, ReplayTyped, HasGraph
<1>4. ReplayTyped' BY <1>1, <1>2 DEF History, ReplayTyped
<1>5. Opened' BY <1>1, <1>2, <1>3 DEF History, Opened, HasGraph
<1>6. Unstarted' BY <1>1, <1>2 DEF History, Unstarted
<1>7. FreshIsUnused' BY <1>1, <1>2 DEF History, FreshIsUnused, Unused, HasGraph
<1>8. OneRun' BY <1>1 DEF History, OneRun, UnderWay
<1>9. ErrorsFollow' BY <1>1, <1>2 DEF History, ErrorsFollow, Doing, HasGraph
<1>10. LocatorsStay BY <1>2, <1>3 DEF LocatorsStay
<1> QED BY <1>4, <1>5, <1>6, <1>7, <1>8, <1>9, <1>10 DEF History

-----------------------------------------------------------------------------
(* Runs. *)

LEMMA NoneUnderWay ==
    ASSUME runs \in Seq(RunRecord), RunsAtOnce = 1, Cardinality(UnderWay) < RunsAtOnce
    PROVE  UnderWay = {}
<1>1. IsFiniteSet(UnderWay)
  <2>1. IsFiniteSet(1..Len(runs))
    <3>1. Len(runs) \in Nat OBVIOUS
    <3> QED BY <3>1, FS_Interval
  <2>2. UnderWay \subseteq 1..Len(runs) BY DEF UnderWay
  <2> QED BY <2>1, <2>2, FS_Subset
<1>2. Cardinality(UnderWay) \in Nat BY <1>1, FS_CardinalityType
<1>3. Cardinality(UnderWay) = 0 BY <1>2
<1> QED BY <1>1, <1>3, FS_EmptySet

LEMMA RunKeeps ==
    ASSUME History, current # 0, NEW kind \in {"step", "range"}, NEW ids \in Seq(StepIds),
           ids # <<>>, Range(ids) \subseteq Range(Steps), Run(kind, ids)
    PROVE  History' /\ LocatorsStay
<1> DEFINE s == Head(ids)
           run == [kind |-> kind, session |-> current, doing |-> s, todo |-> Tail(ids)]
           n == Len(runs)
<1>1. /\ runs' = Append(runs, run) /\ Cardinality(UnderWay) < RunsAtOnce
      /\ errors' = [errors EXCEPT ![current] = @ \ {s}]
      /\ UNCHANGED <<fresh, disk, current, live, graph, ending>>
    BY DEF Run, ForgetError
<1>2. runs \in Seq(RunRecord) /\ current \in Sessions /\ live[current] = "open"
      /\ IsGraph(graph[current])
    BY DEF History, ReplayTyped, Opened, HasGraph
<1>3. s \in StepIds /\ s \in Range(ids) /\ Tail(ids) \in Seq(StepIds)
      /\ Range(Tail(ids)) \subseteq Range(ids)
  <2>1. /\ Len(ids) \in Nat /\ Len(ids) > 0 /\ s = ids[1] /\ Tail(ids) \in Seq(StepIds)
        /\ DOMAIN ids = 1..Len(ids) /\ DOMAIN Tail(ids) = 1..(Len(ids) - 1)
        /\ \A i \in 1..(Len(ids) - 1) : Tail(ids)[i] = ids[i + 1]
      OBVIOUS
  <2>2. s \in StepIds /\ s \in Range(ids) BY <2>1 DEF Range
  <2>3. ASSUME NEW i \in 1..(Len(ids) - 1) PROVE Tail(ids)[i] \in Range(ids)
    <3>1. i + 1 \in DOMAIN ids /\ Tail(ids)[i] = ids[i + 1] BY <2>1
    <3> QED BY <3>1 DEF Range
  <2>4. Range(Tail(ids)) \subseteq Range(ids) BY <2>1, <2>3 DEF Range
  <2> QED BY <2>1, <2>2, <2>4
<1> HIDE DEF s
<1>4. run \in RunRecord /\ run.session = current /\ run.doing = s /\ run.todo = Tail(ids)
    BY <1>2, <1>3 DEF RunRecord
<1> HIDE DEF run
<1>5. /\ runs' \in Seq(RunRecord) /\ n \in Nat /\ DOMAIN runs = 1..n /\ DOMAIN runs' = 1..(n + 1)
      /\ \A c \in 1..n : runs'[c] = runs[c]
      /\ runs'[n + 1] = run
    BY <1>1, <1>2, <1>4
<1>6. \A c \in 1..(n + 1) : c \in 1..n \/ c = n + 1 BY <1>5
<1> HIDE DEF n
<1>7. \A j \in Sessions : errors'[j] = IF j = current THEN errors[j] \ {s} ELSE errors[j]
    BY <1>1, <1>2 DEF History, ReplayTyped
<1>8. ReplayTyped' BY <1>1, <1>5 DEF History, ReplayTyped
<1>9. Opened' BY <1>1 DEF History, Opened, HasGraph
<1>10. Unstarted'
  <2> SUFFICES ASSUME NEW j \in Sessions, live[j] = "none"
               PROVE  /\ errors'[j] = {} /\ \A t \in Uploads : ending[j][t] = "none"
                      /\ \A c \in DOMAIN runs' : runs'[c].session # j
      BY <1>1 DEF Unstarted
  <2>1. j # current BY <1>2
  <2>2. /\ errors[j] = {} /\ \A t \in Uploads : ending[j][t] = "none"
        /\ \A c \in 1..n : runs[c].session # j
      BY <1>5 DEF History, Unstarted
  <2>3. ASSUME NEW c \in 1..(n + 1) PROVE runs'[c].session # j
      BY <1>4, <1>5, <1>6, <2>1, <2>2
  <2> QED BY <1>5, <1>7, <2>1, <2>2, <2>3
<1>11. FreshIsUnused'
  <2> SUFFICES ASSUME NEW t \in fresh PROVE Unused(t)' BY <1>1 DEF FreshIsUnused
  <2>1. Unused(t) BY DEF History, FreshIsUnused
  <2>2. t \notin Range(Steps)
    <3>1. HasGraph(current) BY <1>2 DEF HasGraph
    <3> QED BY <1>2, <2>1, <3>1 DEF Unused, Steps, HasGraph
  <2>3. t # s /\ t \notin Range(Tail(ids)) BY <1>3, <2>2
  <2>4. \A c \in 1..(n + 1) : t # runs'[c].doing /\ t \notin Range(runs'[c].todo)
    <3>1. \A c \in 1..n : t # runs[c].doing /\ t \notin Range(runs[c].todo)
        BY <1>5, <2>1 DEF Unused
    <3> QED BY <1>4, <1>5, <1>6, <2>3, <3>1
  <2> QED BY <1>1, <1>5, <1>7, <2>1, <2>4 DEF Unused, HasGraph
<1>12. OneRun'
  <2> SUFFICES ASSUME RunsAtOnce = 1 PROVE \A c, d \in UnderWay' : c = d BY DEF OneRun
  <2>1. UnderWay = {} BY <1>1, <1>2, NoneUnderWay
  <2>2. UnderWay' \subseteq {n + 1} BY <1>5, <1>6, <2>1 DEF UnderWay
  <2> QED BY <2>2
<1>13. ErrorsFollow'
  <2> SUFFICES ASSUME RunsAtOnce = 1, NEW j \in Sessions, HasGraph(j),
                      NEW t \in Uploads \cap Range(graph[j].steps)
               PROVE  t \in errors'[j] <=> ending[j][t] = "failed" /\ t \notin Doing(j)'
      BY <1>1 DEF ErrorsFollow, HasGraph
  <2>1. t \in errors[j] <=> ending[j][t] = "failed" /\ t \notin Doing(j)
      BY DEF History, ErrorsFollow, HasGraph
  <2>2. t \in Doing(j)' <=> t \in Doing(j) \/ (j = current /\ t = s)
      BY <1>4, <1>5, <1>6 DEF Doing
  <2> QED BY <1>7, <2>1, <2>2
<1>14. LocatorsStay BY <1>1 DEF LocatorsStay
<1> QED BY <1>8, <1>9, <1>10, <1>11, <1>12, <1>13, <1>14 DEF History

\* What the end of a step changes of its run.
LEMMA Finished ==
    ASSUME History, NEW c \in DOMAIN runs, runs[c].doing # None, NEW result \in {"passed", "failed"},
           NEW after, after = None \/ (runs[c].todo # <<>> /\ after = Head(runs[c].todo)),
           Finish(c, result, after)
    PROVE  /\ runs[c] \in RunRecord /\ runs' \in Seq(RunRecord) /\ DOMAIN runs' = DOMAIN runs
           /\ \A d \in DOMAIN runs : d # c => runs'[d] = runs[d]
           /\ runs'[c].session = runs[c].session /\ runs'[c].doing = after
           /\ Range(runs'[c].todo) \subseteq Range(runs[c].todo)
           /\ after # None => after \in Range(runs[c].todo)
           /\ ending' \in [Sessions -> [Uploads -> {"none", "passed", "failed"}]]
           /\ \A j \in Sessions : \A t \in Uploads :
                ending'[j][t] = IF j = runs[c].session /\ t = runs[c].doing THEN result
                                                                           ELSE ending[j][t]
<1> DEFINE todo == runs[c].todo
           rest == IF todo = <<>> THEN todo ELSE Tail(todo)
           s == runs[c].doing
           i == runs[c].session
<1>1. /\ runs \in Seq(RunRecord)
      /\ ending \in [Sessions -> [Uploads -> {"none", "passed", "failed"}]]
    BY DEF History, ReplayTyped
<1>2. runs[c] \in RunRecord BY <1>1
<1>3. todo \in Seq(StepIds) /\ i \in Sessions /\ s \in StepIds BY <1>2 DEF RunRecord
<1>4. todo # <<>> => Head(todo) \in Range(todo) /\ Tail(todo) \in Seq(StepIds)
                     /\ Range(Tail(todo)) \subseteq Range(todo)
  <2> SUFFICES ASSUME todo # <<>>
               PROVE  Head(todo) \in Range(todo) /\ Tail(todo) \in Seq(StepIds)
                      /\ Range(Tail(todo)) \subseteq Range(todo)
      OBVIOUS
  <2> HIDE DEF todo
  <2>1. /\ Len(todo) \in Nat /\ Len(todo) > 0 /\ Head(todo) = todo[1] /\ Tail(todo) \in Seq(StepIds)
        /\ DOMAIN todo = 1..Len(todo) /\ DOMAIN Tail(todo) = 1..(Len(todo) - 1)
        /\ \A k \in 1..(Len(todo) - 1) : Tail(todo)[k] = todo[k + 1]
      BY <1>3
  <2>2. Head(todo) \in Range(todo) BY <2>1 DEF Range
  <2>3. ASSUME NEW k \in 1..(Len(todo) - 1) PROVE Tail(todo)[k] \in Range(todo)
    <3>1. k + 1 \in DOMAIN todo /\ Tail(todo)[k] = todo[k + 1] BY <2>1
    <3> QED BY <3>1 DEF Range
  <2>4. Range(Tail(todo)) \subseteq Range(todo) BY <2>1, <2>3 DEF Range
  <2> QED BY <2>1, <2>2, <2>4
<1>5. Head(todo) \in StepIds \/ todo = <<>> BY <1>3
<1>6. rest \in Seq(StepIds) /\ Range(rest) \subseteq Range(todo) BY <1>3, <1>4
<1>7. runs' = [runs EXCEPT ![c].doing = after, ![c].todo = rest] BY DEF Finish
<1>8. after \in StepIds \cup {None} BY <1>5
<1>9. after # None => after \in Range(todo) BY <1>4
<1>10. ending' = IF s \in Uploads THEN [ending EXCEPT ![i][s] = result] ELSE ending BY DEF Finish
<1> HIDE DEF rest, todo, s, i
<1>11. /\ DOMAIN runs' = DOMAIN runs /\ runs'[c] \in RunRecord
       /\ \A d \in DOMAIN runs : d # c => runs'[d] = runs[d]
       /\ runs'[c].session = runs[c].session /\ runs'[c].doing = after /\ runs'[c].todo = rest
    BY <1>1, <1>2, <1>6, <1>7, <1>8 DEF RunRecord
<1>12. runs' \in Seq(RunRecord)
  <2>1. Len(runs) \in Nat /\ DOMAIN runs = 1..Len(runs) BY <1>1
  <2>2. \A d \in 1..Len(runs) : runs'[d] \in RunRecord BY <1>1, <1>11, <2>1
  <2>3. runs' = [d \in 1..Len(runs) |-> runs'[d]] BY <1>7, <2>1
  <2>4. runs' \in [1..Len(runs) -> RunRecord] BY <2>2, <2>3
  <2> QED BY <2>1, <2>4
<1>13. /\ ending' \in [Sessions -> [Uploads -> {"none", "passed", "failed"}]]
       /\ \A j \in Sessions : \A t \in Uploads :
            ending'[j][t] = IF j = i /\ t = s THEN result ELSE ending[j][t]
    BY <1>1, <1>3, <1>10
<1> QED BY <1>2, <1>6, <1>9, <1>11, <1>12, <1>13 DEF todo, s, i

\* The end of a step: how it ended, what its run does next, and which errors are
\* forgotten and noted.
LEMMA Ended ==
    ASSUME History, NEW c \in DOMAIN runs, StepPasses(c) \/ StepFails(c)
    PROVE  \E result, after, gone, added :
             /\ result \in {"passed", "failed"} /\ gone \subseteq StepIds /\ added \subseteq StepIds
             /\ runs[c].doing # None /\ UNCHANGED <<fresh, disk, current, live, graph>>
             /\ after = None \/ (runs[c].todo # <<>> /\ after = Head(runs[c].todo))
             /\ Finish(c, result, after)
             /\ errors' \in [Sessions -> SUBSET StepIds]
             /\ \A j \in Sessions : errors'[j] = IF j = runs[c].session THEN (errors[j] \ gone) \cup added
                                                                       ELSE errors[j]
             /\ gone \subseteq {runs[c].doing, after} /\ (after # None => after \in gone)
             /\ result = "passed" => added = {}
             /\ result = "failed" => after = None /\ gone = {} /\ added = Uploads \cap {runs[c].doing}
<1> DEFINE i == runs[c].session
           s == runs[c].doing
           todo == runs[c].todo
<1>1. runs[c] \in RunRecord /\ errors \in [Sessions -> SUBSET StepIds]
    BY DEF History, ReplayTyped
<1>2. s # None /\ UNCHANGED <<fresh, disk, current, live, graph>>
    BY DEF StepPasses, StepFails
<1>3. i \in Sessions /\ s \in StepIds /\ todo \in Seq(StepIds) BY <1>1, <1>2 DEF RunRecord
<1>4. CASE StepPasses(c) /\ todo # <<>>
  <2>1. Finish(c, "passed", Head(todo)) /\ errors' = [errors EXCEPT ![i] = @ \ {Head(todo)}]
      BY <1>4 DEF StepPasses, ForgetError
  <2>2. Head(todo) \in StepIds BY <1>3, <1>4
  <2>3. /\ errors' \in [Sessions -> SUBSET StepIds]
        /\ \A j \in Sessions : errors'[j] = IF j = i THEN (errors[j] \ {Head(todo)}) \cup {} ELSE errors[j]
      BY <1>1, <1>3, <2>1
  <2> WITNESS "passed", Head(todo), {Head(todo)}, {}
  <2> QED BY <1>2, <1>4, <2>1, <2>2, <2>3
<1>5. CASE StepPasses(c) /\ todo = <<>>
  <2> DEFINE gone == IF runs[c].kind = "step" THEN {s} ELSE {}
  <2>1. Finish(c, "passed", None) BY <1>5 DEF StepPasses
  <2>2. IF runs[c].kind = "step" THEN errors' = [errors EXCEPT ![i] = @ \ {s}] ELSE UNCHANGED errors
      BY <1>5 DEF StepPasses, ForgetError
  <2>3. /\ errors' \in [Sessions -> SUBSET StepIds]
        /\ \A j \in Sessions : errors'[j] = IF j = i THEN (errors[j] \ gone) \cup {} ELSE errors[j]
      BY <1>1, <1>3, <2>2
  <2>4. gone \subseteq {s, None} /\ gone \in SUBSET StepIds BY <1>3
  <2> HIDE DEF gone
  <2> WITNESS "passed", None, gone, {}
  <2> QED BY <1>2, <1>5, <2>1, <2>3, <2>4
<1>6. CASE StepFails(c)
  <2>1. Finish(c, "failed", None) /\ errors' = [errors EXCEPT ![i] = IF s \in Uploads THEN @ \cup {s} ELSE @]
      BY <1>6 DEF StepFails
  <2>2. Uploads \cap {s} \in SUBSET StepIds BY <1>3
  <2>3. /\ errors' \in [Sessions -> SUBSET StepIds]
        /\ \A j \in Sessions :
             errors'[j] = IF j = i THEN (errors[j] \ {}) \cup (Uploads \cap {s}) ELSE errors[j]
      BY <1>1, <1>3, <2>1
  <2> WITNESS "failed", None, {}, Uploads \cap {s}
  <2> QED BY <1>2, <2>1, <2>2, <2>3
<1> QED BY <1>4, <1>5, <1>6

LEMMA EndKeeps ==
    \A c \in DOMAIN runs : History /\ (StepPasses(c) \/ StepFails(c)) => History' /\ LocatorsStay
<1> SUFFICES ASSUME History, NEW c \in DOMAIN runs, StepPasses(c) \/ StepFails(c)
             PROVE  History' /\ LocatorsStay
    OBVIOUS
<1>0. PICK result, after, gone, added :
        /\ result \in {"passed", "failed"} /\ gone \subseteq StepIds /\ added \subseteq StepIds
        /\ runs[c].doing # None /\ UNCHANGED <<fresh, disk, current, live, graph>>
        /\ after = None \/ (runs[c].todo # <<>> /\ after = Head(runs[c].todo))
        /\ Finish(c, result, after)
        /\ errors' \in [Sessions -> SUBSET StepIds]
        /\ \A j \in Sessions : errors'[j] = IF j = runs[c].session THEN (errors[j] \ gone) \cup added
                                                                  ELSE errors[j]
        /\ gone \subseteq {runs[c].doing, after} /\ (after # None => after \in gone)
        /\ result = "passed" => added = {}
        /\ result = "failed" => after = None /\ gone = {} /\ added = Uploads \cap {runs[c].doing}
    BY Ended
<1> DEFINE i == runs[c].session
           s == runs[c].doing
<1>1. /\ runs[c] \in RunRecord /\ runs' \in Seq(RunRecord) /\ DOMAIN runs' = DOMAIN runs
      /\ \A d \in DOMAIN runs : d # c => runs'[d] = runs[d]
      /\ runs'[c].session = i /\ runs'[c].doing = after
      /\ Range(runs'[c].todo) \subseteq Range(runs[c].todo)
      /\ after # None => after \in Range(runs[c].todo)
      /\ ending' \in [Sessions -> [Uploads -> {"none", "passed", "failed"}]]
      /\ \A j \in Sessions : \A t \in Uploads :
           ending'[j][t] = IF j = i /\ t = s THEN result ELSE ending[j][t]
    BY <1>0, Finished DEF Finish
<1>2. i \in Sessions /\ s \in StepIds BY <1>0, <1>1 DEF RunRecord
<1>3. errors \in [Sessions -> SUBSET StepIds] BY DEF History, ReplayTyped
<1>4. /\ errors' \in [Sessions -> SUBSET StepIds]
      /\ \A j \in Sessions : errors'[j] = IF j = i THEN (errors[j] \ gone) \cup added ELSE errors[j]
    BY <1>0
<1>5. \A j \in Sessions : HasGraph(j)' <=> HasGraph(j) BY <1>0 DEF HasGraph
<1>6. live[i] # "none" BY <1>2 DEF History, Unstarted
<1>7. /\ i = runs[c].session /\ s = runs[c].doing /\ s # None /\ result \in {"passed", "failed"}
      /\ UNCHANGED <<fresh, disk, current, live, graph>>
      /\ gone \subseteq {s, after} /\ (after # None => after \in gone)
      /\ result = "passed" => added = {}
      /\ result = "failed" => after = None /\ gone = {} /\ added = Uploads \cap {s}
    BY <1>0
<1> HIDE DEF i, s
<1>8. ReplayTyped' BY <1>1, <1>4, <1>7 DEF History, ReplayTyped
<1>9. Opened' BY <1>5, <1>7 DEF History, Opened
<1>10. Unstarted'
  <2> SUFFICES ASSUME NEW j \in Sessions, live[j] = "none"
               PROVE  /\ errors'[j] = {} /\ \A t \in Uploads : ending'[j][t] = "none"
                      /\ \A d \in DOMAIN runs' : runs'[d].session # j
      BY <1>7 DEF Unstarted
  <2>1. j # i BY <1>6
  <2>2. /\ errors[j] = {} /\ \A t \in Uploads : ending[j][t] = "none"
        /\ \A d \in DOMAIN runs : runs[d].session # j
      BY DEF History, Unstarted
  <2>3. errors'[j] = {} BY <1>4, <2>1, <2>2
  <2>4. \A t \in Uploads : ending'[j][t] = "none" BY <1>1, <2>1, <2>2
  <2>5. \A d \in DOMAIN runs' : runs'[d].session # j
    <3>1. runs'[c].session # j BY <1>1, <2>1
    <3>2. \A d \in DOMAIN runs : d # c => runs'[d].session # j BY <1>1, <2>2
    <3> QED BY <1>1, <3>1, <3>2
  <2> QED BY <2>3, <2>4, <2>5
<1>11. FreshIsUnused'
  <2> SUFFICES ASSUME NEW t \in fresh PROVE Unused(t)' BY <1>7 DEF FreshIsUnused
  <2>1. Unused(t) BY DEF History, FreshIsUnused
  <2>2. t # s /\ t \notin Range(runs[c].todo) BY <1>7, <2>1 DEF Unused
  <2>3. t # after \/ t = None
      BY <1>1, <2>2
  <2>4. t # None BY InteractiveAssumption DEF History, ReplayTyped, StepIds
  <2>5. t \notin added BY <1>7, <2>2
  <2>6. \A d \in DOMAIN runs' : t # runs'[d].doing /\ t \notin Range(runs'[d].todo)
      BY <1>1, <2>1, <2>2, <2>3, <2>4 DEF Unused
  <2>7. \A j \in Sessions : t \notin errors'[j] /\ (t \in Uploads => ending'[j][t] = "none")
      BY <1>1, <1>4, <2>1, <2>2, <2>5 DEF Unused
  <2> QED BY <1>5, <1>7, <2>1, <2>6, <2>7 DEF Unused
<1>12. OneRun'
  <2>1. UnderWay' \subseteq UnderWay BY <1>1, <1>7 DEF UnderWay
  <2> QED BY <2>1 DEF History, OneRun
<1>13. ErrorsFollow'
  <2> SUFFICES ASSUME RunsAtOnce = 1, NEW j \in Sessions, HasGraph(j),
                      NEW t \in Uploads \cap Range(graph[j].steps)
               PROVE  t \in errors'[j] <=> ending'[j][t] = "failed" /\ t \notin Doing(j)'
      BY <1>5, <1>7 DEF ErrorsFollow
  <2>1. t \in errors[j] <=> ending[j][t] = "failed" /\ t \notin Doing(j)
      BY DEF History, ErrorsFollow
  <2>2. t \in Doing(j)' <=> \E d \in DOMAIN runs : runs'[d].session = j /\ runs'[d].doing = t
      BY <1>1 DEF Doing
  <2>3. t \in Doing(j) <=> \E d \in DOMAIN runs : runs[d].session = j /\ runs[d].doing = t
      BY DEF Doing
  <2>4. ending'[j][t] = IF j = i /\ t = s THEN result ELSE ending[j][t] BY <1>1
  <2>5. CASE j # i
    <3>1. t \in Doing(j)' <=> t \in Doing(j) BY <1>1, <1>7, <2>2, <2>3, <2>5
    <3> QED BY <1>4, <2>1, <2>4, <2>5, <3>1
  <2>6. CASE j = i /\ t = after
    <3>1. after # None BY InteractiveAssumption, <2>6
    <3>2. t \in Doing(j)' BY <1>1, <2>2, <2>6
    <3>3. t \in gone /\ t \notin added BY <1>7, <2>6, <3>1
    <3> QED BY <1>4, <2>6, <3>2, <3>3
  <2>7. CASE j = i /\ t # after /\ t = s
    <3>1. t \in Doing(j) BY <1>7, <2>3, <2>7
    <3>2. CASE result = "passed"
      <4>1. added = {} BY <1>7, <3>2
      <4> QED BY <1>4, <2>1, <2>4, <2>7, <3>1, <3>2, <4>1
    <3>3. CASE result = "failed"
      <4>1. t \in added BY <1>7, <2>7, <3>3
      <4>2. t \notin Doing(j)'
        <5> SUFFICES ASSUME NEW d \in DOMAIN runs, runs'[d].session = j, runs'[d].doing = t PROVE FALSE
            BY <2>2
        <5>1. d # c BY <1>1, <2>7
        <5>2. runs[d].doing # None /\ runs[c].doing # None BY <1>1, <1>7, <2>7, <5>1
        <5>3. d \in UnderWay /\ c \in UnderWay BY <5>2 DEF UnderWay
        <5> QED BY <5>1, <5>3 DEF History, OneRun
      <4> QED BY <1>4, <2>4, <2>7, <3>3, <4>1, <4>2
    <3> QED BY <1>7, <3>2, <3>3
  <2>8. CASE j = i /\ t # after /\ t # s
    <3>1. t \in Doing(j)' <=> t \in Doing(j) BY <1>1, <1>7, <2>2, <2>3, <2>8
    <3>2. t \notin gone /\ t \notin added BY <1>7, <2>8
    <3> QED BY <1>4, <2>1, <2>4, <2>8, <3>1, <3>2
  <2> QED BY <2>5, <2>6, <2>7, <2>8
<1>14. LocatorsStay BY <1>7 DEF LocatorsStay
<1> QED BY <1>8, <1>9, <1>10, <1>11, <1>12, <1>13, <1>14 DEF History


-----------------------------------------------------------------------------
(* Edits. *)

\* A new list for the current session, of its steps and of an id that was fresh.
LEMMA EditKeeps ==
    ASSUME History, current # 0, NEW list \in Seq(StepIds), NEW new \in SUBSET fresh,
           Range(list) \subseteq Range(Steps) \cup new,
           graph' = [graph EXCEPT ![current] = Relinked(list)], fresh' = fresh \ new,
           UNCHANGED <<disk, current, live, ending, runs>>,
           errors' \in [Sessions -> SUBSET StepIds],
           \A j \in Sessions : \A s \in StepIds :
               s \in errors'[j] => s \in errors[j],
           \A j \in Sessions : \A s \in StepIds :
               s \in errors[j] /\ (j # current \/ s \in Range(list)) => s \in errors'[j]
    PROVE  History' /\ LocatorsStay
<1>1. current \in Sessions /\ live[current] = "open" /\ IsGraph(graph[current])
    BY DEF History, ReplayTyped, Opened, HasGraph
<1> DEFINE new_graph == Relinked(list)
<1>2. IsGraph(new_graph) /\ new_graph.steps = list /\ new_graph.target = graph[current].target
  <2> DEFINE g == graph[current]
             edges == Linear(list)
  <2>1. PICK E, T : g \in [steps : Seq(StepIds), edges : E, target : [StepIds -> T]]
      BY <1>1 DEF IsGraph
  <2>2. new_graph = [g EXCEPT !.steps = list, !.edges = edges] BY DEF Relinked
  <2> HIDE DEF new_graph, g, edges
  <2>3. /\ new_graph \in [steps : Seq(StepIds), edges : E \cup {edges}, target : [StepIds -> T]]
        /\ new_graph.steps = list /\ new_graph.target = g.target
      BY <2>1, <2>2
  <2> QED BY <2>3 DEF IsGraph, g
<1> HIDE DEF new_graph
<1>3. /\ DOMAIN graph' = Sessions /\ graph' = [j \in Sessions |-> graph'[j]]
      /\ \A j \in Sessions : graph'[j] = IF j = current THEN new_graph ELSE graph[j]
    BY <1>1 DEF History, ReplayTyped, new_graph
<1>4. \A j \in Sessions : HasGraph(j)' <=> HasGraph(j) BY DEF HasGraph
<1>5. HasGraph(current) BY <1>1 DEF HasGraph
<1>6. fresh \subseteq StepIds BY DEF History, ReplayTyped, StepIds
<1>7. ReplayTyped' BY <1>3 DEF History, ReplayTyped
<1>8. Opened' BY <1>1, <1>2, <1>3, <1>4, <1>5 DEF History, Opened
<1>9. Unstarted'
  <2>1. \A j \in Sessions : errors[j] = {} => errors'[j] = {} OBVIOUS
  <2> QED BY <2>1 DEF History, Unstarted
<1>10. FreshIsUnused'
  <2> SUFFICES ASSUME NEW t \in fresh \ new PROVE Unused(t)' BY DEF FreshIsUnused
  <2>1. Unused(t) /\ t \in StepIds BY <1>6 DEF History, FreshIsUnused
  <2>2. t \notin Range(Steps) BY <1>1, <1>5, <2>1 DEF Unused, Steps
  <2>3. t \notin Range(list) BY <2>2
  <2> QED BY <1>1, <1>2, <1>3, <1>4, <2>1, <2>3 DEF Unused
<1>11. OneRun' BY DEF History, OneRun, UnderWay
<1>12. ErrorsFollow'
  <2> SUFFICES ASSUME RunsAtOnce = 1, NEW j \in Sessions, HasGraph(j),
                      NEW t \in Uploads \cap Range(graph'[j].steps)
               PROVE  t \in errors'[j] <=> ending[j][t] = "failed" /\ t \notin Doing(j)
      BY <1>4 DEF ErrorsFollow, Doing
  <2>1. t \in StepIds BY InteractiveAssumption
  <2>2. CASE t \in Range(graph[j].steps)
    <3>1. t \in errors[j] <=> ending[j][t] = "failed" /\ t \notin Doing(j)
        BY <2>2 DEF History, ErrorsFollow
    <3>2. j # current \/ t \in Range(list) BY <1>2, <1>3
    <3> QED BY <2>1, <3>1, <3>2
  <2>3. CASE t \notin Range(graph[j].steps)
    <3>1. j = current /\ t \in Range(list) BY <1>2, <1>3, <2>3
    <3>2. t \in new BY <2>3, <3>1 DEF Steps
    <3>3. Unused(t) BY <3>2 DEF History, FreshIsUnused
    <3>4. t \notin errors[j] /\ ending[j][t] = "none" BY <3>3 DEF Unused
    <3> QED BY <2>1, <3>4
  <2> QED BY <2>2, <2>3
<1>13. LocatorsStay BY <1>1, <1>2, <1>3 DEF LocatorsStay
<1> QED BY <1>7, <1>8, <1>9, <1>10, <1>11, <1>12, <1>13 DEF History

LEMMA CurrentSteps ==
    History /\ current # 0 => current \in Sessions /\ Steps \in Seq(StepIds) /\ IsGraph(graph[current])
<1> SUFFICES ASSUME History, current # 0
             PROVE  current \in Sessions /\ Steps \in Seq(StepIds) /\ IsGraph(graph[current])
    OBVIOUS
<1>1. current \in Sessions /\ IsGraph(graph[current])
    BY DEF History, ReplayTyped, Opened, HasGraph
<1> QED BY <1>1 DEF IsGraph, Steps

LEMMA DropKeeps == \A s \in StepIds : History /\ DropStep(s) => History' /\ LocatorsStay
<1> SUFFICES ASSUME History, NEW s \in StepIds, DropStep(s) PROVE History' /\ LocatorsStay
    OBVIOUS
<1> DEFINE list == Keep(Steps, Range(Steps) \ {s})
<1>1. /\ current # 0 /\ graph' = [graph EXCEPT ![current] = Relinked(list)]
      /\ errors' = [errors EXCEPT ![current] = @ \ {s}]
      /\ UNCHANGED <<fresh, disk, current, live, ending, runs>>
    BY DEF DropStep, ForgetError, Active
<1>2. current \in Sessions /\ Steps \in Seq(StepIds) BY <1>1, CurrentSteps
<1>3. list \in Seq(StepIds) /\ Range(list) = Range(Steps) \cap (Range(Steps) \ {s})
    BY <1>2, KeepRange
<1>4. errors \in [Sessions -> SUBSET StepIds] BY DEF History, ReplayTyped
<1> HIDE DEF list
<1>5. /\ errors' \in [Sessions -> SUBSET StepIds]
      /\ \A j \in Sessions : errors'[j] = IF j = current THEN errors[j] \ {s} ELSE errors[j]
    BY <1>1, <1>2, <1>4
<1>6. {} \in SUBSET fresh /\ fresh' = fresh \ {} /\ Range(list) \subseteq Range(Steps) \cup {}
    BY <1>1, <1>3
<1>7. /\ \A j \in Sessions : \A t \in StepIds : t \in errors'[j] => t \in errors[j]
      /\ \A j \in Sessions : \A t \in StepIds :
           t \in errors[j] /\ (j # current \/ t \in Range(list)) => t \in errors'[j]
    BY <1>3, <1>5
<1> QED BY <1>1, <1>3, <1>5, <1>6, <1>7, EditKeeps

LEMMA InsertKeeps == \A s \in StepIds : History /\ InsertStep(s) => History' /\ LocatorsStay
<1> SUFFICES ASSUME History, NEW s \in StepIds, InsertStep(s) PROVE History' /\ LocatorsStay
    OBVIOUS
<1>1. current # 0 /\ s \in fresh /\ fresh' = fresh \ {s}
      /\ UNCHANGED <<disk, current, live, errors, ending, runs>>
    BY DEF InsertStep, Active
<1>2. PICK i \in 0..Len(Steps) : graph' = [graph EXCEPT ![current] = Relinked(InsertAt(Steps, i + 1, s))]
    BY DEF InsertStep
<1> DEFINE list == InsertAt(Steps, i + 1, s)
<1>3. current \in Sessions /\ Steps \in Seq(StepIds) BY <1>1, CurrentSteps
<1>4. i + 1 \in 1..(Len(Steps) + 1) BY <1>3
<1>5. list \in Seq(StepIds) /\ Range(list) \subseteq Range(Steps) \cup {s}
    BY <1>3, <1>4, InsertRange
<1>6. graph' = [graph EXCEPT ![current] = Relinked(list)] BY <1>2
<1> HIDE DEF list
<1>7. {s} \in SUBSET fresh BY <1>1
<1>8. errors' \in [Sessions -> SUBSET StepIds] BY <1>1 DEF History, ReplayTyped
<1> QED BY <1>1, <1>5, <1>6, <1>7, <1>8, EditKeeps

LEMMA SaveKeeps == History /\ Save => History' /\ LocatorsStay
<1> SUFFICES ASSUME History, Save PROVE History' /\ LocatorsStay OBVIOUS
<1>1. /\ current # 0 /\ disk' = graph[current]
      /\ UNCHANGED <<fresh, current, live, graph, errors, ending, runs>>
    BY DEF Save, Active
<1>2. current \in Sessions /\ IsGraph(graph[current]) BY <1>1, CurrentSteps
<1>3. live[current] = "open" BY <1>1 DEF History, Opened
<1>4. ReplayTyped' BY <1>1, <1>2 DEF History, ReplayTyped
<1>5. Opened' /\ Unstarted' /\ OneRun' /\ ErrorsFollow'
    BY <1>1 DEF History, Opened, Unstarted, OneRun, UnderWay, ErrorsFollow, Doing, HasGraph
<1>6. FreshIsUnused' BY <1>1, <1>2, <1>3 DEF History, FreshIsUnused, Unused, HasGraph
<1> QED BY <1>1, <1>4, <1>5, <1>6 DEF History, LocatorsStay

-----------------------------------------------------------------------------
(* Force fix. *)

LEMMA ApplyKeeps ==
    \A f \in DOMAIN fixes : History /\ Probes /\ ApplyFix(f) =>
        /\ History'
        /\ \A s \in StepIds : graph'[current].target[s] # graph[current].target[s] =>
                              s = fixes[f].step
<1> SUFFICES ASSUME History, Probes, NEW f \in DOMAIN fixes, ApplyFix(f)
             PROVE  /\ History'
                    /\ \A s \in StepIds : graph'[current].target[s] # graph[current].target[s] =>
                                          s = fixes[f].step
    OBVIOUS
<1> DEFINE step == fixes[f].step
           new == NewTarget(f)
           g == graph[current]
<1>1. /\ current # 0 /\ graph' = [graph EXCEPT ![current].target[step] = new]
      /\ UNCHANGED <<fresh, disk, current, live, errors, ending, runs>>
    BY DEF ApplyFix, Active
<1>2. current \in Sessions /\ IsGraph(g) BY <1>1, CurrentSteps
<1>3. step \in StepIds
  <2>1. fixes \in Seq(FixRecord) BY DEF Probes
  <2>2. fixes[f] \in FixRecord BY <2>1
  <2> QED BY <2>2 DEF FixRecord
<1>4. PICK E, T : g \in [steps : Seq(StepIds), edges : E, target : [StepIds -> T]]
    BY <1>2 DEF IsGraph
<1> DEFINE fixed == [g EXCEPT !.target[step] = new]
<1>5. /\ DOMAIN graph' = Sessions /\ graph' = [j \in Sessions |-> graph'[j]]
      /\ \A j \in Sessions : graph'[j] = IF j = current THEN fixed ELSE graph[j]
    BY <1>1, <1>2 DEF History, ReplayTyped
<1> HIDE DEF new, step, g
<1>6. /\ fixed \in [steps : Seq(StepIds), edges : E, target : [StepIds -> T \cup {new}]]
      /\ fixed.steps = g.steps
      /\ \A s \in StepIds : s # step => fixed.target[s] = g.target[s]
    BY <1>3, <1>4
<1> HIDE DEF fixed
<1>7. IsGraph(fixed) BY <1>6 DEF IsGraph
<1>8. \A j \in Sessions : graph'[j].steps = graph[j].steps BY <1>5, <1>6 DEF g
<1>9. live[current] = "open" BY <1>1 DEF History, Opened
<1>10. ReplayTyped' BY <1>1, <1>5 DEF History, ReplayTyped
<1>11. Opened' BY <1>1, <1>5, <1>7, <1>9 DEF History, Opened, HasGraph
<1>12. Unstarted' /\ OneRun' BY <1>1 DEF History, Unstarted, OneRun, UnderWay
<1>13. FreshIsUnused' BY <1>1, <1>8 DEF History, FreshIsUnused, Unused, HasGraph
<1>14. ErrorsFollow' BY <1>1, <1>8 DEF History, ErrorsFollow, Doing, HasGraph
<1>15. \A s \in StepIds : graph'[current].target[s] # graph[current].target[s] => s = step
    BY <1>2, <1>5, <1>6 DEF g
<1> QED BY <1>10, <1>11, <1>12, <1>13, <1>14, <1>15 DEF History, step

\* A force fix goes on to its next place.
LEMMA FixMoves ==
    ASSUME Probes, NEW f \in DOMAIN fixes, NEW place \in Places, SetFix(f, place),
           matched \subseteq matched', NEW i, NEW s, fixes[f].session = i, fixes[f].step = s,
           place \in PastThePage => FoundThere(i, s)'
    PROVE  Probes'
<1>1. fixes \in Seq(FixRecord) BY DEF Probes
<1>2. /\ DOMAIN fixes = 1..Len(fixes) /\ Len(fixes) \in Nat
      /\ \A d \in DOMAIN fixes : fixes[d] \in FixRecord
    BY <1>1
<1>3. /\ DOMAIN fixes' = DOMAIN fixes /\ fixes'[f] \in FixRecord
      /\ fixes'[f].session = i /\ fixes'[f].step = s /\ fixes'[f].at = place
      /\ \A d \in DOMAIN fixes : d # f => fixes'[d] = fixes[d]
      /\ fixes' = [d \in DOMAIN fixes |-> fixes'[d]]
    BY <1>2 DEF FixRecord, SetFix
<1>4. fixes' \in Seq(FixRecord)
  <2>1. \A d \in 1..Len(fixes) : fixes'[d] \in FixRecord BY <1>2, <1>3
  <2>2. fixes' \in [1..Len(fixes) -> FixRecord] BY <1>2, <1>3, <2>1
  <2> QED BY <1>2, <2>2
<1>5. ASSUME NEW d \in DOMAIN fixes', fixes'[d].at \in PastThePage
      PROVE  FoundThere(fixes[d].session, fixes[d].step)'
  <2>1. CASE d = f
    <3>1. place \in PastThePage BY <1>3, <1>5, <2>1
    <3>2. FoundThere(i, s)' BY <3>1
    <3>3. fixes'[d].session = i /\ fixes'[d].step = s BY <1>3, <2>1
    <3> QED BY <3>2, <3>3 DEF FoundThere
  <2>2. CASE d # f
    <3>1. fixes'[d] = fixes[d] /\ d \in DOMAIN fixes BY <1>3, <2>2
    <3>2. FoundThere(fixes[d].session, fixes[d].step) BY <1>5, <3>1 DEF Probes
    <3> QED BY <3>1, <3>2 DEF FoundThere
  <2> QED BY <2>1, <2>2
<1> QED BY <1>4, <1>5 DEF Probes

LEMMA FixingKeeps ==
    History /\ Probes /\ Fixing =>
        /\ History' /\ Probes'
        /\ current # 0 /\ current' = current =>
             \A s \in StepIds : graph'[current].target[s] # graph[current].target[s] =>
                \E x \in Range(SelectorsOf[s]) : <<current, s, x>> \in matched
<1> DEFINE Founded == current # 0 /\ current' = current =>
                 \A s \in StepIds : graph'[current].target[s] # graph[current].target[s] =>
                    \E x \in Range(SelectorsOf[s]) : <<current, s, x>> \in matched
<1> SUFFICES ASSUME History, Probes, Fixing PROVE History' /\ Probes' /\ Founded OBVIOUS
<1>1. LocatorsStay => Founded BY DEF LocatorsStay
<1> HIDE DEF Founded
<1>2. CASE ProbeStep
  <2>1. PICK s \in Range(Steps) :
          fixes' = Append(fixes, [session |-> current, step |-> s, at |-> "probe"])
      BY <1>2 DEF ProbeStep
  <2>2. /\ current # 0
        /\ UNCHANGED <<fresh, disk, current, live, graph, errors, ending, runs, matched>>
      BY <1>2 DEF ProbeStep, Active
  <2>3. current \in Sessions /\ s \in StepIds
    <3>1. current \in Sessions /\ Steps \in Seq(StepIds) BY <2>2, CurrentSteps
    <3> QED BY <3>1 DEF Range
  <2> DEFINE fix == [session |-> current, step |-> s, at |-> "probe"]
             n == Len(fixes)
  <2>4. fix \in FixRecord /\ fix.at = "probe" BY <2>3 DEF FixRecord, Places
  <2>5. fixes' = Append(fixes, fix) /\ fixes \in Seq(FixRecord) BY <2>1 DEF Probes, PastThePage
  <2> HIDE DEF fix
  <2>6. /\ fixes' \in Seq(FixRecord) /\ n \in Nat /\ DOMAIN fixes = 1..n /\ DOMAIN fixes' = 1..(n + 1)
        /\ \A d \in 1..n : fixes'[d] = fixes[d]
        /\ fixes'[n + 1] = fix
      BY <2>4, <2>5
  <2>7. \A d \in 1..(n + 1) : d \in 1..n \/ d = n + 1 BY <2>6
  <2> HIDE DEF n
  <2>8. Probes' BY <2>2, <2>4, <2>6, <2>7 DEF Probes, PastThePage, FoundThere
  <2> QED BY <1>1, <2>2, <2>8, HistoryStays
<1>3. ASSUME NEW f \in DOMAIN fixes, ProbeFails(f) \/ RefuseFix(f)
      PROVE  History' /\ Probes' /\ Founded
  <2>1. /\ SetFix(f, "refused")
        /\ UNCHANGED <<fresh, disk, current, live, graph, errors, ending, runs, matched>>
      BY <1>3 DEF ProbeFails, RefuseFix
  <2> QED BY <1>1, <2>1, HistoryStays, FixMoves DEF Places, PastThePage
<1>4. ASSUME NEW f \in DOMAIN fixes, ProbeMatches(f) PROVE History' /\ Probes' /\ Founded
  <2>1. PICK x \in Range(SelectorsOf[fixes[f].step]) :
          matched' = matched \cup {<<fixes[f].session, fixes[f].step, x>>}
      BY <1>4 DEF ProbeMatches
  <2>2. UNCHANGED <<fresh, disk, current, live, graph, errors, ending, runs>>
      BY <1>4 DEF ProbeMatches
  <2>3. PICK place \in {"area", "matched"} : SetFix(f, place) BY <1>4 DEF ProbeMatches
  <2>5. PICK i, s : i = fixes[f].session /\ s = fixes[f].step OBVIOUS
  <2>6. FoundThere(i, s)' /\ matched \subseteq matched' BY <2>1, <2>5 DEF FoundThere
  <2>7. Probes' BY <2>3, <2>5, <2>6, FixMoves DEF Places, PastThePage
  <2> QED BY <1>1, <2>2, <2>7, HistoryStays
<1>5. ASSUME NEW f \in DOMAIN fixes, ProbeUploadArea(f) PROVE History' /\ Probes' /\ Founded
  <2>1. PICK place \in {"matched", "matched with area"} : SetFix(f, place)
      BY <1>5 DEF ProbeUploadArea
  <2>2. /\ fixes[f].at = "area"
        /\ UNCHANGED <<fresh, disk, current, live, graph, errors, ending, runs, matched>>
      BY <1>5 DEF ProbeUploadArea
  <2>3. FoundThere(fixes[f].session, fixes[f].step) BY <2>2 DEF Probes, PastThePage
  <2>5. PICK i, s : i = fixes[f].session /\ s = fixes[f].step OBVIOUS
  <2>6. FoundThere(i, s)' /\ matched \subseteq matched' BY <2>2, <2>3, <2>5 DEF FoundThere
  <2>4. Probes' BY <2>1, <2>5, <2>6, FixMoves DEF Places, PastThePage
  <2> QED BY <1>1, <2>2, <2>4, HistoryStays
<1>6. ASSUME NEW f \in DOMAIN fixes, ApplyFix(f) PROVE History' /\ Probes' /\ Founded
  <2>1. /\ fixes[f].at \in {"matched", "matched with area"} /\ current = fixes[f].session
        /\ SetFix(f, "fixed") /\ UNCHANGED matched
      BY <1>6 DEF ApplyFix, Matched
  <2>2. /\ History'
        /\ \A s \in StepIds : graph'[current].target[s] # graph[current].target[s] =>
                              s = fixes[f].step
      BY <1>6, ApplyKeeps
  <2>3. FoundThere(current, fixes[f].step) BY <2>1 DEF Probes, PastThePage
  <2>4. Probes' BY <2>1, FixMoves DEF Places, PastThePage
  <2> QED BY <2>2, <2>3, <2>4 DEF Founded, FoundThere
<1> QED BY <1>2, <1>3, <1>4, <1>5, <1>6 DEF Fixing

-----------------------------------------------------------------------------
(* The theorems. *)

LEMMA RunningKeeps == History /\ Running => History' /\ LocatorsStay
<1> SUFFICES ASSUME History, Running PROVE History' /\ LocatorsStay OBVIOUS
<1>1. CASE RunStep
  <2>1. current # 0 BY <1>1 DEF RunStep, Active
  <2>2. PICK s \in Range(Steps) : Run("step", <<s>>) BY <1>1 DEF RunStep
  <2>3. s \in StepIds
    <3>1. Steps \in Seq(StepIds) BY <2>1, CurrentSteps
    <3> QED BY <3>1 DEF Range
  <2>4. <<s>> \in Seq(StepIds) /\ <<s>> # <<>> /\ Range(<<s>>) \subseteq Range(Steps)
      BY <2>3 DEF Range
  <2> QED BY <2>1, <2>2, <2>4, RunKeeps
<1>2. CASE RunRange
  <2>1. current # 0 BY <1>2 DEF RunRange, Active
  <2>0. PICK i \in 1..Len(Steps) : \E j \in i..Len(Steps) : Run("range", SubSeq(Steps, i, j))
      BY <1>2 DEF RunRange
  <2>2. PICK j \in i..Len(Steps) : Run("range", SubSeq(Steps, i, j)) BY <2>0
  <2> DEFINE ids == SubSeq(Steps, i, j)
  <2>3. Steps \in Seq(StepIds) BY <2>1, CurrentSteps
  <2>4. /\ ids \in Seq(StepIds) /\ Len(ids) = j - i + 1 /\ Len(ids) > 0
        /\ \A k \in 1..Len(ids) : ids[k] = Steps[k + i - 1] /\ k + i - 1 \in 1..Len(Steps)
      BY <2>3
  <2>5. Range(ids) \subseteq Range(Steps) BY <2>3, <2>4 DEF Range
  <2>6. ids # <<>> BY <2>4
  <2>7. Run("range", ids) BY <2>2
  <2> HIDE DEF ids
  <2> QED BY <2>1, <2>4, <2>5, <2>6, <2>7, RunKeeps
<1> QED BY <1>1, <1>2, EndKeeps DEF Running

LEMMA ReplayStep ==
    History /\ Probes /\ [Next]_vars =>
        /\ History' /\ Probes'
        /\ current # 0 /\ current' = current =>
             \A s \in StepIds : graph'[current].target[s] # graph[current].target[s] =>
                \E x \in Range(SelectorsOf[s]) : <<current, s, x>> \in matched
<1> DEFINE Founded == current # 0 /\ current' = current =>
                 \A s \in StepIds : graph'[current].target[s] # graph[current].target[s] =>
                    \E x \in Range(SelectorsOf[s]) : <<current, s, x>> \in matched
<1> SUFFICES ASSUME History, Probes, [Next]_vars PROVE History' /\ Probes' /\ Founded OBVIOUS
<1>1. LocatorsStay => Founded BY DEF LocatorsStay
<1>2. CASE Fixing BY <1>2, FixingKeeps
<1> HIDE DEF Founded
<1>3. CASE Session
  <2>1. UNCHANGED <<fixes, matched>> BY <1>3 DEF Session, Stop, Start, Closed
  <2> QED BY <1>1, <1>3, <2>1, ProbesStay, StartKeeps, StopKeeps, ClosedKeeps DEF Session
<1>4. CASE Running
  <2>1. UNCHANGED <<fixes, matched>>
      BY <1>4 DEF Running, RunStep, RunRange, Run, StepPasses, StepFails
  <2> QED BY <1>1, <1>4, <2>1, ProbesStay, RunningKeeps
<1>5. CASE Editing
  <2>1. UNCHANGED <<fixes, matched>> BY <1>5 DEF Editing, Save, DropStep, InsertStep
  <2> QED BY <1>1, <1>5, <2>1, ProbesStay, SaveKeeps, DropKeeps, InsertKeeps DEF Editing
<1>6. CASE Picking \/ UNCHANGED vars
  <2>1. UNCHANGED <<fresh, disk, current, live, graph, errors, ending, runs, fixes, matched>>
      BY <1>6 DEF Picking, BeginPick, Commit, CancelPick, ConsumePick, Built, vars
  <2> QED BY <1>1, <2>1, ProbesStay, HistoryStays
<1> QED BY <1>2, <1>3, <1>4, <1>5, <1>6 DEF Next

\* ErrorsAreCurrent, for any list of steps and any number of sessions and requests.
THEOREM ErrorsAreOfTheLastRun == Spec => []ErrorsAreCurrent
<1>1. History /\ Probes => ErrorsAreCurrent
    BY DEF History, Opened, ErrorsFollow, ErrorsAreCurrent
<1>2. History /\ Probes /\ [Next]_vars => (History /\ Probes)' BY ReplayStep
<1> QED BY <1>1, <1>2, ReplayStarts, PTL DEF Spec

\* FixedWhereProbed: no step is changed by a fix that was probed in another session.
THEOREM FixesAreProbed == Spec => FixedWhereProbed
<1> DEFINE Change == \A s \in StepIds :
        (current # 0 /\ current' = current /\ graph'[current].target[s] # graph[current].target[s])
            => \E x \in Range(SelectorsOf[s]) : <<current, s, x>> \in matched
<1>1. History /\ Probes /\ [Next]_vars => (History /\ Probes)' BY ReplayStep
<1>2. History /\ Probes /\ [Next]_vars => [Change]_vars BY ReplayStep
<1> QED BY <1>1, <1>2, ReplayStarts, PTL DEF Spec, FixedWhereProbed

=============================================================================
