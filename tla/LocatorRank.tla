----------------------------- MODULE LocatorRank -----------------------------
(***************************************************************************)
(* How an element a user acted on becomes a locator: candidates are built  *)
(* from its description, every one is probed on the page, those that can   *)
(* be used are ranked by their confidence, and the recorder or the panel's *)
(* auto recording makes a step of the first, with the next as fallbacks.   *)
(* The page may change between any two calls of the browser.               *)
(* Source: locator/engine.py, locator/_ported/, recorder/recorder.py       *)
(* (_build_locator_bundle), cli/panel_cmd.py (_emit_step_from_target),     *)
(* export/gating.py.  Confidence is counted in 1/10000.                    *)
(***************************************************************************)
EXTENDS Integers, Sequences, FiniteSets

CONSTANTS
    Targets,       \* descriptions of elements: the sets of what they tell
    Contents,      \* what a selector can match: sequences of elements
    MaxShifts      \* bound: changes of the page

Elements == {"shown", "hidden"}

ASSUME RankAssumption ==
    /\ Contents \subseteq Seq(Elements) /\ MaxShifts \in Nat

VARIABLES
    target,     \* the description
    onPage,     \* elements each candidate's selector matches
    builder,    \* who asks: "recorder" or "panel"
    force,      \* whether hidden or several elements will do
    stage,      \* where the call is
    todo,       \* candidates still to be probed
    probe,      \* the candidate at hand, and what is known of it
    valid,      \* candidates that can be used
    made,       \* the step made at the end
    shifts

rankVars == <<target, onPage, builder, force, stage, todo, probe, valid, made, shifts>>

-----------------------------------------------------------------------------
(* Candidates, in the order of their priorities.                           *)

Row(s, p, n) == [strategy |-> s, priority |-> p, needs |-> n]

\* build_candidates: what the element itself tells,
OwnRows == {
    Row("aria_label", 1000, {"aria"}),        Row("label", 1100, {"aria"}),
    Row("role_name", 1200, {"role", "hint"}), Row("placeholder", 1400, {"placeholder"}),
    Row("stable_text", 1600, {"text"}),       Row("testid", 2000, {"testid"}),
    Row("testid", 2100, {"testid"}),          Row("testid", 2200, {"testid"}),
    Row("scoped_css", 3000, {"id"}),          Row("scoped_css", 3200, {"name"}),
    Row("scoped_css", 3500, {"data"}),        Row("scoped_css", 3800, {"class"})}

\* the element within an ancestor, of which the nearest stands for all (2201 is a
\* 2.2 that is appended after another one),
ChainRows == {
    Row("scoped_chain", 2180, {"testid", "parent testid", "grandparent testid"}),
    Row("scoped_chain", 2201, {"testid", "parent testid"}),
    Row("scoped_chain", 2202, {"testid", "parent id"}),
    Row("scoped_chain", 2204, {"id", "parent testid"}),
    Row("scoped_chain", 2206, {"role", "hint", "parent testid"}),
    Row("scoped_chain", 2208, {"text", "parent testid"})}

\* and where it stands.
PathRows == {
    Row("xpath_nth_fallback", 4000, {"parent id"}),
    Row("xpath_nth_fallback", 4100, {"parent testid"}),
    Row("xpath_nth_fallback", 4300, {"parent", "sibling"}),
    Row("xpath_nth_fallback", 4800, {"xpath"})}

Rows == OwnRows \cup ChainRows \cup PathRows

Candidates == {r \in Rows : r.needs \subseteq target}

-----------------------------------------------------------------------------
(* Confidence.                                                             *)

Uniqueness(total) ==
    IF total = 1 THEN 3200 ELSE IF total <= 3 THEN 2176 ELSE IF total <= 6 THEN 1600 ELSE 960

Actionability(visible, actionable) ==
    IF visible <= 0 THEN IF actionable THEN 480 ELSE 240
    ELSE IF visible = 1 THEN IF actionable THEN 2400 ELSE 2040
    ELSE IF actionable THEN 1560 ELSE 1080

StableBy == [aria_label |-> 1920, role_name |-> 1880, label |-> 1840, placeholder |-> 1800,
             stable_text |-> 1760, testid |-> 1680, scoped_chain |-> 1640,
             scoped_css |-> 1160, xpath_nth_fallback |-> 900]

Stability(strategy) == IF strategy \in DOMAIN StableBy THEN StableBy[strategy] ELSE 1000

\* What was found: one element that is shown, the first of several of which some
\* are shown, or one or several of which none had to be.
Finds == {"one", "first", "forced", "forced first"}
UsedFirst(c) == c.found \in {"first", "forced first"}
IsForced(c) == c.found \in {"forced", "forced first"}

\* Nobody passes history or freshness scores: each counts with its default of a half.
Confidence(c) ==
    Uniqueness(c.total) + Actionability(c.visible, c.actionable) + Stability(c.row.strategy)
    + 1200 - (IF IsForced(c) THEN 800 ELSE 0) - (IF UsedFirst(c) THEN 600 ELSE 0)

\* A bug: priority first, as find_best_candidate sorts.
BeforeByPriority(c, d) ==
    \/ c.row.priority < d.row.priority
    \/ c.row.priority = d.row.priority /\ Confidence(c) > Confidence(d)

\* The key of sorted() in rank_candidates.
Before(c, d) ==
    \/ Confidence(c) > Confidence(d)
    \/ Confidence(c) = Confidence(d) /\ c.row.priority < d.row.priority

\* The default thresholds of the export.
Gate(confidence) ==
    IF confidence < 7000 THEN "block" ELSE IF confidence < 8500 THEN "review" ELSE "allow"

-----------------------------------------------------------------------------
NoProbe == [row |-> Row("none", 0, {}), total |-> 0, at |-> 0, visible |-> 0,
            actionable |-> FALSE, found |-> "unknown"]
NoStep == [kind |-> "none"]

RankInit ==
    /\ target \in Targets /\ onPage \in [Candidates -> Contents]
    /\ builder \in {"recorder", "panel"} /\ force = (builder = "recorder")
    /\ stage = "rank" /\ todo = Candidates /\ probe = NoProbe /\ valid = {}
    /\ made = NoStep /\ shifts = 0

PageShifts ==
    /\ shifts < MaxShifts /\ shifts' = shifts + 1 /\ made = NoStep
    /\ \E c \in Candidates, s \in Contents : onPage' = [onPage EXCEPT ![c] = s]
    /\ UNCHANGED <<target, builder, force, stage, todo, probe, valid, made>>

\* rank_candidates, the two passes of find_best_candidate.
Sweeps == {"rank", "best", "forced"}

Now == onPage[probe.row]
VisibleNow(i) == i <= Len(Now) /\ Now[i] # "hidden"

Goes(p, v) == /\ probe' = p /\ valid' = v
              /\ UNCHANGED <<target, onPage, builder, force, stage, made, shifts>>

\* The locator is counted; one that matches nothing is left out.
Count ==
    /\ stage \in Sweeps /\ probe = NoProbe
    /\ \E row \in todo :
         /\ \A r \in todo : row.priority <= r.priority
         /\ todo' = todo \ {row}
         /\ LET total == Len(onPage[row])
            IN  Goes(IF total = 0 THEN NoProbe
                     ELSE [NoProbe EXCEPT !.row = row, !.total = total], valid)

\* _count_visible, one element after the other; at most 25 are looked at.
LookAtElement ==
    /\ stage \in {"rank", "best"} /\ probe # NoProbe
    /\ probe.at < probe.total /\ probe.at < 25
    /\ Goes([probe EXCEPT !.at = @ + 1,
                          !.visible = @ + (IF VisibleNow(probe.at + 1) THEN 1 ELSE 0)], valid)
    /\ UNCHANGED todo

\* One visible element, or several of which the first will do.  The first visible
\* one is asked for again; nothing is kept when all of them are gone.  Whether it
\* is enabled, and still there to say so, is left open.
Probed ==
    /\ stage \in {"rank", "best"} /\ probe # NoProbe
    /\ probe.at = probe.total \/ probe.at = 25
    /\ LET usable == (probe.visible = 1 \/ (probe.visible > 1 /\ force))
                     /\ \E i \in 1..probe.total : i <= 25 /\ VisibleNow(i)
           c(a) == [probe EXCEPT !.at = 0, !.actionable = a,
                                 !.found = IF probe.visible = 1 THEN "one" ELSE "first"]
       IN  IF usable THEN \E a \in BOOLEAN : Goes(NoProbe, valid \cup {c(a)})
           ELSE Goes(NoProbe, valid)
    /\ UNCHANGED todo

\* The last resort: any element will do, the first candidate that matches one is it.
Forced ==
    /\ stage = "forced" /\ probe # NoProbe
    /\ \E a \in BOOLEAN :
         Goes(NoProbe, {[probe EXCEPT !.actionable = a, !.found =
                            IF probe.total = 1 THEN "forced" ELSE "forced first"]})
    /\ todo' = {}

-----------------------------------------------------------------------------
(* The end of a pass.                                                      *)

PassEnds == stage \in Sweeps /\ probe = NoProbe /\ todo = {}

\* What comes first, and what of the rest is among the n next ones.
First(c) == c \in valid /\ \A d \in valid \ {c} : Before(c, d)
Following(c, n) == {d \in valid \ {c} : Cardinality({e \in valid : Before(e, d)}) <= n}

\* Nothing can be used: the recorder, which forces, tries again in other ways; the
\* panel forces only now.
TryHarder ==
    /\ PassEnds /\ valid = {}
    /\ stage' = (IF ~force THEN "rank" ELSE IF stage = "rank" THEN "best"
                 ELSE IF stage = "best" THEN "forced" ELSE "nothing")
    /\ force' = TRUE
    /\ todo' = (IF stage' = "nothing" THEN {} ELSE Candidates)
    /\ UNCHANGED <<target, onPage, builder, probe, valid, made, shifts>>

\* The page navigates or closes: what was ranked is lost.
Raises ==
    /\ stage \in Sweeps /\ shifts < MaxShifts /\ shifts' = shifts + 1
    /\ valid' = {} /\ probe' = NoProbe
    /\ stage' = (IF force THEN "nothing" ELSE "rank") /\ force' = TRUE
    /\ todo' = (IF force THEN {} ELSE Candidates)
    /\ UNCHANGED <<target, onPage, builder, made>>

Makes(step) == /\ made' = step /\ stage' = "done" /\ valid' = valid
               /\ UNCHANGED <<target, onPage, builder, force, todo, probe, shifts>>

\* A guess: not the one element the selector shows.
IsGuess(step) ==
    \/ step.kind = "ranked" /\ step.primary.found # "one"
    \/ step.kind = "xpath"

\* The bundle of the recorder.
Recorded ==
    /\ PassEnds /\ builder = "recorder"
    /\ \E c \in valid : /\ IF stage = "best" THEN \A d \in valid : c.row.priority <= d.row.priority
                                             ELSE First(c)
                        /\ Makes([kind |-> "ranked", pass |-> stage, primary |-> c,
                                  confidence |-> Confidence(c),
                                  fallbacks |-> IF stage = "rank" THEN Following(c, 6) ELSE {}])

\* _build_step trusts every locator it is given with 0.9, and only a step with
\* fallbacks gets a bundle with the confidence of its first.
TrustOfBuildStep == 9000
PanelTrust(confidence, fallbacks) == IF fallbacks = {} THEN TrustOfBuildStep ELSE confidence

Emitted ==
    /\ PassEnds /\ builder = "panel"
    /\ \E c \in valid :
         LET next == IF stage = "rank" THEN Following(c, 3) ELSE {}
         IN  /\ IF stage = "best" THEN \A d \in valid : c.row.priority <= d.row.priority
                                  ELSE First(c)
             /\ Makes([kind |-> "ranked", pass |-> stage, primary |-> c,
                       confidence |-> PanelTrust(Confidence(c), next), fallbacks |-> next])

XPathTrust(b) == IF b = "recorder" THEN 2000 ELSE PanelTrust(2500, {})

\* No candidate at all: the absolute path of the element, or no step.
FallBack ==
    /\ stage = "nothing"
    /\ IF "xpath" \in target
       THEN Makes([kind |-> "xpath", confidence |-> XPathTrust(builder)])
       ELSE Makes([kind |-> "dropped"])

RankNext ==
    \/ PageShifts \/ Count \/ LookAtElement \/ Probed \/ Forced
    \/ TryHarder \/ Raises \/ Recorded \/ Emitted \/ FallBack

RankSpec == RankInit /\ [][RankNext]_rankVars

-----------------------------------------------------------------------------
(* A selector that needs nth=0 is never preferred to one that matched a    *)
(* single element, whatever their strategies: the weights of               *)
(* score_candidate decide it, although an aria-label counts twice as much  *)
(* as a path and priorities would say otherwise.                           *)
UniqueComesFirst ==
    made.kind = "ranked" /\ made.pass = "rank" /\ UsedFirst(made.primary) =>
        \A d \in valid : d.total # 1

(* What the recorder guessed, an element that is hidden, one of several or *)
(* a bare path, is not exported: its confidence is below the threshold of  *)
(* evaluate_export_confidence.                                             *)
GuessesAreBlocked ==
    builder = "recorder" /\ IsGuess(made) => Gate(made.confidence) = "block"

(* "< 0.70: block" (docs/10-open-questions-and-decisions.md:23), for the   *)
(* locators of the panel's auto recording as well.                         *)
PanelGuessesAreBlocked ==
    builder = "panel" /\ IsGuess(made) => Gate(made.confidence) = "block"
=============================================================================
