------------------------------ MODULE ForceFix -------------------------------
(***************************************************************************)
(* The cascade that looks for a locator for a step that fails: the one it  *)
(* has, its fallbacks, alternates made from what is known of the element,  *)
(* and at last what a language model proposes, each probed on the page,    *)
(* which changes meanwhile.  Source: healing/force_fix.py and              *)
(* handle_force_fix of cli/panel_cmd.py.                                   *)
(*                                                                         *)
(* What the model is told, what is announced of the progress and what the  *)
(* history of the step records are left out: nothing is decided by them.   *)
(***************************************************************************)
EXTENDS Integers, Sequences, SequencesExt, FiniteSets, ListOps

CONSTANTS
    Selectors,
    Score,          \* _selector_stability_score
    MaxCandidates,  \* bound: fallbacks, alternates, and proposals of the model
    MaxMoves        \* bound: changes of the page

ASSUME CascadeAssumption ==
    /\ Score \in [Selectors -> Int] /\ MaxCandidates \in Nat /\ MaxMoves \in Nat

VARIABLES
    matches,     \* selectors that find exactly one element, a visible one
    toProbe,     \* candidates that are still to be probed, in order
    passes,      \* deterministic_passes
    found,       \* every candidate that passed its probe
    hasModel,    \* llm_provider is there
    modelAsked,  \* stage 4 began
    result,      \* what the cascade returns
    moves

cascadeVars == <<matches, toProbe, passes, found, hasModel, modelAsked, result, moves>>

Candidate(stage, s) == [stage |-> stage, sel |-> s]
Proposals(stage, list) == [i \in DOMAIN list |-> Candidate(stage, list[i])]
NoResult == [stage |-> 0]
NotRepaired == [stage |-> -1]

\* An empty primary is never probed; a first probe that passes is not repeated.
Primary == {<<>>} \cup {<<s, s>> : s \in Selectors}

Lists == UNION {[1..n -> Selectors] : n \in 0..MaxCandidates}

\* _generate_alternates names no selector twice.
Alternates == {list \in Lists : IsInjective(list)}

CascadeInit ==
    /\ matches \in SUBSET Selectors /\ hasModel \in BOOLEAN
    /\ \E p \in Primary, f \in Lists, a \in Alternates :
         toProbe = Proposals(1, p) \o Proposals(2, f) \o Proposals(3, a)
    /\ passes = <<>> /\ found = {} /\ modelAsked = FALSE /\ result = NoResult /\ moves = 0

-----------------------------------------------------------------------------
PageMoves ==
    /\ moves < MaxMoves /\ moves' = moves + 1 /\ result = NoResult
    /\ \E s \in Selectors :
         matches' = (matches \ {s}) \cup ({s} \ matches)
    /\ UNCHANGED <<toProbe, passes, found, hasModel, modelAsked, result>>

\* The next candidate of the stages 1 to 3.
Probe ==
    /\ ~modelAsked /\ toProbe # <<>> /\ result = NoResult
    /\ LET c == Head(toProbe) IN
       IF c.sel \notin matches
       THEN toProbe' = Tail(toProbe) /\ UNCHANGED <<passes, found>>
       ELSE /\ toProbe' = Keep(Tail(toProbe), {d \in Range(toProbe) : c.stage = 1 => d.stage # 1})
            /\ found' = found \cup {c}
            /\ passes' = IF Contains(passes, c) THEN passes ELSE Append(passes, c)
    /\ UNCHANGED <<matches, hasModel, modelAsked, result, moves>>

\* The passes without those of a selector that passed in an earlier stage.
FirstStages(list) ==
    Keep(list, {c \in Range(list) :
                  ~\E d \in Range(list) : d.sel = c.sel /\ d.stage < c.stage})

\* A bug: of two equal locators the one of the later stage is taken.
StrongerLate(best, c) == Score[c.sel] >= Score[best.sel]

Stronger(best, c) ==
    \/ Score[c.sel] > Score[best.sel]
    \/ Score[c.sel] = Score[best.sel] /\ c.stage < best.stage

Best(list) ==
    LET best[i \in 1..Len(list)] ==
            IF i > 1 /\ ~Stronger(best[i - 1], list[i]) THEN best[i - 1] ELSE list[i]
    IN  best[Len(list)]

Select ==
    /\ ~modelAsked /\ toProbe = <<>> /\ passes # <<>> /\ result = NoResult
    /\ result' = Best(FirstStages(passes))
    /\ UNCHANGED <<matches, toProbe, passes, found, hasModel, modelAsked, moves>>

NothingMatched == ~modelAsked /\ toProbe = <<>> /\ passes = <<>> /\ result = NoResult

GiveUp ==
    /\ NothingMatched /\ ~hasModel
    /\ result' = NotRepaired
    /\ UNCHANGED <<matches, toProbe, passes, found, hasModel, modelAsked, moves>>

\* The model answers, with candidates it may have been told not to repeat, or
\* fails, which is an answer without candidates.
AskModel ==
    /\ NothingMatched /\ hasModel
    /\ modelAsked' = TRUE
    /\ \E list \in Lists : toProbe' = Proposals(4, list)
    /\ UNCHANGED <<matches, passes, found, hasModel, result, moves>>

VerifyAnswer ==
    /\ modelAsked /\ toProbe # <<>> /\ result = NoResult
    /\ IF Head(toProbe).sel \in matches
       THEN result' = Head(toProbe) /\ found' = found \cup {Head(toProbe)} /\ UNCHANGED toProbe
       ELSE toProbe' = Tail(toProbe) /\ UNCHANGED <<result, found>>
    /\ UNCHANGED <<matches, passes, hasModel, modelAsked, moves>>

NoneWorked ==
    /\ modelAsked /\ toProbe = <<>> /\ result = NoResult
    /\ result' = NotRepaired
    /\ UNCHANGED <<matches, toProbe, passes, found, hasModel, modelAsked, moves>>

CascadeNext ==
    PageMoves \/ Probe \/ Select \/ GiveUp \/ AskModel \/ VerifyAnswer \/ NoneWorked

CascadeSpec == CascadeInit /\ [][CascadeNext]_cascadeVars

-----------------------------------------------------------------------------
(* What the cascade reports as the repair passed its probe, and of all     *)
(* that passed none is more stable, nor equally stable and from an earlier *)
(* stage, whatever selectors are listed twice and whenever they began to   *)
(* match (the tie-breaker of _select_best_deterministic_candidate).        *)
StrongestWins ==
    result \notin {NoResult, NotRepaired} =>
        /\ result \in found
        /\ \A c \in found : Score[c.sel] <= Score[result.sel]
        /\ \A c \in found : Score[c.sel] = Score[result.sel] => result.stage <= c.stage
=============================================================================
