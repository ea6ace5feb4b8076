----------------------------- MODULE Orchestrator -----------------------------
(***************************************************************************)
(* One LLMOrchestrator.run_step: rounds of a model that may call tools,    *)
(* with a budget of rounds, of rounds without progress and of escalations  *)
(* to a larger context.  Source: llm/orchestrator.py.                      *)
(*                                                                         *)
(* A round is one action for the answer of the model and the tools it      *)
(* called, and the budgets are settled at its end, as in the code, which   *)
(* awaits nothing that shares this state.                                  *)
(***************************************************************************)
EXTENDS Integers, Sequences

CONSTANTS
    MaxRounds,        \* max_round_trips
    MaxNoProgress,    \* max_no_progress_retries
    MaxEscalations,   \* max_tier_escalations
    EscalateAfter,    \* escalate_after_no_progress
    FirstTier, TopTier

ASSUME BudgetAssumption ==
    /\ MaxRounds \in Nat \ {0} /\ MaxNoProgress \in Nat /\ MaxEscalations \in Nat
    /\ EscalateAfter \in Nat \ {0}
    /\ FirstTier \in Nat /\ TopTier \in Nat /\ FirstTier <= TopTier

VARIABLES
    reviews,     \* review_after_success of this orchestrator
    phase,       \* state.phase
    noProgress,  \* state.no_progress_retries
    escalations, \* state.tier_escalations
    tier,        \* current_tier
    path,        \* escalation_path
    round,       \* rounds begun
    outcome,     \* the status of `outcome`: none, failed or succeeded
    tools,       \* the latest round with tools: "none", "some" or "all" of those that
                 \* ran were ok, "cut" when further calls of the answer were left out
    stop         \* stopReason of the result, "none" while the loop goes on

orchVars == <<reviews, phase, noProgress, escalations, tier, path, round, outcome, tools, stop>>

Phases == {"plan", "classification", "repair", "review"}
StopReasons == {"step_succeeded", "review_completed", "no_progress_budget_exhausted",
                "max_round_trips_exhausted", "raised"}

OrchInit ==
    /\ reviews \in BOOLEAN
    /\ phase = "plan" /\ noProgress = 0 /\ escalations = 0
    /\ tier = FirstTier /\ path = <<FirstTier>>
    /\ round = 0 /\ outcome = "none" /\ tools = "none" /\ stop = "none"

-----------------------------------------------------------------------------
(* The end of a round: progress or not, the budgets, the larger context.   *)
(* nextPhase is where the answer alone would lead.                         *)

MayEscalate(idle) ==
    idle >= EscalateAfter /\ escalations < MaxEscalations /\ tier < TopTier

\* A bug: the count of idle rounds goes on in the larger context.
EscalateKeeping(idle) ==
    /\ escalations' = escalations + 1 /\ tier' = tier + 1
    /\ path' = Append(path, tier + 1)
    /\ phase' = "repair" /\ noProgress' = idle

Escalate(idle) ==
    /\ escalations' = escalations + 1 /\ tier' = tier + 1
    /\ path' = Append(path, tier + 1)
    /\ phase' = "repair" /\ noProgress' = 0

Settle(progress, nextPhase) ==
    LET idle == IF progress THEN 0 ELSE noProgress + 1 IN
    \/ /\ idle > MaxNoProgress
       /\ stop' = "no_progress_budget_exhausted"
       /\ noProgress' = idle /\ phase' = nextPhase
       /\ UNCHANGED <<tier, path, escalations>>
    \/ /\ idle <= MaxNoProgress /\ MayEscalate(idle)
       /\ Escalate(idle) /\ UNCHANGED stop
    \/ /\ idle <= MaxNoProgress /\ ~MayEscalate(idle)
       /\ noProgress' = idle /\ phase' = nextPhase
       /\ UNCHANGED <<tier, path, escalations, stop>>

EndWith(reason, nextPhase) ==
    /\ stop' = reason /\ phase' = nextPhase
    /\ UNCHANGED <<noProgress, tier, path, escalations>>

Round ==
    /\ stop = "none" /\ round < MaxRounds /\ round' = round + 1
    /\ UNCHANGED reviews

\* Every tool the round ran answered ok.  Calls beyond max_tool_calls_per_round
\* are not run, and do not keep the round from counting as a success.
ToolsSucceed ==
    /\ Round
    /\ tools' \in {"all", "cut"} /\ outcome' = "succeeded"
    /\ IF reviews THEN Settle(TRUE, "review")
                  ELSE EndWith("step_succeeded", phase)

AfterFailure == IF phase \in {"classification", "repair"} THEN "repair"
                ELSE "classification"

\* A tool raised or answered ok: false; others of the round may have acted.
ToolFails ==
    /\ Round
    /\ outcome' = "failed"
    /\ \E progress \in BOOLEAN :
         /\ tools' = (IF progress THEN "some" ELSE "none")
         /\ Settle(progress, AfterFailure)

\* No tool call: text or nothing at all.
Answers ==
    /\ Round /\ UNCHANGED <<tools, outcome>>
    /\ IF phase = "review" THEN EndWith("review_completed", phase)
       ELSE \E text \in BOOLEAN :
              Settle(text, IF phase = "classification" THEN "repair" ELSE phase)

\* The provider raises: the exception leaves run_step.
ProviderRaises ==
    /\ Round /\ EndWith("raised", phase) /\ UNCHANGED <<tools, outcome>>

OutOfRounds ==
    /\ stop = "none" /\ round = MaxRounds
    /\ EndWith("max_round_trips_exhausted", phase)
    /\ UNCHANGED <<reviews, round, tools, outcome>>

OrchNext == ToolsSucceed \/ ToolFails \/ Answers \/ ProviderRaises \/ OutOfRounds

OrchSpec == OrchInit /\ [][OrchNext]_orchVars

-----------------------------------------------------------------------------
(* run_step reports success only when the latest tools it ran were all ok: *)
(* no failure is forgotten on the way through classification, repair and   *)
(* review.                                                                 *)
SuccessIsEarned ==
    stop \in {"step_succeeded", "review_completed"} =>
        outcome = "succeeded" /\ tools \in {"all", "cut"}

(* With a retry budget no smaller than the escalation threshold, the loop  *)
(* gives up for lack of progress only when there is no larger context to   *)
(* try: the two counters, of which one is reset and one is not, never make *)
(* it stop early.                                                          *)
GivesUpAtTheTop ==
    stop = "no_progress_budget_exhausted" /\ EscalateAfter <= MaxNoProgress =>
        tier = TopTier \/ escalations = MaxEscalations

(* The escalation path each call is reported with names every context that *)
(* was used, in order and without a gap, up to the current one.            *)
PathIsComplete ==
    /\ path = [i \in 1..(escalations + 1) |-> FirstTier + i - 1]
    /\ tier = FirstTier + escalations
    /\ escalations <= MaxEscalations /\ tier <= TopTier
=============================================================================
