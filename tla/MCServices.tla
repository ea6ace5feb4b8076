------------------------------ MODULE MCServices ------------------------------
(***************************************************************************)
(* The small parts of the agent that share no state, checked side by side: *)
(* a behaviour is one of the part its first state picks, the other parts   *)
(* rest in their (or one of their) first states.                           *)
(***************************************************************************)
EXTENDS LlmRounds, Orchestrator, PanelVersions, BrowserTools, StepContext,
        ForceFix, Memory, LocatorRank, InteractiveReplay, TLC

CONSTANTS
    v1, draft, t1, f1, g1, replay, validate, home, item1, item2,
    a, b, d, css, text, area, file1

MCParent == (f1 :> t1) @@ (g1 :> f1)
MCTabOf == (f1 :> t1) @@ (g1 :> t1)
MCRoute == [u \in Urls |-> IF u = home THEN "/" ELSE "/:param"]
MCScore == [s \in Selectors |-> IF s = "testid" THEN 60 ELSE 16]
MCTargets == {{"aria", "xpath"}, {"text", "id"}, {}}
MCContents == {<<>>, <<"shown">>, <<"hidden">>, <<"hidden", "shown">>, <<"shown", "shown">>,
               <<"shown", "hidden", "shown", "hidden">>}
TwoSteps == <<a, b>>
ASelector == (a :> <<css, text>>) @@ (b :> <<css>>) @@ (d :> <<text>>)
UploadArea == <<area, file1>>

VARIABLE part

Parts == {"rounds", "orchestrator", "versions", "tools", "context", "cascade", "memory",
          "rank", "interactive"}

\* First states of the parts that have several; one of them when at rest.
FirstStates ==
    /\ OrchInit /\ (part # "orchestrator" => ~reviews)
    /\ ContextInit /\ (part # "context" => page = CHOOSE p \in NewPage : TRUE)
    /\ CascadeInit /\ (part # "cascade" => matches = {} /\ toProbe = <<>> /\ ~hasModel)
    /\ RankInit /\ (part # "rank" =>
                       /\ target = {} /\ builder = "panel"
                       /\ onPage = [s \in Candidates |-> <<>>])

ServicesInit ==
    /\ part \in Parts
    /\ LlmInit /\ VersionsInit /\ BrowserInit /\ MemoryInit /\ Init
    /\ FirstStates

Moves(p, next) == part = p /\ next /\ UNCHANGED part

ServicesNext ==
    \/ Moves("rounds", LlmNext)
       /\ UNCHANGED <<orchVars, versionVars, browserVars, contextVars,
                      cascadeVars, memoryVars, rankVars, vars>>
    \/ Moves("orchestrator", OrchNext)
       /\ UNCHANGED <<llmVars, versionVars, browserVars, contextVars,
                      cascadeVars, memoryVars, rankVars, vars>>
    \/ Moves("versions", VersionsNext)
       /\ UNCHANGED <<llmVars, orchVars, browserVars, contextVars,
                      cascadeVars, memoryVars, rankVars, vars>>
    \/ Moves("tools", BrowserNext)
       /\ UNCHANGED <<llmVars, orchVars, versionVars, contextVars,
                      cascadeVars, memoryVars, rankVars, vars>>
    \/ Moves("context", ContextNext)
       /\ UNCHANGED <<llmVars, orchVars, versionVars, browserVars,
                      cascadeVars, memoryVars, rankVars, vars>>
    \/ Moves("cascade", CascadeNext)
       /\ UNCHANGED <<llmVars, orchVars, versionVars, browserVars,
                      contextVars, memoryVars, rankVars, vars>>
    \/ Moves("memory", MemoryNext)
       /\ UNCHANGED <<llmVars, orchVars, versionVars, browserVars,
                      contextVars, cascadeVars, rankVars, vars>>
    \/ Moves("rank", RankNext)
       /\ UNCHANGED <<llmVars, orchVars, versionVars, browserVars,
                      contextVars, cascadeVars, memoryVars, vars>>
    \/ Moves("interactive", Next)
       /\ UNCHANGED <<llmVars, orchVars, versionVars, browserVars,
                      contextVars, cascadeVars, memoryVars, rankVars>>

servicesVars == <<part, llmVars, orchVars, versionVars, browserVars, contextVars,
                  cascadeVars, memoryVars, rankVars, vars>>

ServicesSpec == ServicesInit /\ [][ServicesNext]_servicesVars
=============================================================================
