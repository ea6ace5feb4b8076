------------------------------ MODULE LlmRounds ------------------------------
(***************************************************************************)
(* The two loops of the panel that let a language model try things on the  *)
(* page: LLM Assist repairs a step that fails, LLM Build makes a new one.  *)
(* A panel sends a request; the server asks the model, which answers with  *)
(* a few attempts, and performs them in order until one works, announcing  *)
(* each before and after to every panel.  A panel counts the attempts it   *)
(* is still to hear of, and asks again by itself when all have failed.     *)
(* Source: cli/panel_cmd.py, healing/llm_assist.py, panel/web/panel.html.  *)
(*                                                                         *)
(* One message of a connection is handled at a time (panel/bridge.py);     *)
(* the connections run side by side.  A panel hears of an announcement     *)
(* when it is made: the server reads nothing of a panel's in between, so   *)
(* a slower delivery is a slower server.  The page of a panel is not loaded *)
(* again: that would begin its counters anew.                              *)
(***************************************************************************)
EXTENDS Integers, Sequences, SequencesExt

CONSTANTS
    Panels,       \* the connected panels
    MaxAttempts,  \* attempts in one answer of the model (3 in the code)
    MaxAuto,      \* LA_MAX_AUTO_ITERATIONS: attempts after which Assist stops
    MaxClicks,    \* bound: clicks of the users
    MaxAnswers    \* bound: requests the model answers; the others fail

ASSUME RoundsAssumption ==
    /\ MaxAttempts \in Nat \ {0} /\ MaxAuto \in Nat
    /\ MaxClicks \in Nat /\ MaxAnswers \in Nat

VARIABLES
    assist,    \* laState of each panel
    build,     \* lbState of each panel
    inbox,     \* requests of a connection that are not handled yet
    serving,   \* the request a connection is handling
    asked,     \* requests each panel sent by itself, by kind
    clicks, rounds

llmVars == <<assist, build, inbox, serving, asked, clicks, rounds>>

Kinds == {"assist", "build"}
Idle == [stage |-> "idle", kind |-> "none", total |-> 0, at |-> 0]

LlmInit ==
    /\ assist = [p \in Panels |-> [waiting |-> FALSE, pending |-> 0, tried |-> 0,
                                   offered |-> FALSE, timers |-> 0]]
    /\ build = [p \in Panels |-> [waiting |-> FALSE, thinking |-> FALSE, pending |-> 0,
                                  stopped |-> FALSE, offered |-> FALSE]]
    /\ inbox = [p \in Panels |-> <<>>]
    /\ serving = [p \in Panels |-> Idle]
    /\ asked = [p \in Panels |-> [k \in Kinds |-> 0]]
    /\ clicks = 0 /\ rounds = 0

-----------------------------------------------------------------------------
(* What a panel does with what it hears. *)

LastOne(s) == s.pending <= 1

\* A bug: the attempts already made are expected again (as Build does).
RemainingAll(m) == m.total

Remaining(m) == m.total - m.at + 1

AssistHears(s, m) ==
    CASE m.status = "error" -> [s EXCEPT !.waiting = FALSE, !.pending = 0]
      [] m.status = "executing" -> [s EXCEPT !.pending = Remaining(m)]
      [] m.status = "passed" ->
           [s EXCEPT !.tried = @ + 1, !.pending = 0, !.waiting = FALSE, !.offered = TRUE]
      [] m.status = "failed" /\ LastOne(s) ->
           [s EXCEPT !.tried = @ + 1, !.pending = 0, !.waiting = FALSE, !.timers = @ + 1]
      [] m.status = "failed" /\ ~LastOne(s) -> [s EXCEPT !.tried = @ + 1, !.pending = @ - 1]

\* A bug: the loop does not look whether the user stopped it.
AsksAgainStopped(s, m) == m.status = "failed" /\ LastOne(s)

AsksAgain(s, m) == m.status = "failed" /\ LastOne(s) /\ ~s.stopped

\* A panel is shown thinking by the rounds of the others too.
BuildHears(s, m) ==
    CASE m.status = "error" ->
           [s EXCEPT !.waiting = FALSE, !.thinking = FALSE, !.pending = 0]
      [] m.status = "executing" -> [s EXCEPT !.thinking = TRUE, !.pending = m.total]
      [] m.status = "passed" ->
           [s EXCEPT !.pending = 0, !.waiting = FALSE, !.thinking = FALSE, !.offered = TRUE]
      [] m.status = "failed" /\ LastOne(s) ->
           [s EXCEPT !.pending = 0, !.waiting = AsksAgain(s, m), !.thinking = AsksAgain(s, m),
                     !.offered = @ /\ ~AsksAgain(s, m)]
      [] m.status = "failed" /\ ~LastOne(s) -> [s EXCEPT !.pending = @ - 1]

\* An announcement of kind k to every panel; Build asks again at once.
Announce(k, m) ==
    IF k = "assist"
    THEN /\ assist' = [p \in Panels |-> AssistHears(assist[p], m)]
         /\ UNCHANGED <<build, inbox, asked>>
    ELSE LET again == {p \in Panels : AsksAgain(build[p], m)} IN
         /\ build' = [p \in Panels |-> BuildHears(build[p], m)]
         /\ inbox' = [p \in Panels |-> IF p \in again THEN Append(inbox[p], "build")
                                                      ELSE inbox[p]]
         /\ asked' = [p \in Panels |-> IF p \in again
                                       THEN [asked[p] EXCEPT !["build"] = @ + 1]
                                       ELSE asked[p]]
         /\ UNCHANGED assist

-----------------------------------------------------------------------------
(* The server: one request of a connection from start to end. *)

Take(p) ==
    /\ serving[p].stage = "idle" /\ inbox[p] # <<>>
    /\ serving' = [serving EXCEPT ![p] = [Idle EXCEPT !.stage = "asking", !.kind = Head(inbox[p])]]
    /\ inbox' = [inbox EXCEPT ![p] = Tail(@)]
    /\ UNCHANGED <<assist, build, asked, clicks, rounds>>

\* No model, no such step, no file to upload; for Build also a model that fails.
Refuse(p) ==
    /\ serving[p].stage = "asking"
    /\ Announce(serving[p].kind, [status |-> "error"])
    /\ serving' = [serving EXCEPT ![p] = Idle]
    /\ UNCHANGED <<clicks, rounds>>

\* The answer of the model.  An answer without attempts, and for Assist a
\* model that fails, is replaced by one attempt with the old locator.
Plan(p) ==
    /\ serving[p].stage = "asking" /\ rounds < MaxAnswers
    /\ rounds' = rounds + 1
    /\ \E n \in 1..MaxAttempts :
         serving' = [serving EXCEPT ![p] = [@ EXCEPT !.stage = "next", !.total = n, !.at = 1]]
    /\ UNCHANGED <<assist, build, inbox, asked, clicks>>

Try(p) ==
    /\ serving[p].stage = "next"
    /\ Announce(serving[p].kind,
                [status |-> "executing", at |-> serving[p].at, total |-> serving[p].total])
    /\ serving' = [serving EXCEPT ![p].stage = "trying"]
    /\ UNCHANGED <<clicks, rounds>>

Passes(p) ==
    /\ serving[p].stage = "trying"
    /\ Announce(serving[p].kind, [status |-> "passed"])
    /\ serving' = [serving EXCEPT ![p] = Idle]
    /\ UNCHANGED <<clicks, rounds>>

Fails(p) ==
    /\ serving[p].stage = "trying"
    /\ Announce(serving[p].kind, [status |-> "failed"])
    /\ serving' = [serving EXCEPT ![p] =
                     IF @.at = @.total THEN Idle
                     ELSE [@ EXCEPT !.stage = "next", !.at = serving[p].at + 1]]
    /\ UNCHANGED <<clicks, rounds>>

\* The picture of the page around an attempt cannot be taken.
Breaks(p) ==
    /\ serving[p].stage = "trying"
    /\ Announce(serving[p].kind, [status |-> "error"])
    /\ serving' = [serving EXCEPT ![p] = Idle]
    /\ UNCHANGED <<clicks, rounds>>

\* Build and Assist take a request and ask the model alike, and try what it says alike.
Asking(p) == Take(p) \/ Refuse(p) \/ Plan(p)
Trying(p) == Try(p) \/ Passes(p) \/ Fails(p) \/ Breaks(p)
Serve(p) == Asking(p) \/ Trying(p)

-----------------------------------------------------------------------------
(* The users. *)

Click == clicks < MaxClicks /\ clicks' = clicks + 1 /\ UNCHANGED <<serving, rounds>>

Send(p, k) == inbox' = [inbox EXCEPT ![p] = Append(@, k)]

Ask(p) ==
    /\ Click /\ ~assist[p].waiting
    /\ assist' = [assist EXCEPT ![p] = [@ EXCEPT !.waiting = TRUE, !.pending = 0,
                                                 !.offered = FALSE]]
    /\ Send(p, "assist") /\ UNCHANGED <<build, asked>>

\* A bug: Assist goes on asking without limit.
NextRoundEndless(p, s) ==
    /\ assist' = [assist EXCEPT ![p] = [s EXCEPT !.waiting = TRUE, !.pending = 0]]
    /\ Send(p, "assist")
    /\ asked' = [asked EXCEPT ![p]["assist"] = @ + 1]

\* laAutoNextIteration, from a panel whose state is s.
NextRound(p, s) ==
    IF s.tried >= MaxAuto
    THEN assist' = [assist EXCEPT ![p] = s] /\ UNCHANGED <<inbox, asked>>
    ELSE /\ assist' = [assist EXCEPT ![p] = [s EXCEPT !.waiting = TRUE, !.pending = 0]]
         /\ Send(p, "assist")
         /\ asked' = [asked EXCEPT ![p]["assist"] = @ + 1]

StillBroken(p) ==
    /\ Click /\ assist[p].offered
    /\ NextRound(p, [assist[p] EXCEPT !.offered = FALSE])
    /\ UNCHANGED build

Worked(p) ==
    /\ Click /\ assist[p].offered
    /\ assist' = [assist EXCEPT ![p].offered = FALSE]
    /\ UNCHANGED <<build, inbox, asked>>

\* The half second after a round in which every attempt failed is over.
TimerFires(p) ==
    /\ assist[p].timers > 0
    /\ NextRound(p, [assist[p] EXCEPT !.timers = @ - 1])
    /\ UNCHANGED <<build, serving, clicks, rounds>>

BuildRun(p) ==
    /\ Click /\ ~build[p].waiting
    /\ build' = [build EXCEPT ![p] = [waiting |-> TRUE, thinking |-> TRUE, pending |-> 0,
                                      stopped |-> FALSE, offered |-> FALSE]]
    /\ Send(p, "build") /\ UNCHANGED <<assist, asked>>

BuildRetry(p) ==
    /\ Click /\ build[p].offered
    /\ build' = [build EXCEPT ![p] = [waiting |-> TRUE, thinking |-> TRUE, pending |-> 0,
                                      stopped |-> FALSE, offered |-> FALSE]]
    /\ Send(p, "build") /\ UNCHANGED <<assist, asked>>

\* The button is there while the panel is shown thinking.
BuildStop(p) ==
    /\ Click /\ build[p].thinking
    /\ build' = [build EXCEPT ![p] = [@ EXCEPT !.stopped = TRUE, !.waiting = FALSE,
                                               !.thinking = FALSE, !.pending = 0]]
    /\ UNCHANGED <<assist, inbox, asked>>

BuildInsert(p) ==
    /\ Click /\ build[p].offered
    /\ build' = [build EXCEPT ![p].offered = FALSE]
    /\ UNCHANGED <<assist, inbox, asked>>

UserClicks(p) ==
    \/ Ask(p) \/ StillBroken(p) \/ Worked(p)
    \/ BuildRun(p) \/ BuildRetry(p) \/ BuildStop(p) \/ BuildInsert(p)

LlmNext == \E p \in Panels : Serve(p) \/ TimerFires(p) \/ UserClicks(p)

LlmSpec == LlmInit /\ [][LlmNext]_llmVars

-----------------------------------------------------------------------------
(* A panel that waits for Assist has something to hear: a request of Assist *)
(* is queued or at work, and its end will be the end of the wait.  The     *)
(* attempts a panel expects are counted down to none however the rounds of *)
(* two panels mix, so no wait outlives the last round (onLlmAssistResult). *)
NobodyWaitsForNothing ==
    (\E p \in Panels : assist[p].waiting) =>
        \E q \in Panels : serving[q].kind = "assist" \/ Contains(inbox[q], "assist")

(* However rounds, clicks and timers overlap, the rounds a panel starts by *)
(* itself or after "Still broken" stay within LA_MAX_AUTO_ITERATIONS.      *)
AutoRoundsBounded == \A p \in Panels : asked[p]["assist"] <= MaxAuto

(* Once the user stopped Build, what the round at hand still announces     *)
(* does not make this panel ask again until the user does (lb-stop-btn).   *)
StopIsHonoured ==
    [][\A p \in Panels : build[p].stopped => asked'[p]["build"] = asked[p]["build"]]_llmVars
=============================================================================
