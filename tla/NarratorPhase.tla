---------------------------- MODULE NarratorPhase ----------------------------
(***************************************************************************)
(* The narration of a committed move: at most two attempts, each prepared, *)
(* inferred, checked against the committed speech and judged.  A narration *)
(* that speaks for the player leaves an obligation that only a later clean *)
(* verdict clears.                                                         *)
(***************************************************************************)
EXTENDS SemanticQa

VARIABLE narrator

MaxNarratorAttempts == 2

NarratorStages == {"idle", "preparing", "inferring", "validating", "evaluating", "over"}

NarratorDispositions ==
    {"none", "narrator_presented", "accepted_with_residual_soft_concerns",
     "committed_fallback", "player_authorship_rejected"}

NarratorStates ==
    [at : NarratorStages,
     attempt : 0 .. MaxNarratorAttempts - 1,
     evaluations : 0 .. SemanticEvalInfraRetries,
     verdict : Verdicts,            \* on this attempt
     obligation : BOOLEAN,          \* pendingPlayerAuthorshipRepair
     presented : BOOLEAN,           \* a narration was accepted
     disposition : NarratorDispositions]

NarratorTypeOK == narrator \in NarratorStates

NarratorFresh ==
    [at |-> "preparing", attempt |-> 0, evaluations |-> 0, verdict |-> "none",
     obligation |-> FALSE, presented |-> FALSE, disposition |-> "none"]

NarratorIdle == [NarratorFresh EXCEPT !.at = "idle"]

NarratorInit == narrator = NarratorIdle

-----------------------------------------------------------------------------
(* Ends of an attempt, as functions of the phase's state *)

AttemptsRemain(n) == n.attempt < MaxNarratorAttempts - 1

NextAttempt_Uncounted(n) == [n EXCEPT !.at = "preparing", !.evaluations = 0, !.verdict = "none"]

NextAttempt(n) ==
    [n EXCEPT !.at = "preparing", !.attempt = @ + 1, !.evaluations = 0, !.verdict = "none"]

NotPresented(n, disposition) == [n EXCEPT !.at = "over", !.disposition = disposition]

Presented(n, disposition) ==
    [n EXCEPT !.at = "over", !.presented = TRUE, !.disposition = disposition]

FinishKinds == {"complete", "output_limit", "provider_error", "unknown"}

\* narratorRetryDecision
RetryDecision(n, kind, empty, validationRetryable, permanent) ==
    IF kind = "complete" /\ ~empty /\ ~validationRetryable THEN "accept"
    ELSE IF permanent \/ ~AttemptsRemain(n) THEN "terminal_fallback"
    ELSE "retry"

\* Only a decision to retry starts another attempt; any other ends the phase
\* without a narration.
AfterFailure(n, decision) ==
    IF decision = "retry" THEN NextAttempt(n) ELSE NotPresented(n, "committed_fallback")

\* buildPlayerAuthorshipRepairObligation: set once, for a hard finding whether
\* or not its citation is authoritative.
SpeaksForPlayer(e) ==
    \E f \in e.findings : f.dimension = "player_authorship" /\ f.severity \in {"hard", "unsupported"}

Regenerated(n, e) == NextAttempt([n EXCEPT !.obligation = @ \/ SpeaksForPlayer(e)])

\* assessPlayerAuthorshipRepairVerification: cleared, and nothing else.
Repaired(e) == NarratorVerdict(e) = "clean"

\* applyNarratorSemanticPolicy
PolicyApplied(n, e) ==
    LET verdict == NarratorVerdict(e) IN
    CASE n.obligation /\ ~Repaired(e) ->
            IF AttemptsRemain(n) THEN Regenerated(n, e)
            ELSE NotPresented(n, "player_authorship_rejected")
      [] verdict = "clean" -> Presented(n, "narrator_presented")
      [] verdict # "clean" /\ ~n.obligation /\ AttemptsRemain(n) -> Regenerated(n, e)
      [] verdict = "hard" /\ ~n.obligation /\ ~AttemptsRemain(n) ->
            NotPresented(n, IF AuthorshipViolation(e) THEN "player_authorship_rejected"
                            ELSE "committed_fallback")
      [] OTHER -> Presented(n, "accepted_with_residual_soft_concerns")

-----------------------------------------------------------------------------
(* Actions *)

\* runNarratorPhase is entered; environment cognition, whose failures it
\* absorbs, comes before the first attempt.
NarratorEnters ==
    /\ narrator.at \in {"idle", "over"}
    /\ narrator' = NarratorFresh

NarratorPrepared ==
    /\ narrator.at = "preparing"
    /\ narrator' = [narrator EXCEPT !.at = "inferring"]

\* prepare_narrator_context fails: no further attempt.
NarratorPrepareFails ==
    /\ narrator.at = "preparing"
    /\ narrator' = NotPresented(narrator, "committed_fallback")

\* The inference fails or throws, or its output is incomplete or empty.
NarratorInferenceFails ==
    /\ narrator.at = "inferring"
    /\ \E kind \in FinishKinds, empty, permanent \in BOOLEAN :
          /\ kind = "complete" => empty
          /\ narrator' = AfterFailure(narrator,
                             RetryDecision(narrator, kind, empty, FALSE, permanent))

NarratorProposes ==
    /\ narrator.at = "inferring"
    /\ narrator' = [narrator EXCEPT !.at = "validating"]

\* The host finds the committed speech misquoted.
NarratorRefused ==
    /\ narrator.at = "validating"
    /\ \E retryable \in BOOLEAN :
          narrator' = AfterFailure([narrator EXCEPT !.verdict = "refused"],
                          RetryDecision(narrator, "complete", FALSE, retryable, FALSE))

\* The call to the host fails: the output is complete, so no retry follows.
NarratorThrows ==
    /\ narrator.at = "validating"
    /\ narrator' = AfterFailure(narrator, RetryDecision(narrator, "complete", FALSE, FALSE, FALSE))

NarratorValidated ==
    /\ narrator.at = "validating"
    /\ narrator' = IF SemanticQaEnabled THEN [narrator EXCEPT !.at = "evaluating"]
                   ELSE Presented(narrator, "narrator_presented")

NarratorEvaluationFails ==
    /\ narrator.at = "evaluating"
    /\ narrator' = IF narrator.evaluations < SemanticEvalInfraRetries
                   THEN [narrator EXCEPT !.evaluations = @ + 1]
                   ELSE NotPresented(narrator, "committed_fallback")

NarratorEvaluated(e) ==
    /\ narrator.at = "evaluating"
    /\ narrator' = PolicyApplied(
                       [narrator EXCEPT !.verdict = NarratorVerdict(e)], e)

NarratorStep ==
    \/ NarratorPrepared
    \/ NarratorPrepareFails
    \/ NarratorInferenceFails
    \/ NarratorProposes
    \/ NarratorRefused
    \/ NarratorThrows
    \/ NarratorValidated
    \/ NarratorEvaluationFails
    \/ \E e \in Evaluations : NarratorEvaluated(e)

-----------------------------------------------------------------------------
(* Properties *)

\* A narration shown after one that spoke for the player was judged clean; one
\* shown without that was never judged hard, and soft only on the last attempt.
RepairedBeforeShown ==
    narrator.presented =>
        /\ narrator.obligation => narrator.verdict = "clean"
        /\ narrator.verdict \notin {"refused", "hard"}
        /\ narrator.verdict = "soft" => ~AttemptsRemain(narrator)

=============================================================================
