--------------------------- MODULE CharacterPhase ---------------------------
(***************************************************************************)
(* A character's turn: an inference proposes a move, the host validates    *)
(* it, an evaluator judges it, the host commits it.  One budget of at most *)
(* three candidates is shared by refusals, hard corrections, one soft      *)
(* challenge and commits that find the turn taken.                         *)
(***************************************************************************)
EXTENDS SemanticQa

VARIABLE character

CharacterStages ==
    {"idle", "inferring", "validating", "evaluating", "committing", "over", "thrown"}

CharacterFailures ==
    {"character_inference_failed", "semantic_evaluator_failed", "hard_exhausted",
     "commit_rejected", "anchor_mismatch_exhausted", "candidate_budget_exhausted"}

CharInfraRetries == 1
HardCorrectionLimit == 2

CharacterStates ==
    [at : CharacterStages,
     generated : 0 .. LiveCandidateCeiling,         \* generatedCount
     inferences : 0 .. CharInfraRetries,            \* failed ones of this candidate
     evaluations : 0 .. SemanticEvalInfraRetries,   \* failed ones of this candidate
     softChallengeUsed : BOOLEAN,
     hardCorrections : 0 .. HardCorrectionLimit,
     verdict : Verdicts,                            \* on this candidate
     committed : {0} \cup Candidates,               \* the candidate the host committed
     disposition : {"none"} \cup CharacterFailures]

CharacterTypeOK == character \in CharacterStates

CharacterFresh ==
    [at |-> "inferring", generated |-> 0, inferences |-> 0, evaluations |-> 0,
     softChallengeUsed |-> FALSE, hardCorrections |-> 0,
     verdict |-> "none", committed |-> 0, disposition |-> "none"]

CharacterIdle == [CharacterFresh EXCEPT !.at = "idle"]

CharacterInit == character = CharacterIdle

-----------------------------------------------------------------------------
(* Ends of a candidate, as functions of the phase's state *)

CanGenerate(c) == c.generated < CandidateLimit

CharacterFailed(c, disposition) == [c EXCEPT !.at = "over", !.disposition = disposition]

\* The loop's condition and what follows the loop.
AnotherCandidate(c) ==
    IF CanGenerate(c) THEN [c EXCEPT !.at = "inferring", !.inferences = 0, !.evaluations = 0,
                                     !.verdict = "none"]
    ELSE CharacterFailed(c, "candidate_budget_exhausted")

CanCorrect(c) == c.hardCorrections < HardCorrectionLimit /\ CanGenerate(c)

HardFound(c) ==
    IF CanCorrect(c) THEN AnotherCandidate([c EXCEPT !.hardCorrections = @ + 1])
    ELSE CharacterFailed(c, "hard_exhausted")

\* canApplySoftChallenge asks whether the challenge was used, not whether a
\* candidate is left; the second soft finding is recorded and committed.
SoftFound(c) ==
    IF ~c.softChallengeUsed THEN AnotherCandidate([c EXCEPT !.softChallengeUsed = TRUE])
    ELSE [c EXCEPT !.at = "committing"]

-----------------------------------------------------------------------------
(* Actions *)

\* runCharacterPhase is entered; cognition and projection, whose failures it
\* absorbs, come before the first candidate.
CharacterEnters ==
    /\ character.at \in {"idle", "over", "thrown"}
    /\ character' = CharacterFresh

\* runCharacterInferenceWithInfraRetry: one retry, then the phase fails.
CharacterInferenceFails ==
    /\ character.at = "inferring"
    /\ character' = IF character.inferences < CharInfraRetries
                    THEN [character EXCEPT !.inferences = @ + 1]
                    ELSE CharacterFailed(character, "character_inference_failed")

\* recordGeneratedCandidate.
CharacterProposes ==
    /\ character.at = "inferring"
    /\ character' = [character EXCEPT !.at = "validating", !.generated = @ + 1]

\* validate_move refuses, always as retryable.
CharacterRefused ==
    /\ character.at = "validating"
    /\ character' = AnotherCandidate([character EXCEPT !.verdict = "refused"])

CharacterValidated ==
    /\ character.at = "validating"
    /\ character' = [character EXCEPT !.at = IF SemanticQaEnabled THEN "evaluating"
                                             ELSE "committing"]

CharacterEvaluationFails ==
    /\ character.at = "evaluating"
    /\ character' = IF character.evaluations < SemanticEvalInfraRetries
                    THEN [character EXCEPT !.evaluations = @ + 1]
                    ELSE CharacterFailed(character, "semantic_evaluator_failed")

CharacterEvaluated(e) ==
    /\ character.at = "evaluating"
    /\ LET judged == [character EXCEPT !.verdict = CharacterVerdict(e)]
       IN  character' = CASE CharacterVerdict(e) = "hard" -> HardFound(judged)
                          [] CharacterVerdict(e) = "soft" -> SoftFound(judged)
                          [] OTHER -> [judged EXCEPT !.at = "committing"]

\* commit_move answered committed = True.
CharacterCommitted ==
    /\ character.at = "committing"
    /\ character' = [character EXCEPT !.at = "over", !.committed = character.generated]

\* The turn was taken meanwhile: another candidate, without a correction.
CommitFoundTurnTaken ==
    /\ character.at = "committing"
    /\ character' = IF CanGenerate(character) THEN AnotherCandidate(character)
                    ELSE CharacterFailed(character, "anchor_mismatch_exhausted")

CommitRefused ==
    /\ character.at = "committing"
    /\ character' = CharacterFailed(character, "commit_rejected")

\* A call to the host or a write of evidence fails: the error leaves the phase.
CharacterThrows ==
    /\ character.at \in {"inferring", "validating", "evaluating", "committing"}
    /\ character' = [character EXCEPT !.at = "thrown"]

\* The steps before a commit.
CharacterThinks ==
    \/ CharacterInferenceFails
    \/ CharacterProposes
    \/ CharacterRefused
    \/ CharacterValidated
    \/ CharacterEvaluationFails
    \/ \E e \in Evaluations : CharacterEvaluated(e)

-----------------------------------------------------------------------------
(* Properties *)

\* What is sent to be committed was not refused and not judged hard, and was
\* judged soft only after one challenge.
DefensibleMove ==
    (character.at = "committing" \/ character.committed # 0) =>
        /\ character.verdict \notin {"refused", "hard"}
        /\ character.verdict = "soft" => character.softChallengeUsed
        /\ SemanticQaEnabled => character.verdict # "none"

=============================================================================
