--------------------------- MODULE DirectorPhase ---------------------------
(***************************************************************************)
(* The director's turn: an inference proposes who speaks next or the end   *)
(* of the round, the host validates the proposal against the eligible      *)
(* characters, an evaluator judges it, and a bounded budget decides        *)
(* between another attempt, a retained earlier candidate and failure.      *)
(***************************************************************************)
EXTENDS SemanticQa

CONSTANTS
    Characters,
    EndRound        \* the decision to end the round

ASSUME EndRoundAssumption == EndRound \notin Characters

VARIABLE director

Decisions == Characters \cup {EndRound}

DirectorStages == {"idle", "inferring", "validating", "evaluating", "over", "thrown"}

DirectorFailures == {"semantic_evaluator_failed", "hard_exhausted", "selection_budget_exhausted"}
DirectorAcceptances ==
    {"accepted", "accepted_with_residual_soft_concerns", "semantic_soft_exhaustion_retained"}

DirectorStates ==
    [at : DirectorStages,
     offered : SUBSET Characters,                   \* the eligibility snapshot
     attemptsUsed : 0 .. LiveCandidateCeiling,
     evaluations : 0 .. SemanticEvalInfraRetries,   \* failed ones of this candidate
     softRegenerationUsed : BOOLEAN,
     retained : {0} \cup Candidates,                \* retentionEligibleCandidate
     proposed : [Candidates -> Decisions],          \* the decision of each attempt
     verdicts : [Candidates -> Verdicts],           \* what was made of it
     chosen : {0} \cup Candidates,                  \* the attempt accepted
     disposition : {"none"} \cup DirectorFailures \cup DirectorAcceptances]

DirectorTypeOK == director \in DirectorStates

Selecting(offered) ==
    [at |-> "inferring", offered |-> offered, attemptsUsed |-> 0, evaluations |-> 0,
     softRegenerationUsed |-> FALSE, retained |-> 0,
     proposed |-> [n \in Candidates |-> EndRound], verdicts |-> [n \in Candidates |-> "none"],
     chosen |-> 0, disposition |-> "none"]

DirectorIdle == [Selecting({}) EXCEPT !.at = "idle"]

DirectorInit == director = DirectorIdle

\* The attempt under way.
Attempt == director.attemptsUsed + 1

-----------------------------------------------------------------------------
(* Ends of an attempt, as functions of the phase's state *)

Concluded(d, n, disposition) ==
    [d EXCEPT !.at = "over", !.chosen = n, !.disposition = disposition]

\* The budget is spent: the retained candidate is accepted if there is one.
DirectorGivesUp(d) ==
    IF d.retained # 0 THEN Concluded(d, d.retained, "semantic_soft_exhaustion_retained")
    ELSE Concluded(d, 0, "selection_budget_exhausted")

\* recordDirectorAttempt, and the loop's condition; of the decisions so far
\* only a retained one is kept.
AnotherAttempt(d) ==
    LET counted == [d EXCEPT !.attemptsUsed = @ + 1, !.evaluations = 0,
                             !.proposed = [n \in Candidates |-> IF n = d.retained THEN @[n]
                                                                ELSE EndRound]] IN
    IF counted.attemptsUsed < CandidateLimit THEN [counted EXCEPT !.at = "inferring"]
    ELSE DirectorGivesUp(counted)

SelectionFailed(d, disposition) ==
    Concluded([d EXCEPT !.attemptsUsed = @ + 1], 0, disposition)

\* clearRetention: the retained candidate goes if it is this attempt's, or if
\* attempts have no evidence id to tell them apart.
RetentionCleared(d) ==
    IF d.retained = Attempt \/ ~RecorderEnabled THEN [d EXCEPT !.retained = 0] ELSE d

Retained(d) == [d EXCEPT !.retained = Attempt, !.softRegenerationUsed = TRUE]

HardRejected(d) ==
    IF d.attemptsUsed < CandidateLimit - 1 THEN AnotherAttempt(RetentionCleared(d))
    ELSE IF d.retained # 0 THEN Concluded(d, d.retained, "semantic_soft_exhaustion_retained")
    ELSE SelectionFailed(d, "hard_exhausted")

SoftRejected(d) ==
    IF ~d.softRegenerationUsed THEN AnotherAttempt(Retained(d))
    ELSE Concluded(d, Attempt, "accepted_with_residual_soft_concerns")

-----------------------------------------------------------------------------
(* Actions *)

\* runDirectorPhase is entered with the characters that may speak.
DirectorEnters(offered) ==
    /\ director.at \in {"idle", "over", "thrown"}
    /\ director' = Selecting(offered)

DirectorInferenceFails ==
    /\ director.at = "inferring"
    /\ director' = AnotherAttempt(director)

DirectorProposes(decision) ==
    /\ director.at = "inferring"
    /\ director' = [director EXCEPT !.at = "validating", !.proposed[Attempt] = decision]

\* The host refuses: unparsable output, a stale snapshot, or somebody who may
\* not speak.
DirectorRefused ==
    /\ director.at = "validating"
    /\ director' = AnotherAttempt([director EXCEPT !.verdicts[Attempt] = "refused"])

ValidDecisions_Any(eligible) == Decisions

\* validate_director_decision, for those eligible on the host at that time.
ValidDecisions(eligible) == eligible \cup {EndRound}

DirectorValidated(eligible) ==
    /\ director.at = "validating"
    /\ director.proposed[Attempt] \in ValidDecisions(eligible)
    /\ director' = IF SemanticQaEnabled THEN [director EXCEPT !.at = "evaluating"]
                   ELSE Concluded(director, Attempt, "accepted")

DirectorEvaluationFails ==
    /\ director.at = "evaluating"
    /\ director' = IF director.evaluations < SemanticEvalInfraRetries
                   THEN [director EXCEPT !.evaluations = @ + 1]
                   ELSE SelectionFailed(director, "semantic_evaluator_failed")

DirectorEvaluated(e) ==
    /\ director.at = "evaluating"
    /\ LET judged == [director EXCEPT !.verdicts[Attempt] = DirectorVerdict(e)]
       IN  director' = CASE DirectorVerdict(e) = "hard" -> HardRejected(judged)
                         [] DirectorVerdict(e) = "soft" -> SoftRejected(judged)
                         [] OTHER -> Concluded(judged, Attempt, "accepted")

\* A call to the host (the evaluator's own context excepted, whose failure is
\* caught) or a write of evidence fails: the error leaves the phase.
DirectorThrows ==
    /\ director.at \in {"inferring", "validating", "evaluating"}
    /\ director' = [director EXCEPT !.at = "thrown"]

\* One step of the phase, the eligible characters being these.
DirectorStep(eligible) ==
    \/ DirectorInferenceFails
    \/ \E decision \in Decisions : DirectorProposes(decision)
    \/ DirectorRefused
    \/ DirectorValidated(eligible)
    \/ DirectorEvaluationFails
    \/ \E e \in Evaluations : DirectorEvaluated(e)

-----------------------------------------------------------------------------
(* Results and properties *)

DirectorAccepted == director.at = "over" /\ director.chosen # 0
DirectorDecision == director.proposed[director.chosen]

\* The decision handed to the round passed the host, was not judged hard, and
\* was judged soft only if another candidate was tried after it or before it.
DefensibleChoice ==
    DirectorAccepted =>
        /\ director.verdicts[director.chosen] \notin {"refused", "hard"}
        /\ director.verdicts[director.chosen] = "soft" => director.softRegenerationUsed

=============================================================================
