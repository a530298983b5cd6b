----------------------------- MODULE SemanticQa -----------------------------
(***************************************************************************)
(* What the role phases of a round share: the bound on the candidates of a *)
(* phase, and how the answer of a semantic evaluator is read.  An answer   *)
(* has an overall result and findings; each role reads it its own way.     *)
(***************************************************************************)
EXTENDS Integers

CONSTANTS
    LiveMaxAttempts,        \* the configured number of attempts
    SemanticQaEnabled,      \* candidates are judged by an evaluator
    RecorderEnabled         \* execution evidence is kept: attempts have ids

ASSUME AttemptsAssumption == LiveMaxAttempts \in Int
ASSUME SwitchesAssumption == SemanticQaEnabled \in BOOLEAN /\ RecorderEnabled \in BOOLEAN

LiveCandidateCeiling == 3

\* clampLiveCandidateLimit: a floor of one, a ceiling of three.
CandidateLimit ==
    IF LiveMaxAttempts < 1 THEN 1
    ELSE IF LiveMaxAttempts > LiveCandidateCeiling THEN LiveCandidateCeiling
    ELSE LiveMaxAttempts

SemanticEvalInfraRetries == 1

\* Candidates are numbered from 1; 0 is no candidate.
Candidates == 1 .. LiveCandidateCeiling

\* A finding: "unsupported" is a hard one whose citation is missing, unknown
\* or not authoritative; what a soft one is about makes no difference.
Finding(severity, dimension) == [severity |-> severity, dimension |-> dimension]

Findings ==
    {Finding("soft", "other"), Finding("hard", "other"), Finding("hard", "player_authorship"),
     Finding("unsupported", "player_authorship")}

Evaluations == [overall : {"pass", "reject_soft", "reject_hard"}, findings : SUBSET Findings]

\* What became of a candidate: not judged, refused by the host, or judged.
Verdicts == {"none", "refused", "clean", "soft", "hard"}

Reads(evaluation, severities) ==
    \E f \in evaluation.findings : f.severity \in severities

VerdictOf(evaluation, isHard) ==
    IF isHard THEN "hard"
    ELSE IF evaluation.overall # "pass" \/ evaluation.findings # {} THEN "soft"
    ELSE "clean"

\* The director's evaluator is hard as soon as it says so.
DirectorVerdict(e) ==
    VerdictOf(e, e.overall = "reject_hard" \/ Reads(e, {"hard", "unsupported"}))

\* The character's: a hard finding without a known citation is downgraded.
CharacterVerdict(e) ==
    VerdictOf(e, e.overall = "reject_hard" \/ Reads(e, {"hard"}))

\* The narrator's: only a hard finding with an authoritative citation is hard.
NarratorVerdict(e) == VerdictOf(e, Reads(e, {"hard"}))

\* A hard finding that the narration speaks for the player.
AuthorshipViolation(e) == Finding("hard", "player_authorship") \in e.findings
=============================================================================
