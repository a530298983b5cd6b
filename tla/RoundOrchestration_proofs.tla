----------------------- MODULE RoundOrchestration_proofs -----------------------
(***************************************************************************)
(* What a round keeps, for any characters, scenes, number of rounds,       *)
(* budget of attempts and faults: what a phase hands on was judged as the  *)
(* phase promises, a speaker may speak and speaks once, and the            *)
(* orchestrator accounts for what the host committed whenever it asks who  *)
(* is next, with the lanes of every turn of the round behind it.           *)
(***************************************************************************)
EXTENDS RoundOrchestration, FiniteSetTheorems, TLAPS

-----------------------------------------------------------------------------
(* The phases *)

Deciding == {"inferring", "validating", "evaluating"}

\* The director's phase: attempts under way are within the budget and not judged
\* yet; the retained candidate and the chosen one were judged to be defensible, and
\* what may still be chosen is among "good".
SoundSelection(d, good) ==
    /\ d \in DirectorStates
    /\ d.at \in Deciding =>
          /\ d.attemptsUsed < CandidateLimit
          /\ \A n \in Candidates : n > d.attemptsUsed => d.verdicts[n] = "none"
    /\ d.at = "evaluating" => d.proposed[d.attemptsUsed + 1] \in good
    /\ d.retained # 0 =>
          /\ d.retained <= d.attemptsUsed
          /\ d.verdicts[d.retained] = "soft" /\ d.softRegenerationUsed
          /\ d.proposed[d.retained] \in good
    /\ d.at = "over" /\ d.chosen # 0 =>
          /\ d.verdicts[d.chosen] \notin {"refused", "hard"}
          /\ d.verdicts[d.chosen] = "soft" => d.softRegenerationUsed
          /\ d.proposed[d.chosen] \in good

\* The character's: a candidate that is not judged yet has no verdict, one that is
\* to be committed has a defensible one.
SoundMove(c) ==
    /\ c \in CharacterStates
    /\ c.at = "inferring" => c.generated < CandidateLimit
    /\ c.at \in {"validating", "evaluating", "committing"} => c.generated >= 1
    /\ c.at \in Deciding => c.verdict = "none"
    /\ c.at = "evaluating" => SemanticQaEnabled
    /\ c.committed # 0 => c.at = "over"
    /\ c.at = "committing" \/ c.committed # 0 =>
          /\ c.verdict \notin {"refused", "hard"}
          /\ c.verdict = "soft" => c.softChallengeUsed
          /\ SemanticQaEnabled => c.verdict # "none"

\* The narrator's: an obligation is only there where narrations are judged, and a
\* narration is shown only at the end.
SoundNarration(n) ==
    /\ n \in NarratorStates
    /\ n.at # "over" => ~n.presented
    /\ n.at \in {"preparing", "inferring", "validating", "evaluating"} => n.verdict = "none"
    /\ n.obligation \/ n.at = "evaluating" => SemanticQaEnabled
    /\ n.presented =>
          /\ n.obligation => n.verdict = "clean"
          /\ n.verdict \notin {"refused", "hard"}
          /\ n.verdict = "soft" => ~AttemptsRemain(n)

-----------------------------------------------------------------------------
(* The round *)

Joining == {"joiningNarrator", "joiningLibrarian", "joiningPlot"}

Entries(turns) == {turns[i] : i \in DOMAIN turns}

\* The orchestrator accounts for what the host committed in the round, but for the
\* commit c that it has not taken up (0 for none).
Accounts(used, c) ==
    /\ host.used = used
    /\ Entries(node.turns) = CommitsOf(node.number) \ {c}
    /\ InOrder(node.turns)

AccountInv ==
    /\ node.at \in {"starting", "choosing", "participating", "directing", "completing"} =>
          Accounts(node.used, 0)
    /\ node.at = "acting" /\ character.committed = 0 /\ character.at # "thrown" =>
          Accounts(node.used, 0)
    /\ node.at = "acting" /\ character.committed # 0 =>
          /\ Accounts(node.used \cup {node.speaker}, Len(host.commits))
          /\ Len(host.commits) \in CommitsOf(node.number)
    /\ node.at \in Joining =>
          /\ Accounts(node.used, node.commit)
          /\ node.commit = Len(host.commits) /\ node.commit \in CommitsOf(node.number)

\* Who speaks has not spoken in this round, and may speak unless another client
\* took a turn meanwhile.
Silent == (Characters \ host.used) \cup {EndRound}

SpeakerInv ==
    /\ "anchor" \in node.overtaken => "eligibility" \in node.overtaken
    /\ node.at = "directing" =>
          /\ SoundSelection(director, Silent)
          /\ node.overtaken = {} => SoundSelection(director, Eligible \cup {EndRound})
    /\ node.at = "acting" => node.speaker \in Characters
    /\ node.at = "acting" /\ character.committed = 0 /\ character.at # "thrown" =>
          /\ node.speaker \notin host.used
          /\ node.overtaken = {} => node.speaker \in Eligible
    /\ \A c \in CommitsOf(node.number) :
          node.at \notin {"released", "exited"} => host.commits[c].actor \in host.used

\* A lane that runs is one of the turn that is being joined, or was left behind by
\* an earlier round or by this one when it threw.
LaneInv ==
    /\ \A c \in LanesRunning :
          /\ c \in DOMAIN host.commits
          /\ c \in CommitsOf(node.number) =>
                node.at \in {"released", "exited"} \/ (node.at \in Joining /\ c = node.commit)
    /\ node.at = "joiningPlot" /\ node.commit \in Commits =>
          librarianLane[node.commit].at = "settled"

StateInv ==
    /\ node \in NodeStates /\ host \in HostStates /\ presented \in Seq(Nat) /\ LanesTypeOK
    /\ node.at \notin {"released", "exited"} => node.number >= 1
    /\ \A c \in DOMAIN host.commits : host.commits[c].round <= node.number

PhaseInv ==
    SoundSelection(director, Decisions) /\ SoundMove(character) /\ SoundNarration(narrator)

RoundInv ==
    /\ StateInv /\ PhaseInv
    /\ NobodySpeaksTwice
    /\ AccountInv
    /\ SpeakerInv
    /\ LaneInv

-----------------------------------------------------------------------------
(* The director's phase keeps its promise *)

LEMMA Budget == CandidateLimit \in 1 .. LiveCandidateCeiling
BY AttemptsAssumption DEF CandidateLimit, LiveCandidateCeiling

\* An attempt under way whose verdict was noted.
Noted(d, good) ==
    /\ d \in DirectorStates
    /\ d.attemptsUsed < CandidateLimit
    /\ \A n \in Candidates : n > d.attemptsUsed + 1 => d.verdicts[n] = "none"
    /\ d.retained # 0 =>
          /\ d.retained <= d.attemptsUsed + 1
          /\ d.verdicts[d.retained] = "soft" /\ d.softRegenerationUsed
          /\ d.proposed[d.retained] \in good

\* Concluding with a candidate that is defensible and good is sound.
LEMMA ConcludedIsSound ==
    ASSUME NEW good, NEW d \in DirectorStates, NEW n \in {0} \cup Candidates,
           NEW disposition \in {"none"} \cup DirectorFailures \cup DirectorAcceptances,
           d.retained # 0 =>
              /\ d.retained <= d.attemptsUsed
              /\ d.verdicts[d.retained] = "soft" /\ d.softRegenerationUsed
              /\ d.proposed[d.retained] \in good,
           n # 0 =>
              /\ d.verdicts[n] \notin {"refused", "hard"}
              /\ d.verdicts[n] = "soft" => d.softRegenerationUsed
              /\ d.proposed[n] \in good
    PROVE  SoundSelection(Concluded(d, n, disposition), good)
<1> DEFINE r == Concluded(d, n, disposition)
<1>1. /\ r \in DirectorStates /\ r.at = "over" /\ r.chosen = n
      /\ r.attemptsUsed = d.attemptsUsed /\ r.retained = d.retained /\ r.verdicts = d.verdicts
      /\ r.softRegenerationUsed = d.softRegenerationUsed /\ r.proposed = d.proposed
  BY DEF Concluded, DirectorStates, DirectorStages
<1> HIDE DEF r
<1>2. SoundSelection(r, good)
  BY <1>1 DEF SoundSelection, Deciding
<1>3. QED
  BY <1>2 DEF r

LEMMA AnotherIsSound ==
    ASSUME NEW good, NEW d, Noted(d, good)
    PROVE  SoundSelection(AnotherAttempt(d), good)
<1> DEFINE kept == [n \in Candidates |-> IF n = d.retained THEN d.proposed[n] ELSE EndRound]
           r == [d EXCEPT !.attemptsUsed = @ + 1, !.evaluations = 0, !.proposed = kept]
           again == [r EXCEPT !.at = "inferring"]
<1>1. d \in DirectorStates /\ d.attemptsUsed \in 0 .. LiveCandidateCeiling
  BY DEF Noted, DirectorStates
<1>2. CandidateLimit \in 1 .. LiveCandidateCeiling /\ LiveCandidateCeiling = 3
  BY Budget DEF LiveCandidateCeiling
<1>3. d.attemptsUsed + 1 \in 0 .. LiveCandidateCeiling /\ d.attemptsUsed + 1 <= CandidateLimit
  BY <1>1, <1>2 DEF Noted
<1>4. kept \in [Candidates -> Decisions]
  BY <1>1 DEF DirectorStates, Decisions
<1>5. d.retained # 0 => kept[d.retained] = d.proposed[d.retained]
  BY <1>1 DEF DirectorStates
<1> HIDE DEF kept
<1>6. /\ r \in DirectorStates /\ r.attemptsUsed = d.attemptsUsed + 1
      /\ r.retained = d.retained /\ r.verdicts = d.verdicts /\ r.proposed = kept
      /\ r.softRegenerationUsed = d.softRegenerationUsed
  <2> DEFINE used == d.attemptsUsed + 1
  <2>1. r = [d EXCEPT !.attemptsUsed = used, !.evaluations = 0, !.proposed = kept]
    BY <1>1 DEF DirectorStates
  <2>2. used \in 0 .. LiveCandidateCeiling /\ 0 \in 0 .. SemanticEvalInfraRetries
    BY <1>3 DEF SemanticEvalInfraRetries
  <2> HIDE DEF used, r
  <2>3. QED
    BY <1>1, <1>4, <2>1, <2>2 DEF DirectorStates, used
<1> HIDE DEF r
<1>7. d.retained # 0 =>
         /\ r.retained <= r.attemptsUsed
         /\ r.verdicts[r.retained] = "soft" /\ r.softRegenerationUsed
         /\ r.proposed[r.retained] \in good
  BY <1>5, <1>6 DEF Noted
<1>8. AnotherAttempt(d) = IF r.attemptsUsed < CandidateLimit THEN again ELSE DirectorGivesUp(r)
  BY DEF AnotherAttempt, r, kept
<1>9. CASE r.attemptsUsed < CandidateLimit
  <2>1. /\ again \in DirectorStates /\ again.at = "inferring"
        /\ again.attemptsUsed = r.attemptsUsed /\ again.retained = r.retained
        /\ again.verdicts = r.verdicts /\ again.proposed = r.proposed
        /\ again.softRegenerationUsed = r.softRegenerationUsed
    BY <1>6 DEF DirectorStates, DirectorStages
  <2> HIDE DEF again
  <2>2. \A n \in Candidates : n > again.attemptsUsed => again.verdicts[n] = "none"
    BY <1>6, <2>1 DEF Noted
  <2>3. SoundSelection(again, good)
    BY <1>6, <1>7, <1>9, <2>1, <2>2 DEF SoundSelection, Deciding
  <2>4. QED
    BY <1>8, <1>9, <2>3
<1>10. CASE ~(r.attemptsUsed < CandidateLimit)
  <2>1. r.retained \in {0} \cup Candidates
    BY <1>6 DEF DirectorStates
  <2>2. /\ "semantic_soft_exhaustion_retained" \in DirectorAcceptances
        /\ "selection_budget_exhausted" \in DirectorFailures
    BY DEF DirectorAcceptances, DirectorFailures
  <2>3. SoundSelection(DirectorGivesUp(r), good)
    <3>1. CASE r.retained # 0
      <4>1. SoundSelection(Concluded(r, r.retained, "semantic_soft_exhaustion_retained"), good)
        BY <1>6, <1>7, <2>1, <2>2, <3>1, ConcludedIsSound
      <4>2. QED
        BY <3>1, <4>1 DEF DirectorGivesUp
    <3>2. CASE r.retained = 0
      <4>1. SoundSelection(Concluded(r, 0, "selection_budget_exhausted"), good)
        BY <1>6, <2>2, <3>2, ConcludedIsSound
      <4>2. QED
        BY <3>2, <4>1 DEF DirectorGivesUp
    <3>3. QED
      BY <3>1, <3>2
  <2>4. QED
    BY <1>8, <1>10, <2>3
<1>11. QED
  BY <1>9, <1>10

\* A selection that fails is sound whatever was tried.
LEMMA FailedIsSound ==
    ASSUME NEW good, NEW d, Noted(d, good), NEW disposition \in DirectorFailures
    PROVE  SoundSelection(SelectionFailed(d, disposition), good)
<1> DEFINE r == [d EXCEPT !.attemptsUsed = @ + 1]
<1>1. d \in DirectorStates /\ d.attemptsUsed \in 0 .. LiveCandidateCeiling
  BY DEF Noted, DirectorStates
<1>2. d.attemptsUsed + 1 \in 0 .. LiveCandidateCeiling
  BY <1>1, Budget DEF Noted, LiveCandidateCeiling
<1>3. /\ r \in DirectorStates /\ r.attemptsUsed = d.attemptsUsed + 1
      /\ r.retained = d.retained /\ r.verdicts = d.verdicts /\ r.proposed = d.proposed
      /\ r.softRegenerationUsed = d.softRegenerationUsed
  BY <1>1, <1>2 DEF DirectorStates
<1> HIDE DEF r
<1>4. SoundSelection(Concluded(r, 0, disposition), good)
  BY <1>3, ConcludedIsSound DEF Noted
<1>5. QED
  BY <1>4 DEF SelectionFailed, r
\* An attempt with its verdict is noted: of this attempt, whatever the verdict is.
LEMMA VerdictNoted ==
    ASSUME NEW good, SoundSelection(director, good), director.at \in Deciding,
           NEW verdict \in Verdicts
    PROVE  /\ Noted([director EXCEPT !.verdicts[Attempt] = verdict], good)
           /\ [director EXCEPT !.verdicts[Attempt] = verdict].verdicts[Attempt] = verdict
           /\ Attempt \in Candidates
<1> DEFINE vs == [director.verdicts EXCEPT ![Attempt] = verdict]
           r == [director EXCEPT !.verdicts = vs]
<1>1. /\ director \in DirectorStates /\ director.attemptsUsed < CandidateLimit
      /\ director.attemptsUsed \in 0 .. LiveCandidateCeiling
      /\ director.retained \in {0} \cup Candidates
  BY DEF SoundSelection, DirectorStates
<1>2. Attempt \in Candidates /\ Attempt = director.attemptsUsed + 1
  BY <1>1, Budget DEF Attempt, Candidates, LiveCandidateCeiling
<1>3. director.verdicts \in [Candidates -> Verdicts]
  BY <1>1 DEF DirectorStates
<1>4. vs \in [Candidates -> Verdicts] /\ vs[Attempt] = verdict
  BY <1>2, <1>3
<1>5. \A n \in Candidates : n # Attempt => vs[n] = director.verdicts[n]
  BY <1>2, <1>3
<1>6. [director EXCEPT !.verdicts[Attempt] = verdict] = r
  BY <1>1, <1>2 DEF DirectorStates
<1> HIDE DEF vs
<1>7. /\ r \in DirectorStates /\ r.verdicts = vs /\ r.attemptsUsed = director.attemptsUsed
      /\ r.retained = director.retained /\ r.proposed = director.proposed
      /\ r.softRegenerationUsed = director.softRegenerationUsed
  BY <1>1, <1>4 DEF DirectorStates
<1> HIDE DEF r
<1>8. director.retained # 0 =>
         /\ director.retained \in Candidates /\ director.retained <= director.attemptsUsed
         /\ director.verdicts[director.retained] = "soft" /\ director.softRegenerationUsed
         /\ director.proposed[director.retained] \in good
  BY <1>1 DEF SoundSelection
<1>9. director.retained # 0 => vs[director.retained] = director.verdicts[director.retained]
  BY <1>1, <1>2, <1>5, <1>8 DEF Candidates
<1>10. \A n \in Candidates : n > director.attemptsUsed + 1 => vs[n] = "none"
  BY <1>1, <1>2, <1>5 DEF SoundSelection, Candidates
<1>11. Noted(r, good)
  BY <1>1, <1>7, <1>8, <1>9, <1>10 DEF Noted, Candidates
<1>12. QED
  BY <1>2, <1>4, <1>6, <1>7, <1>11

\* An attempt that was not judged is noted as it is.
LEMMA UnjudgedNoted ==
    ASSUME NEW good, SoundSelection(director, good), director.at \in Deciding
    PROVE  Noted(director, good) /\ Attempt \in Candidates
<1>1. /\ director \in DirectorStates /\ director.attemptsUsed \in 0 .. LiveCandidateCeiling
      /\ director.retained \in {0} \cup Candidates
  BY DEF SoundSelection, DirectorStates
<1>2. Attempt \in Candidates
  BY <1>1, Budget DEF SoundSelection, Attempt, Candidates, LiveCandidateCeiling
<1>3. QED
  BY <1>1, <1>2 DEF SoundSelection, Noted, Candidates

\* Each answer of the evaluator to a proposal that may be chosen.
LEMMA EvaluatedIsSound ==
    ASSUME NEW good, SoundSelection(director, good), NEW e \in Evaluations, DirectorEvaluated(e)
    PROVE  SoundSelection(director', good)
<1> DEFINE verdict == DirectorVerdict(e)
           r == [director EXCEPT !.verdicts[Attempt] = verdict]
<1>1. director.at = "evaluating" /\ director.at \in Deciding
  BY DEF DirectorEvaluated, Deciding
<1>2. verdict \in {"hard", "soft", "clean"}
  BY DEF DirectorVerdict, VerdictOf
<1>3. verdict \in Verdicts
  BY <1>2 DEF Verdicts
<1>4. director' = CASE verdict = "hard" -> HardRejected(r)
                    [] verdict = "soft" -> SoftRejected(r)
                    [] OTHER -> Concluded(r, Attempt, "accepted")
  BY DEF DirectorEvaluated
<1> HIDE DEF verdict
<1>5. Noted(r, good) /\ r.verdicts[Attempt] = verdict /\ Attempt \in Candidates
  BY <1>1, <1>3, VerdictNoted
<1>6. /\ r.attemptsUsed = director.attemptsUsed /\ r.retained = director.retained
      /\ r.proposed = director.proposed /\ r \in DirectorStates
      /\ r.softRegenerationUsed = director.softRegenerationUsed
  BY <1>5 DEF Noted, SoundSelection, DirectorStates
<1> HIDE DEF r
<1>7. /\ director \in DirectorStates /\ director.attemptsUsed \in 0 .. LiveCandidateCeiling
      /\ director.attemptsUsed < CandidateLimit
      /\ CandidateLimit \in 1 .. LiveCandidateCeiling
  BY <1>1, Budget DEF SoundSelection, DirectorStates
<1>8. Attempt = r.attemptsUsed + 1 /\ r.proposed[Attempt] \in good
  BY <1>1, <1>6 DEF SoundSelection, Attempt
<1>9. r.retained # 0 => r.retained <= r.attemptsUsed
  BY <1>6 DEF SoundSelection
<1>10. /\ {"accepted", "accepted_with_residual_soft_concerns",
           "semantic_soft_exhaustion_retained"} \subseteq DirectorAcceptances
       /\ "hard_exhausted" \in DirectorFailures
  BY DEF DirectorAcceptances, DirectorFailures
<1>11. CASE verdict = "hard"
  <2>1. director' = HardRejected(r)
    BY <1>4, <1>11
  <2>2. CASE r.attemptsUsed < CandidateLimit - 1
    <3>1. Noted(RetentionCleared(r), good)
      <4>1. CASE RetentionCleared(r) = r
        BY <1>5, <4>1
      <4>2. CASE RetentionCleared(r) = [r EXCEPT !.retained = 0]
        <5> DEFINE q == [r EXCEPT !.retained = 0]
        <5>1. /\ q \in DirectorStates /\ q.retained = 0 /\ q.attemptsUsed = r.attemptsUsed
              /\ q.verdicts = r.verdicts
          BY <1>6 DEF DirectorStates
        <5> HIDE DEF q
        <5>2. Noted(q, good)
          BY <1>5, <5>1 DEF Noted
        <5>3. QED
          BY <4>2, <5>2 DEF q
      <4>3. QED
        BY <4>1, <4>2 DEF RetentionCleared
    <3>2. QED
      BY <2>1, <2>2, <3>1, AnotherIsSound DEF HardRejected
  <2>3. CASE ~(r.attemptsUsed < CandidateLimit - 1) /\ r.retained # 0
    <3>1. director' = Concluded(r, r.retained, "semantic_soft_exhaustion_retained")
      BY <2>1, <2>3 DEF HardRejected
    <3>2. r.retained \in Candidates
      BY <1>6, <2>3 DEF DirectorStates
    <3>3. /\ r.verdicts[r.retained] = "soft" /\ r.softRegenerationUsed
          /\ r.proposed[r.retained] \in good
      BY <1>5, <2>3 DEF Noted
    <3>4. QED
      BY <1>6, <1>9, <1>10, <2>3, <3>1, <3>2, <3>3, ConcludedIsSound
  <2>4. CASE ~(r.attemptsUsed < CandidateLimit - 1) /\ r.retained = 0
    BY <1>5, <1>10, <2>1, <2>4, FailedIsSound DEF HardRejected
  <2>5. QED
    BY <2>2, <2>3, <2>4
<1>12. CASE verdict = "soft"
  <2>1. director' = SoftRejected(r)
    BY <1>4, <1>12
  <2>2. CASE ~r.softRegenerationUsed
    <3> DEFINE q == [r EXCEPT !.retained = Attempt, !.softRegenerationUsed = TRUE]
    <3>1. /\ q \in DirectorStates /\ q.retained = Attempt /\ q.attemptsUsed = r.attemptsUsed
          /\ q.verdicts = r.verdicts /\ q.proposed = r.proposed /\ q.softRegenerationUsed
      BY <1>5, <1>6 DEF DirectorStates
    <3> HIDE DEF q
    <3>2. Noted(q, good)
      BY <1>5, <1>7, <1>8, <1>12, <3>1, <1>6 DEF Noted
    <3>3. QED
      BY <2>1, <2>2, <3>2, AnotherIsSound DEF SoftRejected, Retained, q
  <2>3. CASE r.softRegenerationUsed
    <3>1. director' = Concluded(r, Attempt, "accepted_with_residual_soft_concerns")
      BY <2>1, <2>3 DEF SoftRejected
    <3>2. r.retained # 0 => r.verdicts[r.retained] = "soft" /\ r.proposed[r.retained] \in good
      BY <1>5 DEF Noted
    <3>3. QED
      BY <1>5, <1>6, <1>8, <1>9, <1>10, <1>12, <2>3, <3>1, <3>2, ConcludedIsSound
  <2>4. QED
    BY <2>2, <2>3
<1>13. CASE verdict = "clean"
  <2>1. director' = Concluded(r, Attempt, "accepted")
    BY <1>4, <1>13
  <2>2. r.retained # 0 =>
           /\ r.verdicts[r.retained] = "soft" /\ r.softRegenerationUsed
           /\ r.proposed[r.retained] \in good
    BY <1>5 DEF Noted
  <2>3. QED
    BY <1>5, <1>6, <1>8, <1>9, <1>10, <1>13, <2>1, <2>2, ConcludedIsSound
<1>14. QED
  BY <1>2, <1>11, <1>12, <1>13

\* A step of the director's phase, what is eligible being good: what is retained and
\* what is chosen was found eligible when it was proposed.
LEMMA SelectionStep ==
    ASSUME NEW good, NEW eligible, eligible \subseteq good, EndRound \in good,
           SoundSelection(director, good), DirectorStep(eligible)
    PROVE  SoundSelection(director', good)
<1>1. /\ director \in DirectorStates /\ director.attemptsUsed \in 0 .. LiveCandidateCeiling
      /\ CandidateLimit \in 1 .. LiveCandidateCeiling
  BY Budget DEF SoundSelection, DirectorStates
<1>2. director.retained # 0 =>
         /\ director.retained <= director.attemptsUsed
         /\ director.verdicts[director.retained] = "soft" /\ director.softRegenerationUsed
         /\ director.proposed[director.retained] \in good
  BY DEF SoundSelection
<1>3. CASE DirectorInferenceFails
  <2>1. director' = AnotherAttempt(director) /\ director.at \in Deciding
    BY <1>3 DEF DirectorInferenceFails, Deciding
  <2>2. QED
    BY <2>1, UnjudgedNoted, AnotherIsSound
<1>4. ASSUME NEW decision \in Decisions, DirectorProposes(decision)
      PROVE  SoundSelection(director', good)
  <2> DEFINE ps == [director.proposed EXCEPT ![Attempt] = decision]
             r == [director EXCEPT !.at = "validating", !.proposed = ps]
  <2>1. director.at = "inferring" /\ director.at \in Deciding
    BY <1>4 DEF DirectorProposes, Deciding
  <2>2. Attempt \in Candidates /\ Attempt = director.attemptsUsed + 1
    BY <2>1, UnjudgedNoted DEF Attempt
  <2>3. director.proposed \in [Candidates -> Decisions]
    BY <1>1 DEF DirectorStates
  <2>4. ps \in [Candidates -> Decisions]
    BY <1>4, <2>2, <2>3
  <2>5. director.retained # 0 => ps[director.retained] = director.proposed[director.retained]
    BY <1>1, <1>2, <2>2, <2>3 DEF DirectorStates, Candidates, LiveCandidateCeiling
  <2>6. director' = r
    BY <1>1, <1>4 DEF DirectorProposes, DirectorStates
  <2> HIDE DEF ps
  <2>7. /\ r \in DirectorStates /\ r.at = "validating" /\ r.proposed = ps
        /\ r.attemptsUsed = director.attemptsUsed /\ r.retained = director.retained
        /\ r.verdicts = director.verdicts
        /\ r.softRegenerationUsed = director.softRegenerationUsed
    BY <1>1, <2>4 DEF DirectorStates, DirectorStages
  <2> HIDE DEF r
  <2>8. SoundSelection(r, good)
    BY <1>2, <2>1, <2>5, <2>7 DEF SoundSelection
  <2>9. QED
    BY <2>6, <2>8
<1>5. CASE DirectorRefused
  <2>1. director.at \in Deciding /\ "refused" \in Verdicts
    BY <1>5 DEF DirectorRefused, Deciding, Verdicts
  <2>2. Noted([director EXCEPT !.verdicts[Attempt] = "refused"], good)
    BY <2>1, VerdictNoted
  <2>3. QED
    BY <1>5, <2>2, AnotherIsSound DEF DirectorRefused
<1>6. CASE DirectorValidated(eligible)
  <2>1. director.at = "validating" /\ director.at \in Deciding
    BY <1>6 DEF DirectorValidated, Deciding
  <2>2. director.proposed[Attempt] \in good
    BY <1>6 DEF DirectorValidated, ValidDecisions
  <2>3. Attempt \in Candidates /\ Attempt = director.attemptsUsed + 1
    BY <2>1, UnjudgedNoted DEF Attempt
  <2>4. CASE SemanticQaEnabled
    <3> DEFINE r == [director EXCEPT !.at = "evaluating"]
    <3>1. director' = r
      BY <1>6, <2>4 DEF DirectorValidated
    <3>2. /\ r \in DirectorStates /\ r.at = "evaluating" /\ r.proposed = director.proposed
          /\ r.attemptsUsed = director.attemptsUsed /\ r.retained = director.retained
          /\ r.verdicts = director.verdicts
          /\ r.softRegenerationUsed = director.softRegenerationUsed
      BY <1>1 DEF DirectorStates, DirectorStages
    <3> HIDE DEF r
    <3>3. SoundSelection(r, good)
      BY <1>2, <2>1, <2>2, <2>3, <3>2 DEF SoundSelection
    <3>4. QED
      BY <3>1, <3>3
  <2>5. CASE ~SemanticQaEnabled
    <3>1. director' = Concluded(director, Attempt, "accepted")
      BY <1>6, <2>5 DEF DirectorValidated
    <3>2. director.verdicts[Attempt] = "none"
      BY <1>1, <2>1, <2>3 DEF SoundSelection
    <3>3. "accepted" \in DirectorAcceptances
      BY DEF DirectorAcceptances
    <3>4. QED
      BY <1>1, <1>2, <2>2, <2>3, <3>1, <3>2, <3>3, ConcludedIsSound
  <2>6. QED
    BY <2>4, <2>5
<1>7. CASE DirectorEvaluationFails
  <2>1. director.at = "evaluating" /\ director.at \in Deciding
    BY <1>7 DEF DirectorEvaluationFails, Deciding
  <2>2. CASE director.evaluations < SemanticEvalInfraRetries
    <3> DEFINE failed == director.evaluations + 1
               r == [director EXCEPT !.evaluations = failed]
    <3>1. director' = r
      BY <1>1, <1>7, <2>2 DEF DirectorEvaluationFails, DirectorStates
    <3>2. failed \in 0 .. SemanticEvalInfraRetries
      BY <1>1, <2>2 DEF DirectorStates, SemanticEvalInfraRetries
    <3> HIDE DEF failed
    <3>3. /\ r \in DirectorStates /\ r.at = director.at /\ r.proposed = director.proposed
          /\ r.attemptsUsed = director.attemptsUsed /\ r.retained = director.retained
          /\ r.verdicts = director.verdicts
          /\ r.softRegenerationUsed = director.softRegenerationUsed
      BY <1>1, <3>2 DEF DirectorStates
    <3> HIDE DEF r
    <3>4. SoundSelection(r, good)
      BY <1>2, <2>1, <3>3 DEF SoundSelection
    <3>5. QED
      BY <3>1, <3>4
  <2>3. CASE ~(director.evaluations < SemanticEvalInfraRetries)
    <3>1. "semantic_evaluator_failed" \in DirectorFailures
      BY DEF DirectorFailures
    <3>2. QED
      BY <1>7, <2>1, <2>3, <3>1, UnjudgedNoted, FailedIsSound DEF DirectorEvaluationFails
  <2>4. QED
    BY <2>2, <2>3
<1>8. ASSUME NEW e \in Evaluations, DirectorEvaluated(e)
      PROVE  SoundSelection(director', good)
  BY <1>8, EvaluatedIsSound
<1>9. QED
  BY <1>3, <1>4, <1>5, <1>6, <1>7, <1>8 DEF DirectorStep

\* The phase throws, or is entered or left: nothing is chosen.
LEMMA SelectionThrows ==
    ASSUME NEW good, SoundSelection(director, good), DirectorThrows
    PROVE  SoundSelection(director', good)
<1> DEFINE r == [director EXCEPT !.at = "thrown"]
<1>1. director \in DirectorStates /\ director' = r
  BY DEF SoundSelection, DirectorThrows
<1>2. /\ r \in DirectorStates /\ r.at = "thrown" /\ r.proposed = director.proposed
      /\ r.attemptsUsed = director.attemptsUsed /\ r.retained = director.retained
      /\ r.verdicts = director.verdicts
      /\ r.softRegenerationUsed = director.softRegenerationUsed
  BY <1>1 DEF DirectorStates, DirectorStages
<1> HIDE DEF r
<1>3. SoundSelection(r, good)
  BY <1>2 DEF SoundSelection, Deciding
<1>4. QED
  BY <1>1, <1>3

LEMMA SelectionStarts ==
    ASSUME NEW good, NEW offered \in SUBSET Characters
    PROVE  SoundSelection(Selecting(offered), good) /\ SoundSelection(DirectorIdle, good)
<1>1. EndRound \in Decisions /\ "none" \in Verdicts
  BY DEF Decisions, Verdicts
<1>2. CandidateLimit \in 1 .. LiveCandidateCeiling /\ LiveCandidateCeiling = 3
  BY Budget DEF LiveCandidateCeiling
<1>3. \A some \in SUBSET Characters :
         /\ Selecting(some) \in DirectorStates /\ Selecting(some).at = "inferring"
         /\ Selecting(some).attemptsUsed = 0 /\ Selecting(some).retained = 0
         /\ \A n \in Candidates : Selecting(some).verdicts[n] = "none"
  BY <1>1, <1>2 DEF Selecting, DirectorStates, DirectorStages, SemanticEvalInfraRetries
<1> DEFINE s == Selecting(offered)
           n == Selecting({})
           i == [n EXCEPT !.at = "idle"]
<1>4. SoundSelection(s, good)
  <2>1. /\ s \in DirectorStates /\ s.at = "inferring" /\ s.attemptsUsed = 0 /\ s.retained = 0
        /\ \A k \in Candidates : s.verdicts[k] = "none"
    BY <1>3
  <2> HIDE DEF s
  <2>2. QED
    BY <1>2, <2>1 DEF SoundSelection, Deciding
<1>5. SoundSelection(i, good)
  <2>1. n \in DirectorStates /\ n.retained = 0
    BY <1>3
  <2> HIDE DEF n
  <2>2. i \in DirectorStates /\ i.at = "idle" /\ i.retained = 0
    BY <2>1 DEF DirectorStates, DirectorStages
  <2> HIDE DEF i
  <2>3. QED
    BY <2>2 DEF SoundSelection, Deciding
<1>6. QED
  BY <1>4, <1>5 DEF DirectorIdle
-----------------------------------------------------------------------------
(* The character's phase keeps its promise *)

LEMMA FailedMoveIsSound ==
    ASSUME NEW c \in CharacterStates, c.committed = 0, NEW disposition \in CharacterFailures
    PROVE  /\ SoundMove(CharacterFailed(c, disposition))
           /\ CharacterFailed(c, disposition).committed = 0
<1> DEFINE r == [c EXCEPT !.at = "over", !.disposition = disposition]
<1>1. r \in CharacterStates /\ r.at = "over" /\ r.committed = 0
  BY DEF CharacterStates, CharacterStages
<1> HIDE DEF r
<1>2. SoundMove(r)
  BY <1>1 DEF SoundMove, Deciding
<1>3. QED
  BY <1>1, <1>2 DEF CharacterFailed, r

LEMMA AnotherMoveIsSound ==
    ASSUME NEW c \in CharacterStates, c.committed = 0
    PROVE  SoundMove(AnotherCandidate(c)) /\ AnotherCandidate(c).committed = 0
<1>1. CASE CanGenerate(c)
  <2> DEFINE r == [c EXCEPT !.at = "inferring", !.inferences = 0, !.evaluations = 0,
                            !.verdict = "none"]
  <2>1. /\ r \in CharacterStates /\ r.at = "inferring" /\ r.committed = 0
        /\ r.verdict = "none" /\ r.generated = c.generated
    <3>1. /\ 0 \in 0 .. CharInfraRetries /\ 0 \in 0 .. SemanticEvalInfraRetries
          /\ "none" \in Verdicts /\ "inferring" \in CharacterStages
      BY DEF CharInfraRetries, SemanticEvalInfraRetries, Verdicts, CharacterStages
    <3>2. QED
      BY <3>1 DEF CharacterStates
  <2> HIDE DEF r
  <2>2. SoundMove(r)
    BY <1>1, <2>1 DEF SoundMove, Deciding, CanGenerate
  <2>3. QED
    BY <1>1, <2>1, <2>2 DEF AnotherCandidate, r
<1>2. CASE ~CanGenerate(c)
  <2>1. "candidate_budget_exhausted" \in CharacterFailures
    BY DEF CharacterFailures
  <2>2. QED
    BY <1>2, <2>1, FailedMoveIsSound DEF AnotherCandidate
<1>3. QED
  BY <1>1, <1>2

\* A candidate that was judged, and what the phase makes of it.
LEMMA JudgedMoveIsSound ==
    ASSUME SoundMove(character), NEW e \in Evaluations, CharacterEvaluated(e)
    PROVE  SoundMove(character') /\ character'.committed = 0
<1> DEFINE verdict == CharacterVerdict(e)
           r == [character EXCEPT !.verdict = verdict]
<1>1. /\ character \in CharacterStates /\ character.at = "evaluating"
      /\ character.committed = 0 /\ character.generated >= 1
  BY DEF SoundMove, CharacterEvaluated
<1>2. verdict \in {"hard", "soft", "clean"}
  BY DEF CharacterVerdict, VerdictOf
<1>3. character' = CASE verdict = "hard" -> HardFound(r)
                     [] verdict = "soft" -> SoftFound(r)
                     [] OTHER -> [r EXCEPT !.at = "committing"]
  BY DEF CharacterEvaluated
<1> HIDE DEF verdict
<1>4. verdict \in Verdicts
  BY <1>2 DEF Verdicts
<1>5. /\ r \in CharacterStates /\ r.verdict = verdict /\ r.committed = 0
      /\ r.generated >= 1
  BY <1>1, <1>4 DEF CharacterStates
<1> HIDE DEF r
<1> DEFINE q == [r EXCEPT !.at = "committing"]
<1>6. ASSUME r.verdict = "clean" \/ (r.verdict = "soft" /\ r.softChallengeUsed)
      PROVE  SoundMove(q) /\ q.committed = 0
  <2>1. /\ q \in CharacterStates /\ q.at = "committing" /\ q.committed = 0
        /\ q.verdict = r.verdict /\ q.generated >= 1
        /\ q.softChallengeUsed = r.softChallengeUsed
    BY <1>5 DEF CharacterStates, CharacterStages
  <2> HIDE DEF q
  <2>2. QED
    BY <1>6, <2>1 DEF SoundMove, Deciding
<1>7. CASE verdict = "hard"
  <2>1. character' = HardFound(r)
    BY <1>3, <1>7
  <2>2. CASE CanCorrect(r)
    <3> DEFINE corrections == r.hardCorrections + 1
               s == [r EXCEPT !.hardCorrections = corrections]
    <3>1. corrections \in 0 .. HardCorrectionLimit
      BY <1>5, <2>2 DEF CanCorrect, CharacterStates, HardCorrectionLimit
    <3>2. character' = AnotherCandidate(s)
      BY <1>5, <2>1, <2>2 DEF HardFound, CharacterStates
    <3> HIDE DEF corrections
    <3>3. s \in CharacterStates /\ s.committed = 0
      BY <1>5, <3>1 DEF CharacterStates
    <3> HIDE DEF s
    <3>4. QED
      BY <3>2, <3>3, AnotherMoveIsSound
  <2>3. CASE ~CanCorrect(r)
    <3>1. "hard_exhausted" \in CharacterFailures
      BY DEF CharacterFailures
    <3>2. QED
      BY <1>5, <2>1, <2>3, <3>1, FailedMoveIsSound DEF HardFound
  <2>4. QED
    BY <2>2, <2>3
<1>8. CASE verdict = "soft"
  <2>1. character' = SoftFound(r)
    BY <1>3, <1>8
  <2>2. CASE ~r.softChallengeUsed
    <3> DEFINE s == [r EXCEPT !.softChallengeUsed = TRUE]
    <3>1. s \in CharacterStates /\ s.committed = 0
      BY <1>5 DEF CharacterStates
    <3> HIDE DEF s
    <3>2. QED
      BY <2>1, <2>2, <3>1, AnotherMoveIsSound DEF SoftFound, s
  <2>3. CASE r.softChallengeUsed
    <3>1. character' = q
      BY <2>1, <2>3 DEF SoftFound
    <3>2. SoundMove(q) /\ q.committed = 0
      BY <1>5, <1>6, <1>8, <2>3
    <3>3. QED
      BY <3>1, <3>2
  <2>4. QED
    BY <2>2, <2>3
<1>9. CASE verdict = "clean"
  <2>1. character' = q
    BY <1>3, <1>9
  <2>2. SoundMove(q) /\ q.committed = 0
    BY <1>5, <1>6, <1>9
  <2>3. QED
    BY <2>1, <2>2
<1>10. QED
  BY <1>2, <1>7, <1>8, <1>9

\* A step before the commit leaves nothing committed.
LEMMA MoveThinks ==
    ASSUME SoundMove(character), CharacterThinks
    PROVE  /\ SoundMove(character') /\ character'.committed = 0
           /\ character.committed = 0 /\ character.at \in Deciding
<1>1. character \in CharacterStates
  BY DEF SoundMove
<1>2. character.at \in Deciding
  BY DEF CharacterThinks, CharacterInferenceFails, CharacterProposes, CharacterRefused,
         CharacterValidated, CharacterEvaluationFails, CharacterEvaluated, Deciding
<1>3. character.committed = 0
  BY <1>2 DEF SoundMove, Deciding
<1>4. CASE CharacterInferenceFails
  <2>1. CASE character.inferences < CharInfraRetries
    <3> DEFINE failed == character.inferences + 1
               r == [character EXCEPT !.inferences = failed]
    <3>1. character' = r
      BY <1>1, <1>4, <2>1 DEF CharacterInferenceFails, CharacterStates
    <3>2. failed \in 0 .. CharInfraRetries
      BY <1>1, <2>1 DEF CharacterStates, CharInfraRetries
    <3> HIDE DEF failed
    <3>3. /\ r \in CharacterStates /\ r.at = character.at /\ r.committed = 0
          /\ r.verdict = character.verdict /\ r.generated = character.generated
      BY <1>1, <1>3, <3>2 DEF CharacterStates
    <3> HIDE DEF r
    <3>4. SoundMove(r)
      BY <1>2, <3>3 DEF SoundMove, Deciding
    <3>5. QED
      BY <1>2, <1>3, <3>1, <3>3, <3>4
  <2>2. CASE ~(character.inferences < CharInfraRetries)
    <3>1. "character_inference_failed" \in CharacterFailures
      BY DEF CharacterFailures
    <3>2. QED
      BY <1>1, <1>2, <1>3, <1>4, <2>2, <3>1, FailedMoveIsSound DEF CharacterInferenceFails
  <2>3. QED
    BY <2>1, <2>2
<1>5. CASE CharacterProposes
  <2> DEFINE number == character.generated + 1
             r == [character EXCEPT !.at = "validating", !.generated = number]
  <2>1. character' = r
    BY <1>1, <1>5 DEF CharacterProposes, CharacterStates
  <2>2. number \in 0 .. LiveCandidateCeiling /\ number >= 1
    BY <1>1, <1>5, Budget DEF CharacterProposes, SoundMove, CharacterStates, LiveCandidateCeiling
  <2>3. character.verdict = "none"
    BY <1>2 DEF SoundMove
  <2> HIDE DEF number
  <2>4. /\ r \in CharacterStates /\ r.at = "validating" /\ r.committed = 0
        /\ r.verdict = "none" /\ r.generated >= 1
    BY <1>1, <1>3, <2>2, <2>3 DEF CharacterStates, CharacterStages
  <2> HIDE DEF r
  <2>5. SoundMove(r)
    BY <2>4 DEF SoundMove, Deciding
  <2>6. QED
    BY <1>2, <1>3, <2>1, <2>4, <2>5
<1>6. CASE CharacterRefused
  <2> DEFINE r == [character EXCEPT !.verdict = "refused"]
  <2>1. character' = AnotherCandidate(r)
    BY <1>6 DEF CharacterRefused
  <2>2. r \in CharacterStates /\ r.committed = 0
    BY <1>1, <1>3 DEF CharacterStates, Verdicts
  <2> HIDE DEF r
  <2>3. QED
    BY <1>2, <1>3, <2>1, <2>2, AnotherMoveIsSound
<1>7. CASE CharacterValidated
  <2> DEFINE stage == IF SemanticQaEnabled THEN "evaluating" ELSE "committing"
             r == [character EXCEPT !.at = stage]
  <2>1. character' = r /\ character.at = "validating"
    BY <1>7 DEF CharacterValidated
  <2>2. stage \in CharacterStages
    BY DEF CharacterStages
  <2>3. character.verdict = "none" /\ character.generated >= 1
    BY <1>2, <2>1 DEF SoundMove
  <2>4. \/ stage = "evaluating" /\ SemanticQaEnabled
        \/ stage = "committing" /\ ~SemanticQaEnabled
    OBVIOUS
  <2> HIDE DEF stage
  <2>5. /\ r \in CharacterStates /\ r.at = stage /\ r.committed = 0
        /\ r.verdict = "none" /\ r.generated >= 1
    BY <1>1, <1>3, <2>2, <2>3 DEF CharacterStates
  <2> HIDE DEF r
  <2>6. SoundMove(r)
    BY <2>4, <2>5 DEF SoundMove, Deciding
  <2>7. QED
    BY <1>2, <1>3, <2>1, <2>5, <2>6
<1>8. CASE CharacterEvaluationFails
  <2>1. CASE character.evaluations < SemanticEvalInfraRetries
    <3> DEFINE failed == character.evaluations + 1
               r == [character EXCEPT !.evaluations = failed]
    <3>1. character' = r
      BY <1>1, <1>8, <2>1 DEF CharacterEvaluationFails, CharacterStates
    <3>2. failed \in 0 .. SemanticEvalInfraRetries
      BY <1>1, <2>1 DEF CharacterStates, SemanticEvalInfraRetries
    <3> HIDE DEF failed
    <3>3. /\ r \in CharacterStates /\ r.at = character.at /\ r.committed = 0
          /\ r.verdict = character.verdict /\ r.generated = character.generated
      BY <1>1, <1>3, <3>2 DEF CharacterStates
    <3> HIDE DEF r
    <3>4. SoundMove(r)
      BY <1>2, <3>3 DEF SoundMove, Deciding
    <3>5. QED
      BY <1>2, <1>3, <3>1, <3>3, <3>4
  <2>2. CASE ~(character.evaluations < SemanticEvalInfraRetries)
    <3>1. "semantic_evaluator_failed" \in CharacterFailures
      BY DEF CharacterFailures
    <3>2. QED
      BY <1>1, <1>2, <1>3, <1>8, <2>2, <3>1, FailedMoveIsSound DEF CharacterEvaluationFails
  <2>3. QED
    BY <2>1, <2>2
<1>9. ASSUME NEW e \in Evaluations, CharacterEvaluated(e)
      PROVE  SoundMove(character') /\ character'.committed = 0
  BY <1>9, JudgedMoveIsSound
<1>10. QED
  BY <1>2, <1>3, <1>4, <1>5, <1>6, <1>7, <1>8, <1>9 DEF CharacterThinks

\* The commit and what may come of it instead; only an answer that it was made leaves
\* something committed.
LEMMA MoveEnds ==
    ASSUME SoundMove(character)
    PROVE  /\ CharacterCommitted =>
                 /\ SoundMove(character') /\ character'.at = "over" /\ character'.committed # 0
           /\ CommitFoundTurnTaken \/ CommitRefused =>
                 SoundMove(character') /\ character'.committed = 0
           /\ CharacterThrows =>
                 /\ SoundMove(character') /\ character'.at = "thrown"
                 /\ character'.committed = 0
           /\ CharacterCommitted \/ CommitFoundTurnTaken \/ CommitRefused \/ CharacterThrows =>
                 character.committed = 0 /\ character.at \notin {"over", "thrown"}
<1>1. character \in CharacterStates
  BY DEF SoundMove
<1>2. ASSUME character.at \in Deciding \cup {"committing"}
      PROVE  character.committed = 0 /\ character.at \notin {"over", "thrown"}
  BY <1>2 DEF SoundMove, Deciding
<1>3. ASSUME CharacterCommitted
      PROVE  SoundMove(character') /\ character'.at = "over" /\ character'.committed # 0
  <2> DEFINE r == [character EXCEPT !.at = "over", !.committed = character.generated]
  <2>1. character' = r /\ character.at = "committing"
    BY <1>3 DEF CharacterCommitted
  <2>2. character.generated \in Candidates
    BY <1>1, <2>1 DEF SoundMove, CharacterStates, Candidates, LiveCandidateCeiling
  <2>3. /\ r \in CharacterStates /\ r.at = "over" /\ r.committed = character.generated
        /\ r.verdict = character.verdict /\ r.softChallengeUsed = character.softChallengeUsed
    BY <1>1, <2>2 DEF CharacterStates, CharacterStages
  <2> HIDE DEF r
  <2>4. SoundMove(r) /\ r.committed # 0
    BY <2>1, <2>2, <2>3 DEF SoundMove, Deciding, Candidates
  <2>5. QED
    BY <2>1, <2>3, <2>4
<1>4. ASSUME CommitFoundTurnTaken
      PROVE  SoundMove(character') /\ character'.committed = 0
  <2>1. character.committed = 0 /\ "anchor_mismatch_exhausted" \in CharacterFailures
    BY <1>2, <1>4 DEF CommitFoundTurnTaken, CharacterFailures
  <2>2. QED
    BY <1>1, <1>4, <2>1, AnotherMoveIsSound, FailedMoveIsSound DEF CommitFoundTurnTaken
<1>5. ASSUME CommitRefused
      PROVE  SoundMove(character') /\ character'.committed = 0
  <2>1. character.committed = 0 /\ "commit_rejected" \in CharacterFailures
    BY <1>2, <1>5 DEF CommitRefused, CharacterFailures
  <2>2. QED
    BY <1>1, <1>5, <2>1, FailedMoveIsSound DEF CommitRefused
<1>6. ASSUME CharacterThrows
      PROVE  /\ SoundMove(character') /\ character'.at = "thrown"
             /\ character'.committed = 0
  <2> DEFINE r == [character EXCEPT !.at = "thrown"]
  <2>1. character' = r /\ character.committed = 0
    BY <1>2, <1>6 DEF CharacterThrows, Deciding
  <2>2. r \in CharacterStates /\ r.at = "thrown" /\ r.committed = 0
    BY <1>1, <2>1 DEF CharacterStates, CharacterStages
  <2> HIDE DEF r
  <2>3. SoundMove(r)
    BY <2>2 DEF SoundMove, Deciding
  <2>4. QED
    BY <2>1, <2>2, <2>3
<1>7. ASSUME CharacterCommitted \/ CommitFoundTurnTaken \/ CommitRefused \/ CharacterThrows
      PROVE  character.at \in Deciding \cup {"committing"}
  BY <1>7 DEF CharacterCommitted, CommitFoundTurnTaken, CommitRefused, CharacterThrows, Deciding
<1>8. QED
  BY <1>2, <1>3, <1>4, <1>5, <1>6, <1>7

LEMMA MoveStarts ==
    /\ SoundMove(CharacterFresh) /\ CharacterFresh.committed = 0 /\ CharacterFresh.at = "inferring"
    /\ SoundMove(CharacterIdle) /\ CharacterIdle.committed = 0 /\ CharacterIdle.at = "idle"
<1> DEFINE f == CharacterFresh
           i == [f EXCEPT !.at = "idle"]
<1>1. /\ f \in CharacterStates /\ f.at = "inferring" /\ f.committed = 0
      /\ f.verdict = "none" /\ f.generated = 0
  BY DEF CharacterFresh, CharacterStates, CharacterStages, LiveCandidateCeiling,
         CharInfraRetries, SemanticEvalInfraRetries, HardCorrectionLimit, Verdicts
<1> HIDE DEF f
<1>2. i \in CharacterStates /\ i.at = "idle" /\ i.committed = 0
  BY <1>1 DEF CharacterStates, CharacterStages
<1> HIDE DEF i
<1>3. SoundMove(f) /\ SoundMove(i)
  BY <1>1, <1>2, Budget DEF SoundMove, Deciding
<1>4. QED
  BY <1>1, <1>2, <1>3 DEF f, i, CharacterIdle
-----------------------------------------------------------------------------
(* The narrator's phase keeps its promise *)

\* A narration under way: nothing is shown.
Telling(n) == n \in NarratorStates /\ ~n.presented /\ (n.obligation => SemanticQaEnabled)

LEMMA NotPresentedIsSound ==
    ASSUME NEW n, Telling(n), NEW disposition \in NarratorDispositions
    PROVE  SoundNarration(NotPresented(n, disposition))
<1> DEFINE r == [n EXCEPT !.at = "over", !.disposition = disposition]
<1>1. /\ r \in NarratorStates /\ r.at = "over" /\ r.presented = n.presented
      /\ r.obligation = n.obligation
  BY DEF Telling, NarratorStates, NarratorStages
<1> HIDE DEF r
<1>2. SoundNarration(r)
  BY <1>1 DEF SoundNarration, Telling
<1>3. QED
  BY <1>2 DEF NotPresented, r

LEMMA PresentedIsSound ==
    ASSUME NEW n, Telling(n), NEW disposition \in NarratorDispositions,
           n.obligation => n.verdict = "clean",
           n.verdict \notin {"refused", "hard"},
           n.verdict = "soft" => ~AttemptsRemain(n)
    PROVE  SoundNarration(Presented(n, disposition))
<1> DEFINE r == [n EXCEPT !.at = "over", !.presented = TRUE, !.disposition = disposition]
<1>1. /\ r \in NarratorStates /\ r.at = "over" /\ r.attempt = n.attempt
      /\ r.obligation = n.obligation /\ r.verdict = n.verdict
  BY DEF Telling, NarratorStates, NarratorStages
<1> HIDE DEF r
<1>2. SoundNarration(r)
  BY <1>1 DEF SoundNarration, Telling, AttemptsRemain
<1>3. QED
  BY <1>2 DEF Presented, r

LEMMA NextAttemptIsSound ==
    ASSUME NEW n, Telling(n), AttemptsRemain(n)
    PROVE  SoundNarration(NextAttempt(n))
<1> DEFINE number == n.attempt + 1
           r == [n EXCEPT !.at = "preparing", !.attempt = number, !.evaluations = 0,
                          !.verdict = "none"]
<1>1. n \in NarratorStates
  BY DEF Telling
<1>2. number \in 0 .. MaxNarratorAttempts - 1
  BY <1>1 DEF NarratorStates, AttemptsRemain, MaxNarratorAttempts
<1>3. NextAttempt(n) = r
  BY <1>1 DEF NextAttempt, NarratorStates
<1> HIDE DEF number
<1>4. /\ 0 \in 0 .. SemanticEvalInfraRetries /\ "none" \in Verdicts
      /\ "preparing" \in NarratorStages
  BY DEF SemanticEvalInfraRetries, Verdicts, NarratorStages
<1>5. /\ r \in NarratorStates /\ r.at = "preparing" /\ r.presented = n.presented
      /\ r.obligation = n.obligation /\ r.verdict = "none"
  BY <1>1, <1>2, <1>4 DEF NarratorStates
<1> HIDE DEF r
<1>6. SoundNarration(r)
  BY <1>5 DEF SoundNarration, Telling
<1>7. QED
  BY <1>3, <1>6

LEMMA FailureIsSound ==
    ASSUME NEW n, Telling(n), NEW decision, decision = "retry" => AttemptsRemain(n)
    PROVE  SoundNarration(AfterFailure(n, decision))
<1>1. "committed_fallback" \in NarratorDispositions
  BY DEF NarratorDispositions
<1>2. QED
  BY <1>1, NextAttemptIsSound, NotPresentedIsSound DEF AfterFailure

LEMMA RetriesAreLeft ==
    ASSUME NEW n, NEW kind, NEW empty, NEW retryable, NEW permanent,
           RetryDecision(n, kind, empty, retryable, permanent) = "retry"
    PROVE  AttemptsRemain(n)
BY DEF RetryDecision

\* What applyNarratorSemanticPolicy makes of a verdict.
LEMMA PolicyIsSound ==
    ASSUME NEW n, Telling(n), SemanticQaEnabled, NEW e \in Evaluations,
           n.verdict = NarratorVerdict(e)
    PROVE  SoundNarration(PolicyApplied(n, e))
<1>1. n \in NarratorStates /\ n.obligation \in BOOLEAN
  BY DEF Telling, NarratorStates
<1>2. n.verdict \in {"hard", "soft", "clean"}
  BY DEF NarratorVerdict, VerdictOf
<1>3. {"player_authorship_rejected", "narrator_presented", "committed_fallback",
       "accepted_with_residual_soft_concerns"} \subseteq NarratorDispositions
  BY DEF NarratorDispositions
<1>4. ASSUME AttemptsRemain(n) PROVE SoundNarration(Regenerated(n, e))
  <2> DEFINE obliged == n.obligation \/ SpeaksForPlayer(e)
             r == [n EXCEPT !.obligation = obliged]
  <2>1. obliged \in BOOLEAN
    BY <1>1 DEF SpeaksForPlayer
  <2>2. Regenerated(n, e) = NextAttempt(r)
    BY <1>1 DEF Regenerated, NarratorStates
  <2> HIDE DEF obliged
  <2>3. r \in NarratorStates /\ r.presented = n.presented /\ r.attempt = n.attempt
    BY <1>1, <2>1 DEF NarratorStates
  <2> HIDE DEF r
  <2>4. Telling(r) /\ AttemptsRemain(r)
    BY <1>4, <2>3 DEF Telling, AttemptsRemain
  <2>5. QED
    BY <2>2, <2>4, NextAttemptIsSound
<1>5. CASE n.obligation /\ n.verdict # "clean"
  <2>1. PolicyApplied(n, e) = IF AttemptsRemain(n) THEN Regenerated(n, e)
                              ELSE NotPresented(n, "player_authorship_rejected")
    BY <1>5 DEF PolicyApplied, Repaired
  <2>2. QED
    BY <1>3, <1>4, <2>1, NotPresentedIsSound
<1>6. CASE n.verdict = "clean"
  <2>1. PolicyApplied(n, e) = Presented(n, "narrator_presented")
    BY <1>6 DEF PolicyApplied, Repaired
  <2>2. QED
    BY <1>3, <1>6, <2>1, PresentedIsSound
<1>7. CASE ~n.obligation /\ n.verdict # "clean" /\ AttemptsRemain(n)
  <2>1. PolicyApplied(n, e) = Regenerated(n, e)
    BY <1>7 DEF PolicyApplied, Repaired
  <2>2. QED
    BY <1>4, <1>7, <2>1
<1>8. CASE ~n.obligation /\ n.verdict = "hard" /\ ~AttemptsRemain(n)
  <2>1. PolicyApplied(n, e) = NotPresented(n, IF AuthorshipViolation(e)
                                              THEN "player_authorship_rejected"
                                              ELSE "committed_fallback")
    BY <1>8 DEF PolicyApplied, Repaired
  <2>2. QED
    BY <1>3, <2>1, NotPresentedIsSound
<1>9. CASE ~n.obligation /\ n.verdict = "soft" /\ ~AttemptsRemain(n)
  <2>1. PolicyApplied(n, e) = Presented(n, "accepted_with_residual_soft_concerns")
    BY <1>9 DEF PolicyApplied, Repaired
  <2>2. QED
    BY <1>3, <1>9, <2>1, PresentedIsSound
<1>10. QED
  BY <1>1, <1>2, <1>5, <1>6, <1>7, <1>8, <1>9

\* A step of the narrator's phase that only moves it on.
LEMMA NarratorMovesOn ==
    ASSUME NEW n, SoundNarration(n), n.at \in {"preparing", "inferring", "validating"},
           NEW stage \in {"inferring", "validating", "evaluating"},
           stage = "evaluating" => SemanticQaEnabled
    PROVE  SoundNarration([n EXCEPT !.at = stage])
<1> DEFINE r == [n EXCEPT !.at = stage]
<1>1. /\ r \in NarratorStates /\ r.at = stage /\ r.presented = n.presented
      /\ r.obligation = n.obligation /\ r.verdict = n.verdict
  BY DEF SoundNarration, NarratorStates, NarratorStages
<1> HIDE DEF r
<1>2. SoundNarration(r)
  BY <1>1 DEF SoundNarration
<1>3. QED
  BY <1>2 DEF r

LEMMA NarrationStep ==
    ASSUME SoundNarration(narrator), NarratorStep
    PROVE  SoundNarration(narrator')
<1>1. narrator \in NarratorStates
  BY DEF SoundNarration
<1>2. narrator.at \in {"preparing", "inferring", "validating", "evaluating"}
  BY DEF NarratorStep, NarratorPrepared, NarratorPrepareFails, NarratorInferenceFails,
         NarratorProposes, NarratorRefused, NarratorThrows, NarratorValidated,
         NarratorEvaluationFails, NarratorEvaluated
<1>3. Telling(narrator) /\ narrator.verdict = "none"
  BY <1>1, <1>2 DEF SoundNarration, Telling
<1>4. {"narrator_presented", "committed_fallback"} \subseteq NarratorDispositions
  BY DEF NarratorDispositions
<1>5. CASE NarratorPrepared
  BY <1>5, NarratorMovesOn DEF NarratorPrepared
<1>6. CASE NarratorPrepareFails
  BY <1>3, <1>4, <1>6, NotPresentedIsSound DEF NarratorPrepareFails
<1>7. CASE NarratorInferenceFails
  <2>1. PICK kind \in FinishKinds, empty \in BOOLEAN, permanent \in BOOLEAN :
           narrator' = AfterFailure(narrator,
                           RetryDecision(narrator, kind, empty, FALSE, permanent))
    BY <1>7 DEF NarratorInferenceFails
  <2>2. QED
    BY <1>3, <2>1, FailureIsSound, RetriesAreLeft
<1>8. CASE NarratorProposes
  BY <1>8, NarratorMovesOn DEF NarratorProposes
<1>9. CASE NarratorRefused
  <2> DEFINE r == [narrator EXCEPT !.verdict = "refused"]
  <2>1. PICK retryable \in BOOLEAN :
           narrator' = AfterFailure(r, RetryDecision(narrator, "complete", FALSE, retryable, FALSE))
    BY <1>9 DEF NarratorRefused
  <2>2. /\ r \in NarratorStates /\ r.presented = narrator.presented
        /\ r.obligation = narrator.obligation /\ r.attempt = narrator.attempt
    BY <1>1 DEF NarratorStates, Verdicts
  <2> HIDE DEF r
  <2>3. Telling(r) /\ (AttemptsRemain(narrator) => AttemptsRemain(r))
    BY <1>3, <2>2 DEF Telling, AttemptsRemain
  <2>4. QED
    BY <2>1, <2>3, FailureIsSound, RetriesAreLeft
<1>10. CASE NarratorThrows
  BY <1>3, <1>10, FailureIsSound, RetriesAreLeft DEF NarratorThrows
<1>11. CASE NarratorValidated
  <2>1. CASE SemanticQaEnabled
    BY <1>11, <2>1, NarratorMovesOn DEF NarratorValidated
  <2>2. CASE ~SemanticQaEnabled
    BY <1>3, <1>4, <1>11, <2>2, PresentedIsSound DEF NarratorValidated, Telling
  <2>3. QED
    BY <2>1, <2>2
<1>12. CASE NarratorEvaluationFails
  <2>1. CASE narrator.evaluations < SemanticEvalInfraRetries
    <3> DEFINE failed == narrator.evaluations + 1
               r == [narrator EXCEPT !.evaluations = failed]
    <3>1. narrator' = r
      BY <1>1, <1>12, <2>1 DEF NarratorEvaluationFails, NarratorStates
    <3>2. failed \in 0 .. SemanticEvalInfraRetries
      BY <1>1, <2>1 DEF NarratorStates, SemanticEvalInfraRetries
    <3> HIDE DEF failed
    <3>3. /\ r \in NarratorStates /\ r.at = narrator.at /\ r.presented = narrator.presented
          /\ r.obligation = narrator.obligation /\ r.verdict = narrator.verdict
      BY <1>1, <3>2 DEF NarratorStates
    <3> HIDE DEF r
    <3>4. SoundNarration(r)
      BY <1>2, <3>3 DEF SoundNarration
    <3>5. QED
      BY <3>1, <3>4
  <2>2. CASE ~(narrator.evaluations < SemanticEvalInfraRetries)
    BY <1>3, <1>4, <1>12, <2>2, NotPresentedIsSound DEF NarratorEvaluationFails
  <2>3. QED
    BY <2>1, <2>2
<1>13. ASSUME NEW e \in Evaluations, NarratorEvaluated(e)
       PROVE  SoundNarration(narrator')
  <2> DEFINE verdict == NarratorVerdict(e)
             r == [narrator EXCEPT !.verdict = verdict]
  <2>1. narrator' = PolicyApplied(r, e) /\ narrator.at = "evaluating"
    BY <1>13 DEF NarratorEvaluated
  <2>2. verdict \in Verdicts
    BY DEF NarratorVerdict, VerdictOf, Verdicts
  <2>3. SemanticQaEnabled
    BY <2>1 DEF SoundNarration
  <2> HIDE DEF verdict
  <2>4. /\ r \in NarratorStates /\ r.presented = narrator.presented /\ r.verdict = verdict
        /\ r.obligation = narrator.obligation
    BY <1>1, <2>2 DEF NarratorStates
  <2> HIDE DEF r
  <2>5. Telling(r)
    BY <1>3, <2>4 DEF Telling
  <2>6. r.verdict = NarratorVerdict(e)
    BY <2>4 DEF verdict
  <2>7. QED
    BY <2>1, <2>3, <2>5, <2>6, PolicyIsSound
<1>14. QED
  BY <1>5, <1>6, <1>7, <1>8, <1>9, <1>10, <1>11, <1>12, <1>13 DEF NarratorStep

LEMMA NarrationStarts == SoundNarration(NarratorFresh) /\ SoundNarration(NarratorIdle)
<1> DEFINE f == NarratorFresh
           i == [f EXCEPT !.at = "idle"]
<1>1. /\ f \in NarratorStates /\ f.at = "preparing" /\ f.presented = FALSE
      /\ f.obligation = FALSE /\ f.verdict = "none"
  BY DEF NarratorFresh, NarratorStates, NarratorStages, MaxNarratorAttempts,
         SemanticEvalInfraRetries, Verdicts, NarratorDispositions
<1> HIDE DEF f
<1>2. /\ i \in NarratorStates /\ i.at = "idle" /\ i.presented = FALSE
      /\ i.obligation = FALSE
  BY <1>1 DEF NarratorStates, NarratorStages
<1> HIDE DEF i
<1>3. SoundNarration(f) /\ SoundNarration(i)
  BY <1>1, <1>2 DEF SoundNarration
<1>4. QED
  BY <1>3 DEF f, i, NarratorIdle
-----------------------------------------------------------------------------
(* The phases in the round *)

\* Every step of the round enters, moves or leaves a phase as the phase may.
LEMMA PhaseStep ==
    ASSUME StateInv, PhaseInv, RoundNext
    PROVE  PhaseInv'
<1>1. /\ SoundSelection(director, Decisions) /\ SoundMove(character)
      /\ SoundNarration(narrator)
  BY DEF PhaseInv
<1>2. ASSUME PhasesUnchanged PROVE PhaseInv'
  BY <1>1, <1>2 DEF PhasesUnchanged, PhaseInv, SoundSelection, SoundMove, SoundNarration,
    AttemptsRemain
<1>3. ASSUME PhasesIdle PROVE PhaseInv'
  <2>1. {} \in SUBSET Characters
    OBVIOUS
  <2>2. /\ SoundSelection(DirectorIdle, Decisions) /\ SoundMove(CharacterIdle)
        /\ SoundNarration(NarratorIdle)
    BY <2>1, SelectionStarts, MoveStarts, NarrationStarts
  <2>3. /\ SoundSelection(director', Decisions) /\ SoundMove(character')
        /\ SoundNarration(narrator')
    BY <1>3, <2>2 DEF PhasesIdle
  <2>4. QED
    BY <2>3 DEF PhaseInv
<1>4. ASSUME SoundSelection(director', Decisions), UNCHANGED <<character, narrator>>
      PROVE  PhaseInv'
  <2>1. SoundMove(character') /\ SoundNarration(narrator')
    BY <1>1, <1>4
  <2>2. QED
    BY <1>4, <2>1 DEF PhaseInv
<1>5. ASSUME SoundMove(character'), UNCHANGED <<director, narrator>> PROVE PhaseInv'
  <2>1. SoundSelection(director', Decisions) /\ SoundNarration(narrator')
    BY <1>1, <1>5
  <2>2. QED
    BY <1>5, <2>1 DEF PhaseInv
<1>6. Eligible \subseteq Decisions /\ EndRound \in Decisions
  BY RoundAssumption DEF Eligible, Decisions, StateInv, HostStates
<1>7. ASSUME NEW designation \in Characters \cup {Nobody}, RoundStarts(designation)
      PROVE  PhaseInv'
  BY <1>2, <1>7 DEF RoundStarts
<1>8. CASE NodeActs
  <2>1. CASE RoundPrepared \/ PresentationRecorded \/ RoundReleased \/ EligibilityRead
             \/ LibrarianJoined \/ PlotJoined
    BY <1>2, <2>1 DEF RoundPrepared, PresentationRecorded, RoundReleased, EligibilityRead,
      LibrarianJoined, PlotJoined
  <2>2. CASE RoundReturns \/ DirectorFailed \/ DirectorEnds \/ DirectorThrew
             \/ CharacterFailedRound \/ CharacterThrew \/ NarratorJoined
    BY <1>3, <2>2 DEF RoundReturns, DirectorFailed, DirectorEnds, DirectorThrew,
      CharacterFailedRound, CharacterThrew, NarratorJoined
  <2>3. CASE ParticipationDirect
    <3>1. SoundMove(character')
      BY <2>3, MoveStarts DEF ParticipationDirect, CharacterEnters
    <3>2. QED
      BY <1>5, <2>3, <3>1 DEF ParticipationDirect
  <2>4. CASE ParticipationToDirector
    <3>1. node.offered \in SUBSET Characters
      BY DEF StateInv, NodeStates
    <3>2. SoundSelection(director', Decisions)
      BY <2>4, <3>1, SelectionStarts DEF ParticipationToDirector, DirectorEnters
    <3>3. QED
      BY <1>4, <2>4, <3>2 DEF ParticipationToDirector
  <2>5. CASE DirectorActs
    <3>1. SoundSelection(director', Decisions)
      BY <1>1, <1>6, <2>5, SelectionStep, SelectionThrows DEF DirectorActs
    <3>2. QED
      BY <1>4, <2>5, <3>1 DEF DirectorActs
  <2>6. CASE DirectorSelects
    <3>1. SoundMove(character')
      BY <2>6, MoveStarts DEF DirectorSelects, CharacterEnters
    <3>2. {} \in SUBSET Characters
      OBVIOUS
    <3>3. SoundSelection(director', Decisions)
      BY <2>6, <3>2, SelectionStarts DEF DirectorSelects
    <3>4. SoundNarration(narrator')
      BY <1>1, <2>6 DEF DirectorSelects
    <3>5. QED
      BY <3>1, <3>3, <3>4 DEF PhaseInv
  <2>7. CASE CharacterActs
    <3>1. SoundMove(character')
      BY <1>1, <2>7, MoveThinks, MoveEnds DEF CharacterActs
    <3>2. QED
      BY <1>5, <2>7, <3>1 DEF CharacterActs
  <2>8. CASE MoveCommitted
    <3>1. SoundMove(character')
      BY <1>1, <2>8, MoveEnds DEF MoveCommitted
    <3>2. QED
      BY <1>5, <2>8, <3>1 DEF MoveCommitted
  <2>9. CASE PostCommitStarts
    <3>1. SoundMove(character') /\ SoundNarration(narrator')
      BY <2>9, MoveStarts, NarrationStarts DEF PostCommitStarts, NarratorEnters
    <3>2. SoundSelection(director', Decisions)
      BY <1>1, <2>9 DEF PostCommitStarts
    <3>3. QED
      BY <3>1, <3>2 DEF PhaseInv
  <2>10. QED
    BY <1>8, <2>1, <2>2, <2>3, <2>4, <2>5, <2>6, <2>7, <2>8, <2>9 DEF NodeActs
<1>9. CASE LanesAct
  <2>1. CASE NarratorActs
    <3>1. SoundNarration(narrator')
      BY <1>1, <2>1, NarrationStep DEF NarratorActs
    <3>2. SoundSelection(director', Decisions) /\ SoundMove(character')
      BY <1>1, <2>1 DEF NarratorActs
    <3>3. QED
      BY <3>1, <3>2 DEF PhaseInv
  <2>2. ASSUME NEW c \in Commits, LibrarianActs(c) \/ PlotActs(c) PROVE PhaseInv'
    BY <1>2, <2>2 DEF LibrarianActs, PlotActs, PhasesUnchanged
  <2>3. QED
    BY <1>9, <2>1, <2>2 DEF LanesAct
<1>10. CASE RoundFaults
  <2>1. CASE OtherClientCommits \/ PresentationFails
    BY <1>2, <2>1 DEF OtherClientCommits, PresentationFails, PhasesUnchanged
  <2>2. CASE RoundFails \/ NarrationUnrecorded \/ RuntimeExits
    BY <1>3, <2>2 DEF RoundFails, NarrationUnrecorded, RuntimeExits, Exits
  <2>3. CASE CommitAnswerLost
    <3>1. SoundMove(character')
      BY <1>1, <2>3, MoveEnds DEF CommitAnswerLost
    <3>2. QED
      BY <1>5, <2>3, <3>1 DEF CommitAnswerLost
  <2>4. ASSUME NEW c \in Commits, PlotRejects(c) PROVE PhaseInv'
    BY <1>3, <2>4 DEF PlotRejects, Exits
  <2>5. QED
    BY <1>10, <2>1, <2>2, <2>3, <2>4 DEF RoundFaults
<1>11. CASE RuntimeRestarts
  BY <1>2, <1>11 DEF RuntimeRestarts
<1>12. QED
  BY <1>7, <1>8, <1>9, <1>10, <1>11 DEF RoundNext
-----------------------------------------------------------------------------
(* What the steps do to the round under way *)

\* The round goes to a stage and accounts for what it did before.
Keeps(stage) ==
    /\ node' \in NodeStates /\ node'.at = stage /\ node'.number = node.number
    /\ node'.used = node.used /\ node'.turns = node.turns /\ node'.commit = node.commit

\* The round's results are gone.
Lost(stage) ==
    /\ node' \in NodeStates /\ node'.at = stage /\ node'.number = node.number
    /\ node'.overtaken = {}

LEMMA GoesKeeps ==
    ASSUME node \in NodeStates, NEW stage \in RoundStages, Goes(stage)
    PROVE  Keeps(stage) /\ UNCHANGED <<node.speaker, node.overtaken>>
<1> DEFINE r == [node EXCEPT !.at = stage]
<1>1. /\ r \in NodeStates /\ r.at = stage /\ r.number = node.number /\ r.used = node.used
      /\ r.turns = node.turns /\ r.commit = node.commit /\ r.speaker = node.speaker
      /\ r.overtaken = node.overtaken
  BY DEF NodeStates
<1>2. node' = r
  BY DEF Goes
<1> HIDE DEF r
<1>3. QED
  BY <1>1, <1>2 DEF Keeps

LEMMA CompletesKeeps ==
    ASSUME node \in NodeStates, NEW reason \in CompletionReasons, Completes(reason)
    PROVE  Keeps("completing") /\ UNCHANGED <<node.speaker, node.overtaken>>
<1> DEFINE r == [node EXCEPT !.at = "completing", !.reason = reason]
<1>1. /\ r \in NodeStates /\ r.at = "completing" /\ r.number = node.number
      /\ r.used = node.used /\ r.turns = node.turns /\ r.commit = node.commit
      /\ r.speaker = node.speaker /\ r.overtaken = node.overtaken
  BY DEF NodeStates, RoundStages
<1>2. node' = r
  BY DEF Completes
<1> HIDE DEF r
<1>3. QED
  BY <1>1, <1>2 DEF Keeps

LEMMA ThrowsLoses ==
    ASSUME node \in NodeStates
    PROVE  /\ Throws => Lost("released")
           /\ Exits => Lost("exited")
<1> DEFINE none == NoRound
           r == [none EXCEPT !.number = node.number]
           x == [none EXCEPT !.at = "exited", !.number = node.number]
<1>1. none \in NodeStates /\ none.at = "released" /\ none.overtaken = {}
  BY RoundAssumption DEF NoRound, NodeStates, RoundStages, CompletionReasons
<1>2. node.number \in 0 .. MaxRounds
  BY DEF NodeStates
<1> HIDE DEF none
<1>3. /\ r \in NodeStates /\ r.at = "released" /\ r.number = node.number /\ r.overtaken = {}
      /\ x \in NodeStates /\ x.at = "exited" /\ x.number = node.number /\ x.overtaken = {}
  BY <1>1, <1>2 DEF NodeStates, RoundStages
<1>4. (Throws => node' = r) /\ (Exits => node' = x)
  BY DEF Throws, Exits, none
<1> HIDE DEF r, x
<1>5. QED
  BY <1>3, <1>4 DEF Lost

LEMMA StartsAnew ==
    ASSUME node \in NodeStates, host \in HostStates,
           NEW designation \in Characters \cup {Nobody}, RoundStarts(designation)
    PROVE  /\ node' \in NodeStates /\ node'.at = "starting" /\ node'.number = node.number + 1
           /\ node'.used = {} /\ node'.turns = <<>> /\ node'.overtaken = {}
           /\ host' \in HostStates /\ host'.used = {} /\ host'.commits = host.commits
<1> DEFINE cast == Cardinality(host.scene.present)
           most == 2 * (IF cast > 1 THEN cast ELSE 1)
           number == node.number + 1
           none == NoRound
           r == [none EXCEPT !.at = "starting", !.number = number, !.ceiling = most,
                             !.designation = designation]
           h == [host EXCEPT !.used = {}]
<1>1. host.scene.present \subseteq Characters
  BY RoundAssumption DEF HostStates
<1>2. cast \in Nat
  BY <1>1, RoundAssumption, FS_Subset, FS_CardinalityType
<1> HIDE DEF cast
<1>3. most \in Nat
  BY <1>2
<1>4. number \in 0 .. MaxRounds
  BY RoundAssumption DEF RoundStarts, NodeStates
<1>5. /\ none \in NodeStates /\ none.used = {} /\ none.turns = <<>> /\ none.overtaken = {}
  BY RoundAssumption DEF NoRound, NodeStates, RoundStages, CompletionReasons
<1>6. node' = r /\ host' = h
  BY DEF RoundStarts, cast
<1> HIDE DEF none, most, number
<1>7. /\ r \in NodeStates /\ r.at = "starting" /\ r.number = number /\ r.used = {}
      /\ r.turns = <<>> /\ r.overtaken = {}
  BY <1>3, <1>4, <1>5 DEF NodeStates, RoundStages
<1>8. h \in HostStates /\ h.used = {} /\ h.commits = host.commits
  BY DEF HostStates
<1> HIDE DEF r, h
<1>9. QED
  BY <1>6, <1>7, <1>8 DEF number

\* Who is eligible is a character, has not spoken and is not the player's.
LEMMA EligibleSpeakers ==
    ASSUME host \in HostStates
    PROVE  Eligible \subseteq Characters \ host.used
BY RoundAssumption DEF Eligible, HostStates

LEMMA EligibilityReadDoes ==
    ASSUME StateInv, EligibilityRead
    PROVE  \/ Keeps("completing") /\ UNCHANGED node.overtaken
           \/ Keeps("participating") /\ node'.overtaken = {}
<1>1. /\ node \in NodeStates /\ Len(node.turns) \in Nat /\ node.ceiling \in Nat
      /\ Eligible \in SUBSET Characters
  BY EligibleSpeakers DEF StateInv, NodeStates
<1> DEFINE offered == Eligible
           r == [node EXCEPT !.at = "participating", !.offered = offered, !.overtaken = {}]
<1>2. \/ Completes("defensive_turn_ceiling")
      \/ Completes("no_eligible_actors")
      \/ node' = r
  BY <1>1 DEF EligibilityRead
<1>3. CASE Completes("defensive_turn_ceiling")
  BY <1>1, <1>3, CompletesKeeps DEF CompletionReasons
<1>4. CASE Completes("no_eligible_actors")
  BY <1>1, <1>4, CompletesKeeps DEF CompletionReasons
<1>5. CASE node' = r
  <2>1. offered \in SUBSET Characters
    BY <1>1
  <2> HIDE DEF offered
  <2>2. /\ r \in NodeStates /\ r.at = "participating" /\ r.number = node.number
        /\ r.used = node.used /\ r.turns = node.turns /\ r.commit = node.commit
        /\ r.overtaken = {}
    BY <1>1, <2>1 DEF NodeStates, RoundStages
  <2> HIDE DEF r
  <2>3. QED
    BY <1>5, <2>2 DEF Keeps
<1>6. QED
  BY <1>2, <1>3, <1>4, <1>5

LEMMA ParticipationDirectDoes ==
    ASSUME StateInv, ParticipationDirect
    PROVE  /\ Keeps("acting") /\ node'.speaker = node.designation /\ node.designation \in Eligible
           /\ node'.overtaken = node.overtaken \ {"anchor"}
           /\ character'.committed = 0 /\ character'.at = "inferring"
<1> DEFINE overtaken == node.overtaken \ {"anchor"}
           r == [node EXCEPT !.at = "acting", !.speaker = node.designation,
                             !.designation = Nobody, !.overtaken = overtaken]
<1>1. node \in NodeStates /\ overtaken \in SUBSET Expectations
  BY DEF StateInv, NodeStates
<1>2. node' = r
  BY <1>1 DEF ParticipationDirect, NodeStates
<1> HIDE DEF overtaken
<1>3. /\ r \in NodeStates /\ r.at = "acting" /\ r.number = node.number
      /\ r.used = node.used /\ r.turns = node.turns /\ r.commit = node.commit
      /\ r.speaker = node.designation /\ r.overtaken = overtaken
  BY <1>1 DEF NodeStates, RoundStages
<1> HIDE DEF r
<1>4. character' = CharacterFresh /\ node.designation \in Eligible
  BY DEF ParticipationDirect, CharacterEnters
<1>5. QED
  BY <1>2, <1>3, <1>4, MoveStarts DEF Keeps, overtaken

LEMMA DirectorSelectsDoes ==
    ASSUME StateInv, PhaseInv, DirectorSelects
    PROVE  /\ Keeps("acting") /\ node'.speaker = DirectorDecision
           /\ DirectorDecision \in Characters
           /\ node'.overtaken = node.overtaken \ {"anchor"}
           /\ character'.committed = 0 /\ character'.at = "inferring"
<1> DEFINE overtaken == node.overtaken \ {"anchor"}
           decision == DirectorDecision
           r == [node EXCEPT !.at = "acting", !.speaker = decision, !.overtaken = overtaken]
<1>1. node \in NodeStates /\ overtaken \in SUBSET Expectations
  BY DEF StateInv, NodeStates
<1>2. decision \in Characters
  BY DEF DirectorSelects, PhaseInv, SoundSelection, DirectorAccepted, DirectorDecision, Decisions
<1>3. node' = r
  BY <1>1 DEF DirectorSelects, NodeStates
<1> HIDE DEF overtaken, decision
<1>4. /\ r \in NodeStates /\ r.at = "acting" /\ r.number = node.number
      /\ r.used = node.used /\ r.turns = node.turns /\ r.commit = node.commit
      /\ r.speaker = decision /\ r.overtaken = overtaken
  BY <1>1, <1>2 DEF NodeStates, RoundStages
<1> HIDE DEF r
<1>5. character' = CharacterFresh
  BY DEF DirectorSelects, CharacterEnters
<1>6. QED
  BY <1>2, <1>3, <1>4, <1>5, MoveStarts DEF Keeps, overtaken, decision

\* Steps of the character's phase before its move is committed.
LEMMA CharacterActsDoes ==
    ASSUME StateInv, PhaseInv, CharacterActs
    PROVE  /\ Keeps("acting") /\ UNCHANGED node.speaker
           /\ node'.overtaken \in {node.overtaken, node.overtaken \ {"anchor"}}
           /\ character.committed = 0 /\ character.at # "thrown" /\ character'.committed = 0
<1> DEFINE overtaken == IF character'.at = "inferring" THEN node.overtaken \ {"anchor"}
                        ELSE node.overtaken
           r == [node EXCEPT !.overtaken = overtaken]
<1>1. node \in NodeStates /\ overtaken \in SUBSET Expectations /\ node.at = "acting"
  BY DEF StateInv, NodeStates, CharacterActs
<1>2. node' = r
  BY <1>1 DEF CharacterActs, Anchored, NodeStates
<1>3. overtaken \in {node.overtaken, node.overtaken \ {"anchor"}}
  OBVIOUS
<1> HIDE DEF overtaken
<1>4. /\ r \in NodeStates /\ r.at = "acting" /\ r.number = node.number
      /\ r.used = node.used /\ r.turns = node.turns /\ r.commit = node.commit
      /\ r.speaker = node.speaker /\ r.overtaken = overtaken
  BY <1>1 DEF NodeStates
<1> HIDE DEF r
<1>5. character.committed = 0 /\ character.at # "thrown" /\ character'.committed = 0
  BY MoveThinks, MoveEnds DEF CharacterActs, PhaseInv, Deciding
<1>6. QED
  BY <1>2, <1>3, <1>4, <1>5 DEF Keeps

\* A move is committed, whether or not its answer arrives.
LEMMA CommitDoes ==
    ASSUME StateInv, PhaseInv, SpeakerInv, MoveCommitted \/ CommitAnswerLost
    PROVE  /\ node.at = "acting" /\ node' = node
           /\ character.committed = 0 /\ character.at # "thrown"
           /\ MoveCommitted => character'.committed # 0 /\ character'.at = "over"
           /\ CommitAnswerLost => character'.committed = 0 /\ character'.at = "thrown"
           /\ host' \in HostStates /\ host'.used = host.used \cup {node.speaker}
           /\ Len(host'.commits) = Len(host.commits) + 1
           /\ \A c \in DOMAIN host.commits :
                 c \in DOMAIN host'.commits /\ host'.commits[c] = host.commits[c]
           /\ \A c \in DOMAIN host'.commits : c \in DOMAIN host.commits \/ c = Len(host'.commits)
           /\ Len(host'.commits) \in DOMAIN host'.commits \ DOMAIN host.commits
           /\ host'.commits[Len(host'.commits)].round = node.number
           /\ host'.commits[Len(host'.commits)].actor = node.speaker
<1>1. PICK scene \in Scenes : host' = Committed(host, node.speaker, scene)
  BY DEF MoveCommitted, CommitAnswerLost
<1> DEFINE one == [round |-> node.number, actor |-> node.speaker]
           entries == [round : 1 .. MaxRounds, actor : Characters]
           commits == Append(host.commits, one)
           used == host.used \cup {node.speaker}
           r == [host EXCEPT !.scene = scene, !.used = used, !.commits = commits]
<1>2. /\ node.at = "acting" /\ node' = node /\ host \in HostStates
      /\ host.commits \in Seq(entries) /\ host.used \in SUBSET Characters
  BY DEF MoveCommitted, CommitAnswerLost, StateInv, HostStates
<1>3. node.number \in 1 .. MaxRounds /\ node.speaker \in Characters
  BY <1>2, RoundAssumption DEF StateInv, SpeakerInv, NodeStates
<1>4. one \in entries /\ one.round = node.number /\ one.actor = node.speaker
  BY <1>3
<1>5. host' = r
  BY <1>1, <1>2 DEF Committed, HostStates
<1> HIDE DEF one, entries
<1>6. /\ commits \in Seq(entries) /\ Len(commits) = Len(host.commits) + 1
      /\ \A c \in DOMAIN host.commits : c \in DOMAIN commits /\ commits[c] = host.commits[c]
      /\ \A c \in DOMAIN commits : c \in DOMAIN host.commits \/ c = Len(commits)
      /\ Len(commits) \in DOMAIN commits \ DOMAIN host.commits
      /\ commits[Len(commits)] = one
  BY <1>2, <1>4
<1>7. used \in SUBSET Characters
  BY <1>2, <1>3
<1> HIDE DEF commits, used
<1>8. r \in HostStates /\ r.used = used /\ r.commits = commits
  BY <1>2, <1>6, <1>7 DEF HostStates, entries
<1> HIDE DEF r
<1>9. character.committed = 0 /\ character.at # "thrown"
  BY MoveEnds DEF MoveCommitted, CommitAnswerLost, PhaseInv
<1>10. /\ MoveCommitted => character'.committed # 0 /\ character'.at = "over"
       /\ CommitAnswerLost => character'.committed = 0 /\ character'.at = "thrown"
  BY MoveEnds DEF MoveCommitted, CommitAnswerLost, PhaseInv
<1>11. QED
  BY <1>2, <1>4, <1>5, <1>6, <1>8, <1>9, <1>10 DEF used

\* The three branches of the committed turn start.
LEMMA PostCommitDoes ==
    ASSUME StateInv, SpeakerInv, PostCommitStarts
    PROVE  /\ node' \in NodeStates /\ node'.at = "joiningNarrator"
           /\ node'.number = node.number /\ node'.used = node.used \cup {node.speaker}
           /\ node'.turns = node.turns /\ node'.commit = Len(host.commits)
           /\ node'.overtaken = {} /\ host' = host
<1> DEFINE used == node.used \cup {node.speaker}
           commit == Len(host.commits)
           r == [node EXCEPT !.at = "joiningNarrator", !.used = used, !.overtaken = {},
                             !.offered = {}, !.speaker = Nobody, !.commit = commit]
<1>1. node \in NodeStates /\ used \in SUBSET Characters /\ commit \in Nat
  BY DEF StateInv, SpeakerInv, NodeStates, HostStates, PostCommitStarts
<1>2. node' = r /\ host' = host
  BY <1>1 DEF PostCommitStarts, NodeStates
<1> HIDE DEF used, commit
<1>3. /\ r \in NodeStates /\ r.at = "joiningNarrator" /\ r.number = node.number
      /\ r.used = used /\ r.turns = node.turns /\ r.commit = commit /\ r.overtaken = {}
  BY <1>1 DEF NodeStates, RoundStages
<1> HIDE DEF r
<1>4. QED
  BY <1>2, <1>3 DEF used, commit

\* The turn is taken up.
LEMMA PlotJoinedDoes ==
    ASSUME StateInv, PlotJoined
    PROVE  /\ node' \in NodeStates /\ node'.at \in {"choosing", "completing"}
           /\ node'.number = node.number /\ node'.used = node.used
           /\ node'.turns = Append(node.turns, node.commit)
           /\ UNCHANGED <<node.overtaken, host>>
<1> DEFINE blocking == librarianLane[node.commit].blocking
           turns == Append(node.turns, node.commit)
           stage == IF blocking THEN "completing" ELSE "choosing"
           reason == IF blocking THEN "librarian_persistence_failure" ELSE node.reason
           r == [node EXCEPT !.turns = turns, !.at = stage, !.reason = reason]
<1>1. /\ node \in NodeStates /\ turns \in Seq(Nat) /\ reason \in CompletionReasons
      /\ stage \in {"choosing", "completing"} /\ stage \in RoundStages
  BY DEF StateInv, NodeStates, CompletionReasons, RoundStages
<1>2. node' = r /\ host' = host
  BY <1>1 DEF PlotJoined, NodeStates
<1> HIDE DEF turns, stage, reason
<1>3. /\ r \in NodeStates /\ r.at = stage /\ r.number = node.number /\ r.used = node.used
      /\ r.turns = turns /\ r.overtaken = node.overtaken
  BY <1>1 DEF NodeStates
<1> HIDE DEF r
<1>4. QED
  BY <1>1, <1>2, <1>3 DEF turns

LEMMA PresentationDoes ==
    ASSUME StateInv, PresentationRecorded
    PROVE  /\ node' \in NodeStates /\ node'.at = "presenting" /\ node'.number = node.number
           /\ node'.overtaken = node.overtaken /\ presented' \in Seq(Nat)
<1> DEFINE turns == Tail(node.turns)
           r == [node EXCEPT !.turns = turns]
<1>1. /\ node \in NodeStates /\ node.at = "presenting" /\ node.turns \in Seq(Nat)
      /\ node.turns # <<>> /\ presented \in Seq(Nat)
  BY DEF StateInv, NodeStates, PresentationRecorded
<1>2. turns \in Seq(Nat) /\ Head(node.turns) \in Nat
  BY <1>1
<1>3. node' = r /\ presented' = Append(presented, Head(node.turns))
  BY <1>1 DEF PresentationRecorded, NodeStates
<1> HIDE DEF turns
<1>4. /\ r \in NodeStates /\ r.at = "presenting" /\ r.number = node.number
      /\ r.overtaken = node.overtaken
  BY <1>1, <1>2 DEF NodeStates
<1> HIDE DEF r
<1>5. QED
  BY <1>1, <1>2, <1>3, <1>4

LEMMA OtherCommitsDoes ==
    ASSUME StateInv, OtherClientCommits
    PROVE  /\ Keeps(node.at) /\ UNCHANGED node.speaker /\ node'.overtaken = Expectations
           /\ host' \in HostStates /\ UNCHANGED <<host.used, host.commits, character, director>>
           /\ UNCHANGED lanesVars
           /\ node.at \in {"choosing", "participating", "directing", "acting"}
<1>1. PICK scene \in Scenes : host' = [host EXCEPT !.scene = scene]
  BY DEF OtherClientCommits
<1> DEFINE h == [host EXCEPT !.scene = scene]
           r == [node EXCEPT !.overtaken = Expectations]
<1>2. node \in NodeStates /\ host \in HostStates
  BY DEF StateInv
<1>3. h \in HostStates /\ h.used = host.used /\ h.commits = host.commits
  BY <1>2 DEF HostStates
<1>4. /\ r \in NodeStates /\ r.at = node.at /\ r.number = node.number /\ r.used = node.used
      /\ r.turns = node.turns /\ r.commit = node.commit /\ r.speaker = node.speaker
      /\ r.overtaken = Expectations
  BY <1>2 DEF NodeStates
<1>5. host' = h /\ node' = r
  BY <1>1 DEF OtherClientCommits
<1>6. /\ UNCHANGED <<character, director>> /\ UNCHANGED lanesVars
      /\ node.at \in {"choosing", "participating", "directing", "acting"}
  BY DEF OtherClientCommits
<1> HIDE DEF h, r
<1>7. QED
  BY <1>3, <1>4, <1>5, <1>6 DEF Keeps

\* The librarian's lane may add an audit, and nothing else to the host.
LEMMA LibrarianDoes ==
    ASSUME StateInv, NEW c \in Commits, LibrarianActs(c)
    PROVE  /\ host' \in HostStates /\ host'.used = host.used /\ host'.commits = host.commits
           /\ host'.scene = host.scene /\ UNCHANGED <<node, presented, director, character>>
<1>1. host \in HostStates /\ UNCHANGED <<node, presented, director, character>>
  BY DEF StateInv, LibrarianActs
<1> DEFINE audited == host.audited \cup {c}
           h == [host EXCEPT !.audited = audited]
<1>2. host' = host \/ host' = h
  BY <1>1 DEF LibrarianActs, HostStates
<1>3. audited \in SUBSET Commits
  BY <1>1 DEF HostStates
<1> HIDE DEF audited
<1>4. h \in HostStates /\ h.used = host.used /\ h.commits = host.commits /\ h.scene = host.scene
  BY <1>1, <1>3 DEF HostStates
<1> HIDE DEF h
<1>5. QED
  BY <1>1, <1>2, <1>4
-----------------------------------------------------------------------------
(* Kinds of steps *)

\* What the round was accounted for, nothing of it being under way.
Cleared ==
    \/ node.at \in {"starting", "choosing", "participating", "directing", "completing"}
    \/ node.at = "acting" /\ character.committed = 0 /\ character.at # "thrown"

HostKept ==
    /\ host' \in HostStates /\ host'.used = host.used /\ host'.commits = host.commits
    /\ presented' = presented

Ends ==
    /\ node' \in NodeStates /\ node'.number = node.number
    /\ \/ node'.at \in {"released", "exited"} /\ node'.overtaken = {}
       \/ /\ node'.at = "presenting" /\ node.at \in {"completing", "presenting"}
          /\ node'.overtaken = node.overtaken
    /\ host' = host /\ presented' \in Seq(Nat)

Proceeds ==
    /\ Cleared /\ Keeps(node'.at) /\ HostKept
    /\ node'.at \in {"choosing", "participating", "directing", "acting", "completing"}
    /\ node'.at = "acting" => character'.committed = 0

Rests ==
    /\ Keeps(node.at) /\ node'.speaker = node.speaker /\ HostKept /\ character' = character

Joins ==
    /\ node.at \in Joining /\ Keeps(node'.at) /\ node'.at \in Joining /\ HostKept
    /\ node'.overtaken = node.overtaken

LEMMA RoundKinds ==
    ASSUME StateInv, PhaseInv, RoundNext
    PROVE  \/ Ends \/ Proceeds \/ Rests \/ Joins
           \/ \E designation \in Characters \cup {Nobody} : RoundStarts(designation)
           \/ MoveCommitted \/ CommitAnswerLost \/ PostCommitStarts \/ PlotJoined
<1>1. /\ node \in NodeStates /\ host \in HostStates /\ presented \in Seq(Nat)
  BY DEF StateInv
<1>2. ASSUME host' = host, presented' = presented PROVE HostKept
  BY <1>1, <1>2 DEF HostKept
<1>3. ASSUME Lost("released") \/ Lost("exited"), host' = host, presented' = presented
      PROVE  Ends
  BY <1>1, <1>3 DEF Ends, Lost
<1>4. {"choosing", "presenting", "directing", "joiningLibrarian", "joiningPlot"} \subseteq RoundStages
  BY DEF RoundStages
<1>5. ASSUME node' = node PROVE Keeps(node.at) /\ node'.speaker = node.speaker
  BY <1>1, <1>5 DEF Keeps
<1>6. CASE NodeActs
  <2>1. CASE RoundPrepared
    BY <1>1, <1>2, <1>4, <2>1, GoesKeeps DEF RoundPrepared, Proceeds, Cleared, Keeps
  <2>2. CASE RoundReturns
    BY <1>1, <1>4, <2>2, GoesKeeps DEF RoundReturns, Ends, Keeps
  <2>3. CASE PresentationRecorded
    <3>1. host' = host /\ node.at = "presenting"
      BY <2>3 DEF PresentationRecorded
    <3>2. QED
      BY <2>3, <3>1, PresentationDoes DEF Ends
  <2>4. CASE RoundReleased \/ DirectorThrew \/ CharacterThrew
    <3>1. Throws /\ host' = host /\ presented' = presented
      BY <2>4 DEF RoundReleased, DirectorThrew, CharacterThrew
    <3>2. QED
      BY <1>1, <1>3, <3>1, ThrowsLoses
  <2>5. CASE EligibilityRead
    <3>1. node.at = "choosing" /\ host' = host /\ presented' = presented
      BY <2>5 DEF EligibilityRead
    <3>2. QED
      BY <1>2, <2>5, <3>1, EligibilityReadDoes DEF Proceeds, Cleared, Keeps
  <2>6. CASE ParticipationDirect
    <3>1. node.at = "participating" /\ host' = host /\ presented' = presented
      BY <2>6 DEF ParticipationDirect
    <3>2. QED
      BY <1>2, <2>6, <3>1, ParticipationDirectDoes DEF Proceeds, Cleared, Keeps
  <2>7. CASE ParticipationToDirector
    <3>1. node.at = "participating" /\ host' = host /\ presented' = presented /\ Goes("directing")
      BY <2>7 DEF ParticipationToDirector
    <3>2. QED
      BY <1>1, <1>2, <1>4, <3>1, GoesKeeps DEF Proceeds, Cleared, Keeps
  <2>8. CASE DirectorActs
    <3>1. UNCHANGED <<node, host, presented, character>> /\ node.at = "directing"
      BY <2>8 DEF DirectorActs
    <3>2. QED
      BY <1>2, <1>5, <3>1 DEF Rests
  <2>9. CASE DirectorFailed \/ DirectorEnds \/ CharacterFailedRound
    <3>1. /\ \E reason \in CompletionReasons : Completes(reason)
          /\ Cleared /\ host' = host /\ presented' = presented
      BY <2>9 DEF DirectorFailed, DirectorEnds, CharacterFailedRound, CompletionReasons, Cleared
    <3>2. QED
      BY <1>1, <1>2, <3>1, CompletesKeeps DEF Proceeds, Keeps
  <2>10. CASE DirectorSelects
    <3>1. node.at = "directing" /\ host' = host /\ presented' = presented
      BY <2>10 DEF DirectorSelects
    <3>2. QED
      BY <1>2, <2>10, <3>1, DirectorSelectsDoes DEF Proceeds, Cleared, Keeps
  <2>11. CASE CharacterActs
    <3>1. node.at = "acting" /\ host' = host /\ presented' = presented
      BY <2>11 DEF CharacterActs
    <3>2. QED
      BY <1>2, <2>11, <3>1, CharacterActsDoes DEF Proceeds, Cleared, Keeps
  <2>12. CASE NarratorJoined \/ LibrarianJoined
    <3>1. /\ Goes("joiningLibrarian") \/ Goes("joiningPlot")
          /\ node.at \in Joining /\ host' = host /\ presented' = presented
      BY <2>12 DEF NarratorJoined, LibrarianJoined, Joining
    <3>2. QED
      BY <1>1, <1>2, <1>4, <3>1, GoesKeeps DEF Joins, Keeps, Joining
  <2>13. QED
    BY <1>6, <2>1, <2>2, <2>3, <2>4, <2>5, <2>6, <2>7, <2>8, <2>9, <2>10, <2>11, <2>12
      DEF NodeActs
<1>7. CASE LanesAct
  <2>1. CASE NarratorActs \/ \E c \in Commits : PlotActs(c)
    BY <1>2, <1>5, <2>1 DEF NarratorActs, PlotActs, Rests
  <2>2. ASSUME NEW c \in Commits, LibrarianActs(c) PROVE Rests
    BY <1>5, <2>2, LibrarianDoes DEF Rests, HostKept
  <2>3. QED
    BY <1>7, <2>1, <2>2 DEF LanesAct
<1>8. CASE RoundFaults
  <2>1. CASE OtherClientCommits
    <3>1. presented' = presented
      BY <2>1 DEF OtherClientCommits
    <3>2. QED
      BY <2>1, <3>1, OtherCommitsDoes DEF Rests, HostKept
  <2>2. CASE RoundFails \/ PresentationFails \/ NarrationUnrecorded \/ RuntimeExits
    <3>1. (Throws \/ Exits) /\ host' = host /\ presented' = presented
      BY <2>2 DEF RoundFails, PresentationFails, NarrationUnrecorded, RuntimeExits
    <3>2. QED
      BY <1>1, <1>3, <3>1, ThrowsLoses
  <2>3. ASSUME NEW c \in Commits, PlotRejects(c) PROVE Ends
    <3>1. (Throws \/ Exits) /\ host' = host /\ presented' = presented
      BY <2>3 DEF PlotRejects
    <3>2. QED
      BY <1>1, <1>3, <3>1, ThrowsLoses
  <2>4. QED
    BY <1>8, <2>1, <2>2, <2>3 DEF RoundFaults
<1>9. CASE RuntimeRestarts
  <2>1. Throws /\ host' = host /\ presented' = presented
    BY <1>9 DEF RuntimeRestarts
  <2>2. QED
    BY <1>1, <1>3, <2>1, ThrowsLoses
<1>10. QED
  BY <1>6, <1>7, <1>8, <1>9 DEF RoundNext

-----------------------------------------------------------------------------
(* The state and the account *)

LEMMA LanesTyped ==
    ASSUME StateInv, RoundNext
    PROVE  LanesTypeOK'
<1>1. /\ librarianLane \in [Commits -> LibrarianLaneStates]
      /\ plotLane \in [Commits -> PlotLaneStates]
  BY DEF StateInv, LanesTypeOK
<1>2. ASSUME UNCHANGED lanesVars PROVE LanesTypeOK'
  BY <1>1, <1>2 DEF lanesVars, LanesTypeOK
<1>3. /\ NoLibrarianLane \in LibrarianLaneStates /\ NoPlotLane \in PlotLaneStates
      /\ PlotSettled \in PlotLaneStates
  BY DEF NoLibrarianLane, NoPlotLane, PlotSettled, LibrarianLaneStates, PlotLaneStates,
    LibrarianStages, PlotStages, PlotOperations
<1>4. \A c \in Commits, stage \in LibrarianStages, blocking \in BOOLEAN :
         /\ [librarianLane[c] EXCEPT !.at = stage] \in LibrarianLaneStates
         /\ [librarianLane[c] EXCEPT !.at = stage, !.blocking = blocking] \in LibrarianLaneStates
  BY <1>1 DEF LibrarianLaneStates
<1>5. /\ \A c \in Commits, stage \in PlotStages :
            [plotLane[c] EXCEPT !.at = stage] \in PlotLaneStates
      /\ \A c \in Commits, operation \in PlotOperations :
            [plotLane[c] EXCEPT !.operation = operation, !.at = "operating"] \in PlotLaneStates
  BY <1>1 DEF PlotLaneStates, PlotStages
<1>6. /\ {"preparing", "inferring", "correcting", "finalizing", "settled"} \subseteq LibrarianStages
      /\ {"planning", "operating", "inferring", "correcting", "finalizing", "assessing",
          "settled", "rejected"} \subseteq PlotStages
  BY DEF LibrarianStages, PlotStages
<1>7. ASSUME NEW c \in Commits, NEW from, NEW lane \in LibrarianLaneStates,
             LibrarianMoves(c, from, lane)
      PROVE  LanesTypeOK'
  BY <1>1, <1>7 DEF LibrarianMoves, LanesTypeOK
<1>8. ASSUME NEW c \in Commits, NEW from, NEW lane \in PlotLaneStates, PlotMoves(c, from, lane)
      PROVE  LanesTypeOK'
  BY <1>1, <1>8 DEF PlotMoves, LanesTypeOK
<1>9. ASSUME NEW c, LanesStart(c) PROVE LanesTypeOK'
  <2>1. CASE c \in Commits
    <3> DEFINE asked == [librarianLane[c] EXCEPT !.at = "preparing"]
               planned == [plotLane[c] EXCEPT !.at = "planning"]
    <3>1. asked \in LibrarianLaneStates /\ planned \in PlotLaneStates
      BY <1>4, <1>5, <1>6, <2>1
    <3>2. /\ librarianLane' = [librarianLane EXCEPT ![c] = asked]
          /\ plotLane' = [plotLane EXCEPT ![c] = planned]
      BY <1>9 DEF LanesStart
    <3> HIDE DEF asked, planned
    <3>3. QED
      BY <1>1, <3>1, <3>2 DEF LanesTypeOK
  <2>2. CASE c \notin Commits
    BY <1>1, <1>9, <2>2 DEF LanesStart, LanesTypeOK
  <2>3. QED
    BY <2>1, <2>2
<1>10. ASSUME NEW c, LanesTakenUp(c) PROVE LanesTypeOK'
  BY <1>1, <1>3, <1>10 DEF LanesTakenUp, LanesTypeOK
<1>11. ASSUME Exits PROVE LanesTypeOK'
  BY <1>3, <1>11 DEF Exits, LanesTypeOK
<1>12. ASSUME NEW c \in Commits, LibrarianActs(c) PROVE LanesTypeOK'
  <2>1. ASSUME NEW answer \in LibrarianAnswers(c), LibrarianPrepared(c, answer)
        PROVE  LanesTypeOK'
    <3>1. answer \in {"already_terminal", "no_active_issue", "inference_required"}
      BY DEF LibrarianAnswers
    <3>2. QED
      BY <1>4, <1>6, <1>7, <2>1, <3>1 DEF LibrarianPrepared
  <2>2. CASE LibrarianThinks(c)
    BY <1>4, <1>6, <1>7, <2>2 DEF LibrarianThinks, LibrarianInferred, LibrarianCorrected
  <2>3. ASSUME NEW persisted \in BOOLEAN, LibrarianFinalized(c, persisted) PROVE LanesTypeOK'
    BY <1>4, <1>6, <1>7, <2>3 DEF LibrarianFinalized
  <2>4. CASE LibrarianCallFails(c)
    BY <1>4, <1>6, <1>7, <2>4 DEF LibrarianCallFails
  <2>5. QED
    BY <1>12, <2>1, <2>2, <2>3, <2>4 DEF LibrarianActs
<1>13. \A c \in Commits : PlotGivesUp(c) \in PlotLaneStates
  BY <1>3, <1>5, <1>6 DEF PlotGivesUp
<1>14. ASSUME NEW c \in Commits, PlotActs(c) PROVE LanesTypeOK'
  <2>1. ASSUME NEW operation \in PlotOperations, PlotPlanned(c, operation) PROVE LanesTypeOK'
    BY <1>3, <1>5, <1>6, <1>8, <2>1 DEF PlotPlanned
  <2>2. CASE PlotHasNoWork(c) \/ PlotServed(c) \/ PlotFinalized(c) \/ PlotAssessed(c)
    BY <1>3, <1>5, <1>6, <1>8, <2>2 DEF PlotHasNoWork, PlotServed, PlotFinalized, PlotAssessed
  <2>3. ASSUME NEW accepted \in BOOLEAN, PlotPrepared(c, accepted) PROVE LanesTypeOK'
    BY <1>5, <1>6, <1>8, <1>13, <2>3 DEF PlotPrepared
  <2>4. ASSUME NEW outcome \in InferenceOutcomes, PlotInferred(c, outcome) PROVE LanesTypeOK'
    <3>1. outcome \in {"failed", "malformed", "parsed"}
      BY DEF InferenceOutcomes
    <3>2. QED
      BY <1>5, <1>6, <1>8, <1>13, <2>4, <3>1 DEF PlotInferred
  <2>5. ASSUME NEW outcome \in InferenceOutcomes, PlotCorrected(c, outcome) PROVE LanesTypeOK'
    BY <1>5, <1>6, <1>8, <1>13, <2>5 DEF PlotCorrected
  <2>6. QED
    BY <1>14, <2>1, <2>2, <2>3, <2>4, <2>5 DEF PlotActs, PlotThinks
<1>15. ASSUME NEW c \in Commits, PlotRejects(c) PROVE LanesTypeOK'
  <2>1. [NoPlotLane EXCEPT !.at = "rejected"] \in PlotLaneStates
    BY DEF NoPlotLane, PlotLaneStates, PlotStages, PlotOperations
  <2>2. QED
    BY <1>8, <1>11, <1>15, <2>1 DEF PlotRejects, PlotCallFails
<1>16. CASE NodeActs
  <2>1. CASE PostCommitStarts \/ PlotJoined
    BY <1>9, <1>10, <2>1 DEF PostCommitStarts, PlotJoined
  <2>2. CASE ~(PostCommitStarts \/ PlotJoined)
    BY <1>2, <1>16, <2>2 DEF NodeActs, RoundPrepared, RoundReturns, PresentationRecorded,
      RoundReleased, EligibilityRead, ParticipationDirect, ParticipationToDirector, DirectorActs,
      DirectorFailed, DirectorEnds, DirectorSelects, DirectorThrew, CharacterActs, MoveCommitted,
      CharacterFailedRound, CharacterThrew, NarratorJoined, LibrarianJoined
  <2>3. QED
    BY <2>1, <2>2
<1>17. CASE LanesAct
  BY <1>2, <1>12, <1>14, <1>17 DEF LanesAct, NarratorActs
<1>18. CASE RoundFaults
  <2>1. CASE RuntimeExits
    BY <1>11, <2>1 DEF RuntimeExits
  <2>2. CASE OtherClientCommits \/ RoundFails \/ PresentationFails \/ CommitAnswerLost
             \/ NarrationUnrecorded
    BY <1>2, <2>2 DEF OtherClientCommits, RoundFails, PresentationFails, CommitAnswerLost,
      NarrationUnrecorded
  <2>3. QED
    BY <1>15, <1>18, <2>1, <2>2 DEF RoundFaults
<1>19. CASE RuntimeRestarts \/ \E designation \in Characters \cup {Nobody} : RoundStarts(designation)
  BY <1>2, <1>19 DEF RuntimeRestarts, RoundStarts
<1>20. QED
  BY <1>16, <1>17, <1>18, <1>19 DEF RoundNext

\* Commits are numbered from 1 and know the round they are of.
LEMMA CommitsTyped ==
    ASSUME host \in HostStates
    PROVE  \A c \in DOMAIN host.commits : host.commits[c].round \in Int
<1> DEFINE entries == [round : 1 .. MaxRounds, actor : Characters]
<1>1. host.commits \in Seq(entries)
  BY DEF HostStates
<1>2. \A one \in entries : one.round \in Int
  BY RoundAssumption
<1> HIDE DEF entries
<1>3. \A c \in DOMAIN host.commits : host.commits[c] \in entries
  BY <1>1
<1>4. QED
  BY <1>2, <1>3

LEMMA StateStep ==
    ASSUME StateInv, PhaseInv, SpeakerInv, RoundNext
    PROVE  StateInv'
<1>1. /\ node \in NodeStates /\ host \in HostStates /\ presented \in Seq(Nat)
      /\ node.at \notin {"released", "exited"} => node.number >= 1
      /\ \A c \in DOMAIN host.commits : host.commits[c].round <= node.number
      /\ node.number \in 0 .. MaxRounds /\ MaxRounds \in Nat
  BY RoundAssumption DEF StateInv, NodeStates
<1>2. LanesTypeOK'
  BY LanesTyped
<1>3. CASE Ends
  BY <1>1, <1>2, <1>3 DEF Ends, StateInv
<1>4. CASE Proceeds
  BY <1>1, <1>2, <1>4 DEF Proceeds, Cleared, Keeps, HostKept, StateInv
<1>5. CASE Rests
  BY <1>1, <1>2, <1>5 DEF Rests, Keeps, HostKept, StateInv
<1>6. CASE Joins
  BY <1>1, <1>2, <1>6 DEF Joins, Joining, Keeps, HostKept, StateInv
<1>7. ASSUME NEW designation \in Characters \cup {Nobody}, RoundStarts(designation)
      PROVE  StateInv'
  <2>1. /\ node' \in NodeStates /\ node'.number = node.number + 1
        /\ host' \in HostStates /\ host'.commits = host.commits
    BY <1>1, <1>7, StartsAnew
  <2>2. presented' = presented
    BY <1>7 DEF RoundStarts
  <2>3. \A c \in DOMAIN host.commits : host.commits[c].round \in Int
    BY <1>1, CommitsTyped
  <2>4. QED
    BY <1>1, <1>2, <2>1, <2>2, <2>3 DEF StateInv
<1>8. CASE MoveCommitted \/ CommitAnswerLost
  <2>1. presented' = presented
    BY <1>8 DEF MoveCommitted, CommitAnswerLost
  <2>2. \A c \in DOMAIN host'.commits : host'.commits[c].round <= node.number
    BY <1>1, <1>8, CommitDoes
  <2>3. node' = node /\ host' \in HostStates
    BY <1>8, CommitDoes
  <2>4. QED
    BY <1>1, <1>2, <2>1, <2>2, <2>3 DEF StateInv
<1>9. CASE PostCommitStarts
  <2>1. presented' = presented /\ node.at = "acting"
    BY <1>9 DEF PostCommitStarts
  <2>2. QED
    BY <1>1, <1>2, <1>9, <2>1, PostCommitDoes DEF StateInv
<1>10. CASE PlotJoined
  <2>1. presented' = presented /\ node.at = "joiningPlot"
    BY <1>10 DEF PlotJoined
  <2>2. QED
    BY <1>1, <1>2, <1>10, <2>1, PlotJoinedDoes DEF StateInv
<1>11. QED
  BY <1>3, <1>4, <1>5, <1>6, <1>7, <1>8, <1>9, <1>10, RoundKinds

\* The account stays what it was while the round and the host keep what it is of.
LEMMA AccountKept ==
    ASSUME node'.number = node.number, node'.turns = node.turns,
           host'.used = host.used, host'.commits = host.commits,
           NEW used, NEW c, Accounts(used, c)
    PROVE  Accounts(used, c)'
BY DEF Accounts, Entries, CommitsOf, InOrder

\* A turn is taken up: it is the last one the host committed.
LEMMA TakenUp ==
    ASSUME NEW turns \in Seq(Nat), NEW commits \in SUBSET Nat, NEW c \in commits,
           Entries(turns) = commits \ {c}, InOrder(turns),
           \A d \in commits : d <= c
    PROVE  Entries(Append(turns, c)) = commits /\ InOrder(Append(turns, c))
<1> DEFINE longer == Append(turns, c)
           n == Len(turns) + 1
<1>1. /\ Len(longer) = n /\ longer[n] = c /\ n \in Nat /\ DOMAIN turns = 1 .. Len(turns)
      /\ DOMAIN longer = 1 .. n
      /\ \A i \in DOMAIN turns : longer[i] = turns[i]
  OBVIOUS
<1>2. DOMAIN longer = DOMAIN turns \cup {n}
  BY <1>1
<1> HIDE DEF longer, n
<1>3. Entries(longer) = Entries(turns) \cup {c}
  <2>1. Entries(longer) \subseteq Entries(turns) \cup {c}
    BY <1>1, <1>2 DEF Entries
  <2>2. ASSUME NEW d \in Entries(turns) PROVE d \in Entries(longer)
    <3>1. PICK i \in DOMAIN turns : d = turns[i]
      BY DEF Entries
    <3>2. i \in DOMAIN longer /\ d = longer[i]
      BY <1>1, <1>2, <3>1
    <3>3. QED
      BY <3>2 DEF Entries
  <2>3. c \in Entries(longer)
    BY <1>1, <1>2 DEF Entries
  <2>4. QED
    BY <2>1, <2>2, <2>3
<1>4. \A i \in DOMAIN turns : turns[i] \in commits /\ turns[i] # c /\ turns[i] \in Nat
  BY DEF Entries
<1>5. \A i \in DOMAIN turns : turns[i] < c
  BY <1>4
<1>6. InOrder(longer)
  <2>1. SUFFICES ASSUME NEW i \in DOMAIN longer, NEW j \in DOMAIN longer, i < j
                 PROVE  longer[i] < longer[j]
    BY DEF InOrder
  <2>2. i \in DOMAIN turns
    BY <1>1, <1>2, <2>1
  <2>3. CASE j \in DOMAIN turns
    BY <1>1, <2>1, <2>2, <2>3 DEF InOrder
  <2>4. CASE j = n
    BY <1>1, <1>5, <2>2, <2>4
  <2>5. QED
    BY <1>2, <2>3, <2>4
<1>7. QED
  BY <1>3, <1>6 DEF longer

LEMMA AccountStep ==
    ASSUME StateInv, PhaseInv, SpeakerInv, AccountInv, RoundNext
    PROVE  AccountInv'
<1>1. /\ node \in NodeStates /\ host \in HostStates
      /\ \A c \in DOMAIN host.commits : host.commits[c].round <= node.number
      /\ node.number \in Nat /\ Len(host.commits) \in Nat
      /\ DOMAIN host.commits = 1 .. Len(host.commits) /\ node.turns \in Seq(Nat)
  BY RoundAssumption DEF StateInv, NodeStates, HostStates
<1>2. CASE Ends
  BY <1>2 DEF Ends, AccountInv, Joining
<1>3. CASE Proceeds
  <2>1. /\ Accounts(node.used, 0) /\ node'.used = node.used
        /\ node'.number = node.number /\ node'.turns = node.turns
        /\ host'.used = host.used /\ host'.commits = host.commits
    BY <1>3 DEF Proceeds, Cleared, AccountInv, Keeps, HostKept
  <2>2. Accounts(node.used, 0)'
    BY <2>1, AccountKept
  <2>3. QED
    BY <1>3, <2>1, <2>2 DEF Proceeds, AccountInv, Joining
<1>4. CASE Rests
  <2>1. /\ node'.used = node.used /\ node'.number = node.number /\ node'.turns = node.turns
        /\ host'.used = host.used /\ host'.commits = host.commits
        /\ node'.at = node.at /\ node'.commit = node.commit /\ node'.speaker = node.speaker
        /\ character' = character
    BY <1>4 DEF Rests, Keeps, HostKept
  <2>2. QED
    BY <2>1 DEF AccountInv, Accounts, Entries, InOrder, CommitsOf
<1>5. CASE Joins
  <2>1. /\ node'.used = node.used /\ node'.number = node.number /\ node'.turns = node.turns
        /\ host'.used = host.used /\ host'.commits = host.commits
        /\ node'.at \in Joining /\ node'.commit = node.commit /\ node.at \in Joining
    BY <1>5 DEF Joins, Keeps, HostKept
  <2>2. QED
    BY <2>1 DEF AccountInv, Accounts, Entries, InOrder, CommitsOf, Joining
<1>6. ASSUME NEW designation \in Characters \cup {Nobody}, RoundStarts(designation)
      PROVE  AccountInv'
  <2>1. /\ node'.at = "starting" /\ node'.number = node.number + 1
        /\ node'.used = {} /\ node'.turns = <<>>
        /\ host'.used = {} /\ host'.commits = host.commits
    BY <1>1, <1>6, StartsAnew
  <2>2. \A c \in DOMAIN host.commits : host.commits[c].round \in Int
    BY <1>1, CommitsTyped
  <2>3. CommitsOf(node.number)' = {}
    BY <1>1, <2>1, <2>2 DEF CommitsOf
  <2>4. Accounts(node.used, 0)'
    BY <2>1, <2>3 DEF Accounts, Entries, InOrder
  <2>5. QED
    BY <2>1, <2>4 DEF AccountInv, Joining
<1>7. CASE MoveCommitted \/ CommitAnswerLost
  <2>1. /\ node.at = "acting" /\ node' = node
        /\ character.committed = 0 /\ character.at # "thrown"
        /\ host'.used = host.used \cup {node.speaker}
        /\ \A c \in DOMAIN host.commits :
              c \in DOMAIN host'.commits /\ host'.commits[c] = host.commits[c]
        /\ \A c \in DOMAIN host'.commits : c \in DOMAIN host.commits \/ c = Len(host'.commits)
        /\ Len(host'.commits) \in DOMAIN host'.commits \ DOMAIN host.commits
        /\ host'.commits[Len(host'.commits)].round = node.number
        /\ Len(host'.commits) = Len(host.commits) + 1
    BY <1>7, CommitDoes
  <2>2. Accounts(node.used, 0)
    BY <2>1 DEF AccountInv
  <2>3. CommitsOf(node.number)' \ {Len(host'.commits)} = CommitsOf(node.number)
    BY <2>1 DEF CommitsOf
  <2>4. Len(host'.commits) \in CommitsOf(node.number)'
    BY <2>1 DEF CommitsOf
  <2>5. 0 \notin CommitsOf(node.number)
    BY <1>1 DEF CommitsOf
  <2>6. Accounts(node.used \cup {node.speaker}, Len(host.commits))'
    BY <2>1, <2>2, <2>3, <2>5 DEF Accounts, Entries, InOrder
  <2>7. CASE MoveCommitted
    <3>1. character'.committed # 0
      BY <2>7, CommitDoes
    <3>2. QED
      BY <2>1, <2>4, <2>6, <3>1 DEF AccountInv, Joining
  <2>8. CASE CommitAnswerLost
    <3>1. character'.committed = 0 /\ character'.at = "thrown"
      BY <2>8, CommitDoes
    <3>2. QED
      BY <2>1, <3>1 DEF AccountInv, Joining
  <2>9. QED
    BY <1>7, <2>7, <2>8
<1>8. CASE PostCommitStarts
  <2>1. /\ node'.at = "joiningNarrator" /\ node'.number = node.number
        /\ node'.used = node.used \cup {node.speaker}
        /\ node'.turns = node.turns /\ node'.commit = Len(host.commits) /\ host' = host
    BY <1>8, PostCommitDoes
  <2>2. /\ Accounts(node.used \cup {node.speaker}, Len(host.commits))
        /\ Len(host.commits) \in CommitsOf(node.number)
    BY <1>8 DEF PostCommitStarts, AccountInv
  <2>3. Accounts(node.used, node.commit)'
    BY <2>1, <2>2 DEF Accounts, Entries, InOrder, CommitsOf
  <2>4. node'.commit = Len(host'.commits) /\ node'.commit \in CommitsOf(node.number)'
    BY <2>1, <2>2 DEF CommitsOf
  <2>5. QED
    BY <2>1, <2>3, <2>4 DEF AccountInv, Joining
<1>9. CASE PlotJoined
  <2>1. /\ node'.at \in {"choosing", "completing"} /\ node'.number = node.number
        /\ node'.used = node.used /\ node'.turns = Append(node.turns, node.commit) /\ host' = host
    BY <1>9, PlotJoinedDoes
  <2>2. /\ Accounts(node.used, node.commit)
        /\ node.commit = Len(host.commits) /\ node.commit \in CommitsOf(node.number)
    BY <1>9 DEF PlotJoined, AccountInv, Joining
  <2>3. /\ CommitsOf(node.number) \in SUBSET Nat
        /\ \A d \in CommitsOf(node.number) : d <= node.commit
        /\ 0 \notin CommitsOf(node.number)
    BY <1>1, <2>2 DEF CommitsOf
  <2>4. /\ Entries(node'.turns) = CommitsOf(node.number) /\ InOrder(node'.turns)
    BY <1>1, <2>1, <2>2, <2>3, TakenUp DEF Accounts
  <2>5. CommitsOf(node.number)' = CommitsOf(node.number) /\ host'.used = host.used
    BY <2>1 DEF CommitsOf
  <2>6. host.used = node.used
    BY <2>2 DEF Accounts
  <2>7. Entries(node.turns)' = CommitsOf(node.number)' \ {0} /\ InOrder(node.turns)'
    BY <2>3, <2>4, <2>5 DEF Entries, InOrder
  <2>8. Accounts(node.used, 0)'
    BY <2>1, <2>5, <2>6, <2>7 DEF Accounts
  <2>9. QED
    BY <2>1, <2>8 DEF AccountInv, Joining
<1>10. QED
  BY <1>2, <1>3, <1>4, <1>5, <1>6, <1>7, <1>8, <1>9, RoundKinds
-----------------------------------------------------------------------------
(* Speakers *)

\* The eligible characters are those of the host's scene and used actors.
LEMMA EligibleKept ==
    ASSUME host'.scene = host.scene, host'.used = host.used
    PROVE  Eligible' = Eligible
BY DEF Eligible

\* Only a commit adds to the commits, and it is the speaker's.
LEMMA CommitsKept ==
    ASSUME StateInv, PhaseInv, RoundNext, ~MoveCommitted, ~CommitAnswerLost
    PROVE  host'.commits = host.commits
<1>1. node \in NodeStates /\ host \in HostStates
  BY DEF StateInv
<1>2. ASSUME NEW designation \in Characters \cup {Nobody}, RoundStarts(designation)
      PROVE  host'.commits = host.commits
  BY <1>1, <1>2, StartsAnew
<1>3. CASE PostCommitStarts \/ PlotJoined
  BY <1>3 DEF PostCommitStarts, PlotJoined
<1>4. CASE Ends \/ Proceeds \/ Rests \/ Joins
  BY <1>4 DEF Ends, Proceeds, Rests, Joins, HostKept
<1>5. QED
  BY <1>2, <1>3, <1>4, RoundKinds

LEMMA NobodyStep ==
    ASSUME StateInv, PhaseInv, NobodySpeaksTwice, SpeakerInv, RoundNext
    PROVE  NobodySpeaksTwice'
<1>1. CASE MoveCommitted \/ CommitAnswerLost
  <2>1. /\ \A c \in DOMAIN host.commits :
              c \in DOMAIN host'.commits /\ host'.commits[c] = host.commits[c]
        /\ \A c \in DOMAIN host'.commits : c \in DOMAIN host.commits \/ c = Len(host'.commits)
        /\ host'.commits[Len(host'.commits)].round = node.number
        /\ host'.commits[Len(host'.commits)].actor = node.speaker
        /\ node.at = "acting" /\ character.committed = 0 /\ character.at # "thrown"
    BY <1>1, CommitDoes
  <2>2. \A c \in DOMAIN host.commits :
           host.commits[c].round = node.number => host.commits[c].actor # node.speaker
    BY <2>1 DEF SpeakerInv, CommitsOf
  <2>3. SUFFICES ASSUME NEW i \in DOMAIN host'.commits, NEW j \in DOMAIN host'.commits, i < j,
                        host'.commits[i].round = host'.commits[j].round
                 PROVE  host'.commits[i].actor # host'.commits[j].actor
    BY DEF NobodySpeaksTwice
  <2>4. i # j
    <3>1. i \in Int
      <4>1. host' \in HostStates
        BY <1>1, CommitDoes
      <4>2. DOMAIN host'.commits \subseteq Int
        BY <4>1 DEF HostStates
      <4>3. QED
        BY <4>2
    <3>2. QED
      BY <2>3, <3>1
  <2>5. CASE i \in DOMAIN host.commits /\ j \in DOMAIN host.commits
    BY <2>1, <2>3, <2>5 DEF NobodySpeaksTwice
  <2>6. CASE i \in DOMAIN host.commits /\ j = Len(host'.commits)
    BY <2>1, <2>2, <2>3, <2>6
  <2>7. CASE j \in DOMAIN host.commits /\ i = Len(host'.commits)
    BY <2>1, <2>2, <2>3, <2>7
  <2>8. QED
    BY <2>1, <2>4, <2>5, <2>6, <2>7
<1>2. CASE ~MoveCommitted /\ ~CommitAnswerLost
  BY <1>2, CommitsKept DEF NobodySpeaksTwice
<1>3. QED
  BY <1>1, <1>2
\* The actors of the round's commits are those the host has used.
ActorsUsed ==
    \A c \in CommitsOf(node.number) :
        node.at \notin {"released", "exited"} => host.commits[c].actor \in host.used

LEMMA ActorsStep ==
    ASSUME StateInv, PhaseInv, SpeakerInv, RoundNext
    PROVE  ActorsUsed'
<1>1. ActorsUsed /\ node \in NodeStates /\ host \in HostStates
  BY DEF SpeakerInv, ActorsUsed, StateInv
<1>2. CASE Ends
  BY <1>1, <1>2 DEF Ends, ActorsUsed, CommitsOf
<1>3. CASE Proceeds
  <2>1. /\ node'.number = node.number /\ host'.used = host.used /\ host'.commits = host.commits
        /\ node.at \notin {"released", "exited"}
    BY <1>3 DEF Proceeds, Cleared, Keeps, HostKept
  <2>2. QED
    BY <1>1, <2>1 DEF ActorsUsed, CommitsOf
<1>4. CASE Rests
  <2>1. /\ node'.number = node.number /\ host'.used = host.used /\ host'.commits = host.commits
        /\ node'.at = node.at
    BY <1>4 DEF Rests, Keeps, HostKept
  <2>2. QED
    BY <1>1, <2>1 DEF ActorsUsed, CommitsOf
<1>5. CASE Joins
  <2>1. /\ node'.number = node.number /\ host'.used = host.used /\ host'.commits = host.commits
        /\ node.at \notin {"released", "exited"}
    BY <1>5 DEF Joins, Joining, Keeps, HostKept
  <2>2. QED
    BY <1>1, <2>1 DEF ActorsUsed, CommitsOf
<1>6. ASSUME NEW designation \in Characters \cup {Nobody}, RoundStarts(designation)
      PROVE  ActorsUsed'
  <2>1. node'.number = node.number + 1 /\ host'.commits = host.commits
    BY <1>1, <1>6, StartsAnew
  <2>2. \A c \in DOMAIN host.commits : host.commits[c].round \in Int
    BY <1>1, CommitsTyped
  <2>3. /\ \A c \in DOMAIN host.commits : host.commits[c].round <= node.number
        /\ node.number \in Int
    BY <1>1, RoundAssumption DEF StateInv, NodeStates
  <2>4. CommitsOf(node.number)' = {}
    BY <2>1, <2>2, <2>3 DEF CommitsOf
  <2>5. QED
    BY <2>4 DEF ActorsUsed
<1>7. CASE MoveCommitted \/ CommitAnswerLost
  <2>1. /\ \A c \in DOMAIN host.commits :
              c \in DOMAIN host'.commits /\ host'.commits[c] = host.commits[c]
        /\ \A c \in DOMAIN host'.commits : c \in DOMAIN host.commits \/ c = Len(host'.commits)
        /\ host'.commits[Len(host'.commits)].actor = node.speaker
        /\ node.at = "acting" /\ node' = node
        /\ host'.used = host.used \cup {node.speaker}
    BY <1>7, CommitDoes
  <2>2. QED
    BY <1>1, <2>1 DEF ActorsUsed, CommitsOf
<1>8. CASE PostCommitStarts
  <2>1. node'.number = node.number /\ host' = host /\ node.at = "acting"
    BY <1>8, PostCommitDoes DEF PostCommitStarts
  <2>2. QED
    BY <1>1, <2>1 DEF ActorsUsed, CommitsOf
<1>9. CASE PlotJoined
  <2>1. node'.number = node.number /\ host' = host /\ node.at = "joiningPlot"
    BY <1>9, PlotJoinedDoes DEF PlotJoined
  <2>2. QED
    BY <1>1, <2>1 DEF ActorsUsed, CommitsOf
<1>10. QED
  BY <1>2, <1>3, <1>4, <1>5, <1>6, <1>7, <1>8, <1>9, RoundKinds

\* The steps that only leave the speaker alone: nobody is being chosen or heard after
\* them, and another client's turn is forgotten or known as before.
LEMMA SpeakerLeft ==
    ASSUME StateInv, PhaseInv, SpeakerInv,
           \/ RoundPrepared \/ RoundReturns \/ PresentationRecorded \/ RoundReleased
           \/ EligibilityRead \/ DirectorFailed \/ DirectorEnds \/ DirectorThrew
           \/ CharacterFailedRound \/ CharacterThrew \/ PostCommitStarts \/ NarratorJoined
           \/ LibrarianJoined \/ PlotJoined \/ RoundFails \/ PresentationFails
           \/ NarrationUnrecorded \/ RuntimeExits \/ RuntimeRestarts
           \/ \E designation \in Characters \cup {Nobody} : RoundStarts(designation)
           \/ \E c \in Commits : PlotRejects(c) /\ (Throws \/ Exits)
    PROVE  node'.at \notin {"directing", "acting"} /\ node'.overtaken \in {{}, node.overtaken}
<1>1. /\ node \in NodeStates /\ host \in HostStates
      /\ {"choosing", "presenting", "joiningLibrarian", "joiningPlot"} \subseteq RoundStages
  BY DEF StateInv, RoundStages
<1>2. CASE RoundPrepared \/ RoundReturns \/ NarratorJoined \/ LibrarianJoined
  BY <1>1, <1>2, GoesKeeps DEF RoundPrepared, RoundReturns, NarratorJoined, LibrarianJoined, Keeps
<1>3. CASE PresentationRecorded
  BY <1>3, PresentationDoes
<1>4. CASE \/ RoundReleased \/ DirectorThrew \/ CharacterThrew \/ RoundFails \/ PresentationFails
           \/ NarrationUnrecorded \/ RuntimeExits \/ RuntimeRestarts
           \/ \E c \in Commits : PlotRejects(c) /\ (Throws \/ Exits)
  <2>1. Throws \/ Exits
    BY <1>4 DEF RoundReleased, DirectorThrew, CharacterThrew, RoundFails, PresentationFails,
      NarrationUnrecorded, RuntimeExits, RuntimeRestarts
  <2>2. QED
    BY <1>1, <2>1, ThrowsLoses DEF Lost
<1>5. CASE EligibilityRead
  BY <1>5, EligibilityReadDoes DEF Keeps
<1>6. CASE DirectorFailed \/ DirectorEnds \/ CharacterFailedRound
  <2>1. \E reason \in CompletionReasons : Completes(reason)
    BY <1>6 DEF DirectorFailed, DirectorEnds, CharacterFailedRound, CompletionReasons
  <2>2. QED
    BY <1>1, <2>1, CompletesKeeps DEF Keeps
<1>7. CASE PostCommitStarts
  BY <1>7, PostCommitDoes
<1>8. CASE PlotJoined
  BY <1>8, PlotJoinedDoes
<1>9. CASE \E designation \in Characters \cup {Nobody} : RoundStarts(designation)
  BY <1>1, <1>9, StartsAnew
<1>10. QED
  BY <1>2, <1>3, <1>4, <1>5, <1>6, <1>7, <1>8, <1>9

LEMMA SpeakerStep ==
    ASSUME StateInv, PhaseInv, SpeakerInv, RoundNext
    PROVE  SpeakerInv'
<1>1. ActorsUsed'
  BY ActorsStep
<1>2. /\ node \in NodeStates /\ host \in HostStates
      /\ "anchor" \in node.overtaken => "eligibility" \in node.overtaken
      /\ Eligible \subseteq Characters \ host.used /\ EndRound \notin Characters
  BY EligibleSpeakers, EndRoundAssumption DEF StateInv, SpeakerInv
<1>3. ASSUME node'.at \notin {"directing", "acting"}, node'.overtaken \in {{}, node.overtaken}
      PROVE  SpeakerInv'
  BY <1>1, <1>2, <1>3 DEF SpeakerInv, ActorsUsed
<1>4. ASSUME UNCHANGED <<node, host.scene, host.used, director, character>> PROVE SpeakerInv'
  <2>1. Eligible' = Eligible /\ Silent' = Silent
    BY <1>4, EligibleKept DEF Silent
  <2>2. QED
    BY <1>1, <1>4, <2>1 DEF SpeakerInv, ActorsUsed, SoundSelection
<1>5. CASE ParticipationDirect
  <2>1. /\ node'.at = "acting" /\ node'.speaker \in Eligible
        /\ node'.overtaken = node.overtaken \ {"anchor"}
    BY <1>5, ParticipationDirectDoes DEF Keeps
  <2>2. host' = host /\ Eligible' = Eligible
    BY <1>5, EligibleKept DEF ParticipationDirect
  <2>3. QED
    BY <1>1, <1>2, <2>1, <2>2 DEF SpeakerInv, ActorsUsed
<1>6. CASE ParticipationToDirector
  <2>1. node'.at = "directing" /\ node'.overtaken = node.overtaken
    BY <1>2, <1>6, GoesKeeps DEF ParticipationToDirector, Keeps, RoundStages
  <2>2. director' = Selecting(node.offered) /\ node.offered \in SUBSET Characters
    BY <1>2, <1>6 DEF ParticipationToDirector, DirectorEnters, NodeStates
  <2>3. \A good : SoundSelection(director', good)
    BY <2>2, SelectionStarts
  <2>4. SoundSelection(director', Silent') /\ SoundSelection(director', Eligible' \cup {EndRound})
    BY <2>3
  <2>5. QED
    BY <1>1, <1>2, <2>1, <2>4 DEF SpeakerInv, ActorsUsed, SoundSelection
<1>7. CASE DirectorActs
  <2>1. /\ node.at = "directing" /\ UNCHANGED <<node, host>>
        /\ DirectorStep(Eligible) \/ DirectorThrows
    BY <1>7 DEF DirectorActs
  <2>2. Eligible' = Eligible /\ Silent' = Silent
    BY <2>1, EligibleKept DEF Silent
  <2>3. SoundSelection(director', Silent)
    <3>1. Eligible \subseteq Silent /\ EndRound \in Silent /\ SoundSelection(director, Silent)
      BY <1>2, <2>1 DEF Silent, SpeakerInv
    <3>2. QED
      BY <2>1, <3>1, SelectionStep, SelectionThrows
  <2>4. ASSUME node.overtaken = {} PROVE SoundSelection(director', Eligible \cup {EndRound})
    <3>1. /\ Eligible \subseteq Eligible \cup {EndRound} /\ EndRound \in Eligible \cup {EndRound}
          /\ SoundSelection(director, Eligible \cup {EndRound})
      BY <2>1, <2>4 DEF SpeakerInv
    <3>2. QED
      BY <2>1, <3>1, SelectionStep, SelectionThrows
  <2>5. QED
    BY <1>1, <1>2, <2>1, <2>2, <2>3, <2>4 DEF SpeakerInv, ActorsUsed, SoundSelection
<1>8. CASE DirectorSelects
  <2>1. /\ node'.at = "acting" /\ node'.speaker = DirectorDecision
        /\ DirectorDecision \in Characters
        /\ node'.overtaken = node.overtaken \ {"anchor"}
    BY <1>8, DirectorSelectsDoes DEF Keeps
  <2>2. /\ node.at = "directing" /\ host' = host
        /\ director.at = "over" /\ director.chosen # 0
    BY <1>8 DEF DirectorSelects, DirectorAccepted
  <2>3. Eligible' = Eligible
    BY <2>2, EligibleKept
  <2>4. DirectorDecision \notin host.used
    BY <1>2, <2>1, <2>2 DEF SpeakerInv, SoundSelection, Silent, DirectorDecision
  <2>5. node.overtaken = {} => DirectorDecision \in Eligible
    BY <1>2, <2>1, <2>2 DEF SpeakerInv, SoundSelection, DirectorDecision
  <2>6. QED
    BY <1>1, <1>2, <2>1, <2>2, <2>3, <2>4, <2>5 DEF SpeakerInv, ActorsUsed
<1>9. CASE CharacterActs
  <2>1. /\ node'.at = "acting" /\ node'.speaker = node.speaker
        /\ node'.overtaken \in {node.overtaken, node.overtaken \ {"anchor"}}
        /\ character.committed = 0 /\ character.at # "thrown"
    BY <1>9, CharacterActsDoes DEF Keeps
  <2>2. node.at = "acting" /\ host' = host /\ Eligible' = Eligible
    BY <1>9, EligibleKept DEF CharacterActs
  <2>3. QED
    BY <1>1, <1>2, <2>1, <2>2 DEF SpeakerInv, ActorsUsed
<1>10. CASE MoveCommitted \/ CommitAnswerLost
  <2>1. /\ node.at = "acting" /\ node' = node
        /\ character'.committed # 0 \/ character'.at = "thrown"
    BY <1>10, CommitDoes
  <2>2. QED
    BY <1>1, <1>2, <2>1 DEF SpeakerInv, ActorsUsed
<1>11. CASE OtherClientCommits
  <2>1. /\ node'.at = node.at /\ node'.speaker = node.speaker /\ node'.overtaken = Expectations
        /\ host'.used = host.used /\ UNCHANGED <<director, character>>
    BY <1>11, OtherCommitsDoes DEF Keeps
  <2>2. Silent' = Silent /\ node'.overtaken # {} /\ "eligibility" \in node'.overtaken
    BY <2>1 DEF Silent, Expectations
  <2>3. QED
    BY <1>1, <1>2, <2>1, <2>2 DEF SpeakerInv, ActorsUsed, SoundSelection
<1>12. CASE LanesAct
  <2>1. ASSUME NEW c \in Commits, LibrarianActs(c) PROVE SpeakerInv'
    <3>1. /\ host'.used = host.used /\ host'.scene = host.scene
          /\ UNCHANGED <<node, presented, director, character>>
      BY <2>1, LibrarianDoes
    <3>2. QED
      BY <1>4, <3>1
  <2>2. CASE NarratorActs \/ \E c \in Commits : PlotActs(c)
    BY <1>4, <2>2 DEF NarratorActs, PlotActs
  <2>3. QED
    BY <1>12, <2>1, <2>2 DEF LanesAct
<1>13. ASSUME NEW c \in Commits, PlotRejects(c) PROVE Throws \/ Exits
  BY <1>13 DEF PlotRejects
<1>14. QED
  BY <1>3, <1>5, <1>6, <1>7, <1>8, <1>9, <1>10, <1>11, <1>12, <1>13, SpeakerLeft
    DEF RoundNext, NodeActs, RoundFaults

-----------------------------------------------------------------------------
(* Lanes *)

\* No lane starts to run, and one that settled stays so.
LanesKept ==
    /\ LanesRunning' \subseteq LanesRunning
    /\ \A c \in Commits : librarianLane[c].at = "settled" => librarianLane'[c].at = "settled"

LEMMA LanesWait ==
    ASSUME UNCHANGED lanesVars
    PROVE  LanesKept
BY DEF lanesVars, LanesKept, LanesRunning

LEMMA LibrarianLaneKept ==
    ASSUME StateInv, NEW c \in Commits, LibrarianActs(c)
    PROVE  LanesKept
<1>1. librarianLane \in [Commits -> LibrarianLaneStates]
  BY DEF StateInv, LanesTypeOK
<1>2. ASSUME NEW from, NEW lane, from \notin Ended, LibrarianMoves(c, from, lane) PROVE LanesKept
  BY <1>1, <1>2 DEF LibrarianMoves, LanesKept, LanesRunning, Ended
<1>3. {"preparing", "inferring", "correcting", "finalizing"} \cap Ended = {}
  BY DEF Ended
<1>4. QED
  BY <1>2, <1>3 DEF LibrarianActs, LibrarianPrepared, LibrarianThinks, LibrarianInferred,
    LibrarianCorrected, LibrarianFinalized, LibrarianCallFails

LEMMA PlotMovesKeep ==
    ASSUME StateInv, NEW c \in Commits, NEW from, NEW lane, from \notin Ended,
           PlotMoves(c, from, lane)
    PROVE  LanesKept
<1>1. plotLane \in [Commits -> PlotLaneStates]
  BY DEF StateInv, LanesTypeOK
<1>2. QED
  BY <1>1 DEF PlotMoves, LanesKept, LanesRunning, Ended

LEMMA PlotLaneKept ==
    ASSUME StateInv, NEW c \in Commits, PlotActs(c) \/ PlotCallFails(c)
    PROVE  LanesKept
<1>1. {"planning", "operating", "inferring", "correcting", "finalizing", "assessing"}
        \cap Ended = {}
  BY DEF Ended
<1>2. QED
  BY <1>1, PlotMovesKeep DEF PlotActs, PlotPlanned, PlotHasNoWork, PlotServed, PlotPrepared,
    PlotFinalized, PlotThinks, PlotInferred, PlotCorrected, PlotAssessed, PlotCallFails

\* When the process ends, nothing runs.
LEMMA LanesDie ==
    ASSUME Exits
    PROVE  LanesRunning' = {}
BY DEF Exits, LanesRunning, NoLibrarianLane, NoPlotLane, Ended

LEMMA LaneStep ==
    ASSUME StateInv, PhaseInv, SpeakerInv, AccountInv, LaneInv, RoundNext
    PROVE  LaneInv'
<1>1. /\ node \in NodeStates /\ host \in HostStates
      /\ librarianLane \in [Commits -> LibrarianLaneStates]
      /\ plotLane \in [Commits -> PlotLaneStates]
  BY DEF StateInv, LanesTypeOK
<1>2. /\ \A c \in LanesRunning :
            /\ c \in DOMAIN host.commits
            /\ c \in CommitsOf(node.number) =>
                  node.at \in {"released", "exited"} \/ (node.at \in Joining /\ c = node.commit)
      /\ node.at = "joiningPlot" /\ node.commit \in Commits =>
            librarianLane[node.commit].at = "settled"
  BY DEF LaneInv
<1>3. ASSUME Throws, host' = host, LanesKept PROVE LaneInv'
  <2>1. node'.at = "released"
    BY <1>1, <1>3, ThrowsLoses DEF Lost
  <2>2. QED
    BY <1>2, <1>3, <2>1 DEF LanesKept, LaneInv
<1>4. ASSUME Exits PROVE LaneInv'
  <2>1. node'.at = "exited"
    BY <1>1, <1>4, ThrowsLoses DEF Lost
  <2>2. QED
    BY <1>4, <2>1, LanesDie DEF LaneInv
<1>5. CASE /\ NodeActs /\ ~PostCommitStarts /\ ~PlotJoined /\ ~CommitAnswerLost
           /\ ~\E designation \in Characters \cup {Nobody} : RoundStarts(designation)
  <2>1. UNCHANGED lanesVars
    BY <1>5 DEF NodeActs, RoundPrepared, RoundReturns, PresentationRecorded,
      RoundReleased, EligibilityRead, ParticipationDirect, ParticipationToDirector, DirectorActs,
      DirectorFailed, DirectorEnds, DirectorSelects, DirectorThrew, CharacterActs, MoveCommitted,
      CharacterFailedRound, CharacterThrew, NarratorJoined, LibrarianJoined
  <2>2. LanesKept
    BY <2>1, LanesWait
  <2>3. CASE Ends
    BY <1>2, <2>2, <2>3 DEF Ends, LanesKept, LaneInv, CommitsOf, Joining
  <2>4. CASE Proceeds
    <3>1. /\ host'.commits = host.commits /\ node'.number = node.number
          /\ node.at \notin {"released", "exited"} /\ node.at \notin Joining
          /\ node'.at # "joiningPlot"
      BY <2>4 DEF Proceeds, Cleared, Keeps, HostKept, Joining
    <3>2. QED
      BY <1>2, <2>2, <3>1 DEF LanesKept, LaneInv, CommitsOf
  <2>5. CASE Rests
    <3>1. /\ host'.commits = host.commits /\ node'.number = node.number
          /\ node'.at = node.at /\ node'.commit = node.commit
      BY <2>5 DEF Rests, Keeps, HostKept
    <3>2. QED
      BY <1>2, <2>2, <3>1 DEF LanesKept, LaneInv, CommitsOf
  <2>6. CASE NarratorJoined \/ LibrarianJoined
    <3>1. /\ host' = host /\ node.at \in Joining /\ {"joiningLibrarian", "joiningPlot"} \subseteq RoundStages
          /\ \/ Goes("joiningLibrarian")
             \/ Goes("joiningPlot") /\ librarianLane[node.commit].at = "settled"
      BY <2>6 DEF NarratorJoined, LibrarianJoined, Joining, RoundStages
    <3>2. /\ node'.number = node.number /\ node'.commit = node.commit /\ node'.at \in Joining
          /\ node'.at = "joiningPlot" => librarianLane[node.commit].at = "settled"
      BY <1>1, <3>1, GoesKeeps DEF Keeps, Joining
    <3>3. QED
      BY <1>2, <2>2, <3>1, <3>2 DEF LanesKept, LaneInv, CommitsOf, Joining
  <2>7. CASE MoveCommitted
    <3>1. /\ node.at = "acting" /\ node' = node
          /\ \A c \in DOMAIN host.commits :
                c \in DOMAIN host'.commits /\ host'.commits[c] = host.commits[c]
      BY <2>7, CommitDoes
    <3>2. QED
      BY <1>2, <2>2, <3>1 DEF LanesKept, LaneInv, CommitsOf, Joining
  <2>8. Joins => NarratorJoined \/ LibrarianJoined
    BY <1>5 DEF Joins, Joining, NodeActs, RoundPrepared, RoundReturns, PresentationRecorded,
      RoundReleased, EligibilityRead, ParticipationDirect, ParticipationToDirector, DirectorActs,
      DirectorFailed, DirectorEnds, DirectorSelects, DirectorThrew, CharacterActs, MoveCommitted,
      CharacterFailedRound, CharacterThrew, PostCommitStarts, PlotJoined
  <2>9. QED
    BY <1>5, <2>3, <2>4, <2>5, <2>6, <2>7, <2>8, RoundKinds
<1>6. CASE PostCommitStarts
  <2>1. /\ node.at = "acting" /\ character.committed # 0 /\ LanesStart(Len(host.commits))
        /\ Len(host.commits) \in CommitsOf(node.number)
    BY <1>6 DEF PostCommitStarts, AccountInv
  <2>2. /\ node'.at = "joiningNarrator" /\ node'.number = node.number
        /\ node'.commit = Len(host.commits) /\ host' = host
    BY <1>6, PostCommitDoes
  <2>3. LanesRunning' \subseteq LanesRunning \cup {Len(host.commits)}
    BY <1>1, <2>1 DEF LanesStart, LanesRunning
  <2>4. QED
    BY <1>2, <2>1, <2>2, <2>3 DEF LaneInv, CommitsOf, Joining
<1>7. CASE PlotJoined
  <2>1. /\ node.at = "joiningPlot" /\ LanesTakenUp(node.commit)
        /\ node'.at \in {"choosing", "completing"} /\ node'.number = node.number /\ host' = host
    BY <1>7, PlotJoinedDoes DEF PlotJoined
  <2>2. LanesRunning' \subseteq LanesRunning \ {node.commit}
    BY <1>1, <2>1 DEF LanesTakenUp, LanesRunning, NoLibrarianLane, NoPlotLane, Ended
  <2>3. QED
    BY <1>2, <2>1, <2>2 DEF LaneInv, CommitsOf, Joining
<1>8. CASE LanesAct
  <2>1. LanesKept
    BY <1>8, LanesWait, LibrarianLaneKept, PlotLaneKept DEF LanesAct, NarratorActs
  <2>2. node' = node /\ host'.commits = host.commits
    BY <1>8, LibrarianDoes DEF LanesAct, NarratorActs, PlotActs
  <2>3. QED
    BY <1>2, <2>1, <2>2 DEF LanesKept, LaneInv, CommitsOf
<1>9. CASE OtherClientCommits
  <2>1. /\ node'.at = node.at /\ node'.number = node.number /\ node'.commit = node.commit
        /\ host'.commits = host.commits /\ LanesKept
    BY <1>9, OtherCommitsDoes, LanesWait DEF Keeps
  <2>2. QED
    BY <1>2, <2>1 DEF LanesKept, LaneInv, CommitsOf
<1>10. CASE RoundFails \/ PresentationFails \/ NarrationUnrecorded \/ RuntimeRestarts
  <2>1. Throws /\ host' = host /\ LanesKept
    BY <1>10, LanesWait DEF RoundFails, PresentationFails, NarrationUnrecorded, RuntimeRestarts
  <2>2. QED
    BY <1>3, <2>1
<1>11. CASE CommitAnswerLost
  <2>1. /\ node.at = "acting" /\ node' = node
        /\ \A c \in DOMAIN host.commits :
              c \in DOMAIN host'.commits /\ host'.commits[c] = host.commits[c]
    BY <1>11, CommitDoes
  <2>2. LanesKept
    BY <1>11, LanesWait DEF CommitAnswerLost
  <2>3. QED
    BY <1>2, <2>1, <2>2 DEF LanesKept, LaneInv, CommitsOf, Joining
<1>12. CASE RuntimeExits
  BY <1>4, <1>12 DEF RuntimeExits
<1>13. ASSUME NEW c \in Commits, PlotRejects(c) PROVE LaneInv'
  <2>1. Exits \/ (PlotCallFails(c) /\ Throws /\ host' = host)
    BY <1>13 DEF PlotRejects
  <2>2. QED
    BY <1>3, <1>4, <2>1, PlotLaneKept
<1>14. ASSUME NEW designation \in Characters \cup {Nobody}, RoundStarts(designation)
       PROVE  LaneInv'
  <2>1. node'.at = "starting" /\ node'.number = node.number + 1 /\ host'.commits = host.commits
    BY <1>1, <1>14, StartsAnew
  <2>2. \A c \in DOMAIN host.commits : host.commits[c].round \in Int
    BY <1>1, CommitsTyped
  <2>3. /\ \A c \in DOMAIN host.commits : host.commits[c].round <= node.number
        /\ node.number \in Int
    BY <1>1, RoundAssumption DEF StateInv, NodeStates
  <2>4. CommitsOf(node.number)' = {} /\ LanesKept
    BY <1>14, <2>1, <2>2, <2>3, LanesWait DEF CommitsOf, RoundStarts
  <2>5. QED
    BY <1>2, <2>1, <2>4 DEF LanesKept, LaneInv
<1>15. QED
  BY <1>5, <1>6, <1>7, <1>8, <1>9, <1>10, <1>11, <1>12, <1>13, <1>14 DEF RoundNext, RoundFaults

-----------------------------------------------------------------------------
(* The invariant *)

LEMMA RoundBegins ==
    ASSUME RoundInit
    PROVE  RoundInv
<1>1. PICK scene \in Scenes :
         host = [scene |-> scene, used |-> {}, commits |-> <<>>, audited |-> {}]
  BY DEF RoundInit
<1>2. /\ node \in NodeStates /\ node.at = "released" /\ node.overtaken = {} /\ node.turns = <<>>
      /\ node.number = 0
  BY RoundAssumption DEF RoundInit, NoRound, NodeStates, RoundStages, CompletionReasons
<1>3. /\ host \in HostStates /\ host.commits = <<>> /\ DOMAIN host.commits = {}
  BY <1>1 DEF HostStates
<1>4. /\ NoLibrarianLane \in LibrarianLaneStates /\ NoPlotLane \in PlotLaneStates
      /\ NoLibrarianLane.at = "none" /\ NoPlotLane.at = "none"
  BY DEF NoLibrarianLane, NoPlotLane, LibrarianLaneStates, PlotLaneStates, LibrarianStages,
    PlotStages, PlotOperations
<1>5. LanesTypeOK /\ LanesRunning = {}
  BY <1>4 DEF RoundInit, LanesInit, LanesTypeOK, LanesRunning, Ended
<1>6. StateInv
  BY <1>2, <1>3, <1>5 DEF StateInv, RoundInit
<1>7. PhaseInv
  <2>1. {} \in SUBSET Characters
    OBVIOUS
  <2>2. SoundSelection(DirectorIdle, Decisions) /\ SoundMove(CharacterIdle)
    BY <2>1, SelectionStarts, MoveStarts
  <2>3. QED
    BY <2>2, NarrationStarts DEF PhaseInv, RoundInit, DirectorInit, CharacterInit, NarratorInit
<1>8. NobodySpeaksTwice /\ AccountInv /\ SpeakerInv /\ LaneInv
  BY <1>2, <1>3, <1>5 DEF NobodySpeaksTwice, AccountInv, SpeakerInv, LaneInv, Joining, CommitsOf
<1>9. QED
  BY <1>6, <1>7, <1>8 DEF RoundInv

LEMMA RoundStutters ==
    ASSUME RoundInv, UNCHANGED roundVars
    PROVE  RoundInv'
<1>1. StateInv'
  BY DEF RoundInv, roundVars, StateInv, LanesTypeOK
<1>2. PhaseInv'
  BY DEF RoundInv, roundVars, PhaseInv, SoundSelection, SoundMove, SoundNarration, AttemptsRemain
<1>3. NobodySpeaksTwice' /\ AccountInv'
  BY DEF RoundInv, roundVars, NobodySpeaksTwice, AccountInv, Accounts, Entries, CommitsOf, InOrder
<1>4. SpeakerInv'
  <2>1. Eligible' = Eligible /\ Silent' = Silent
    BY EligibleKept DEF roundVars, Silent
  <2>2. QED
    BY <2>1 DEF RoundInv, roundVars, SpeakerInv, SoundSelection, CommitsOf
<1>5. LaneInv'
  BY DEF RoundInv, roundVars, LaneInv, LanesRunning, CommitsOf
<1>6. QED
  BY <1>1, <1>2, <1>3, <1>4, <1>5 DEF RoundInv

LEMMA RoundInvStep ==
    ASSUME RoundInv, [RoundNext]_roundVars
    PROVE  RoundInv'
<1>1. CASE RoundNext
  <2>1. StateInv /\ PhaseInv /\ NobodySpeaksTwice /\ AccountInv /\ SpeakerInv /\ LaneInv
    BY DEF RoundInv
  <2>2. StateInv' /\ PhaseInv'
    BY <1>1, <2>1, StateStep, PhaseStep
  <2>3. NobodySpeaksTwice' /\ AccountInv'
    BY <1>1, <2>1, NobodyStep, AccountStep
  <2>4. SpeakerInv' /\ LaneInv'
    BY <1>1, <2>1, SpeakerStep, LaneStep
  <2>5. QED
    BY <2>2, <2>3, <2>4 DEF RoundInv
<1>2. CASE UNCHANGED roundVars
  BY <1>2, RoundStutters
<1>3. QED
  BY <1>1, <1>2

\* The inductive invariant of the rounds: state, phases, speakers, account and lanes.
THEOREM RoundInvariant == RoundSpec => []RoundInv
<1>1. RoundInit => RoundInv
  BY RoundBegins
<1>2. RoundInv /\ [RoundNext]_roundVars => RoundInv'
  BY RoundInvStep
<1>3. QED
  BY <1>1, <1>2, PTL DEF RoundSpec

\* Before every selection, and when a round is over, the orchestrator's actors used
\* and turns are exactly what the host committed in the round, in its order.
THEOREM RoundsAccounted == RoundSpec => []RoundAccounted
<1>1. RoundInv => RoundAccounted
  <2>1. SUFFICES ASSUME RoundInv, SelectingSpeaker \/ node.at = "completing"
                 PROVE  /\ node.used = host.used
                        /\ Entries(node.turns) = CommitsOf(node.number)
                        /\ InOrder(node.turns)
    BY DEF RoundAccounted, Entries
  <2>2. Accounts(node.used, 0)
    BY <2>1 DEF RoundInv, AccountInv, SelectingSpeaker
  <2>3. 0 \notin CommitsOf(node.number)
    BY <2>1 DEF RoundInv, StateInv, HostStates, CommitsOf
  <2>4. QED
    BY <2>2, <2>3 DEF Accounts
<1>2. QED
  BY <1>1, RoundInvariant, PTL

\* No lane of a turn of the round still runs when the next speaker is chosen or the
\* round is over.
THEOREM LanesAreJoined == RoundSpec => []LanesJoined
<1>1. RoundInv => LanesJoined
  <2>1. SUFFICES ASSUME RoundInv, SelectingSpeaker \/ node.at \in {"completing", "presenting"},
                        NEW c \in LanesRunning
                 PROVE  host.commits[c].round # node.number
    BY DEF LanesJoined
  <2>2. node.at \notin {"released", "exited"} /\ node.at \notin Joining
    BY <2>1 DEF SelectingSpeaker, Joining
  <2>3. c \in DOMAIN host.commits /\ c \notin CommitsOf(node.number)
    BY <2>1, <2>2 DEF RoundInv, LaneInv
  <2>4. QED
    BY <2>3 DEF CommitsOf
<1>2. QED
  BY <1>1, RoundInvariant, PTL

\* A move is committed only for a character that could speak, unless another client
\* took a turn since the eligible characters were read.
THEOREM SpeakersEligible == RoundSpec => EligibleAtCommit
<1>1. ASSUME RoundInv, [RoundNext]_roundVars, host'.commits # host.commits, node.overtaken = {}
      PROVE  node.speaker \in Eligible
  <2>1. StateInv /\ PhaseInv /\ SpeakerInv
    BY <1>1 DEF RoundInv
  <2>2. RoundNext
    BY <1>1 DEF roundVars
  <2>3. MoveCommitted \/ CommitAnswerLost
    BY <1>1, <2>1, <2>2, CommitsKept
  <2>4. node.at = "acting" /\ character.committed = 0 /\ character.at # "thrown"
    BY <2>1, <2>3, CommitDoes
  <2>5. QED
    BY <1>1, <2>1, <2>4 DEF SpeakerInv
<1>2. RoundInv /\ [RoundNext]_roundVars =>
         [(host'.commits # host.commits /\ node.overtaken = {}) => node.speaker \in Eligible]_roundVars
  BY <1>1
<1>3. QED
  BY <1>2, RoundInvariant, PTL DEF RoundSpec, EligibleAtCommit

\* Nobody's move is committed twice in a round, whoever else takes turns and whatever
\* answers are lost.
THEOREM NobodyTwice == RoundSpec => []NobodySpeaksTwice
<1>1. RoundInv => NobodySpeaksTwice
  BY DEF RoundInv
<1>2. QED
  BY <1>1, RoundInvariant, PTL

\* What is committed, decided and shown was not refused and not judged hard, and was
\* judged soft only when the budget allowed nothing better.
THEOREM JudgementsStand == RoundSpec => [](DefensibleMove /\ DefensibleChoice /\ RepairedBeforeShown)
<1>1. PhaseInv => DefensibleMove
  BY DEF PhaseInv, SoundMove, DefensibleMove
<1>2. PhaseInv => DefensibleChoice
  BY DEF PhaseInv, SoundSelection, DefensibleChoice, DirectorAccepted
<1>3. PhaseInv => RepairedBeforeShown
  BY DEF PhaseInv, SoundNarration, RepairedBeforeShown
<1>4. RoundInv => PhaseInv
  BY DEF RoundInv
<1>5. QED
  BY <1>1, <1>2, <1>3, <1>4, RoundInvariant, PTL

\* The round, its phases and its lanes keep their types.
THEOREM RoundsTyped == RoundSpec => []RoundTypeOK
<1>1. RoundInv => RoundTypeOK
  BY DEF RoundInv, StateInv, PhaseInv, SoundSelection, SoundMove, SoundNarration, RoundTypeOK,
    DirectorTypeOK, CharacterTypeOK, NarratorTypeOK
<1>2. QED
  BY <1>1, RoundInvariant, PTL

=============================================================================
