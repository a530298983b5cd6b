------------------------- MODULE RoundOrchestration -------------------------
(***************************************************************************)
(* A round: the orchestrator asks the host who may speak, lets the player  *)
(* or the director choose, runs the character's turn until the host        *)
(* commits its move, then narrates the move while the librarian's and plot *)
(* cognition's lanes run beside it, joins them, and starts over until      *)
(* nobody is left, the director ends the round or a phase fails.  The      *)
(* application then records the narrations, one by one.                    *)
(***************************************************************************)
EXTENDS DirectorPhase, CharacterPhase, NarratorPhase, PostCommitLanes, FiniteSets, Sequences

CONSTANTS
    PlayerControlled,   \* characters the director may not choose
    Nobody,             \* no forced designation
    Scenes,             \* where the characters may be: who is present, who is offstage
    MaxRounds,          \* bound: rounds
    Faults              \* among "host", "save", "lost", "evidence", "others", "exit"

ASSUME RoundAssumption ==
    /\ IsFiniteSet(Characters)
    /\ PlayerControlled \subseteq Characters
    /\ Nobody \notin Characters
    /\ Scenes \subseteq [present : SUBSET Characters, offstage : SUBSET Characters]
    /\ MaxRounds \in Nat
    /\ Faults \subseteq {"host", "save", "lost", "evidence", "others", "exit"}

VARIABLES
    host,           \* the host: the scene, the round's used actors, the commits
    node,           \* the round under way in the orchestrator and its client
    presented       \* the commits whose narration was recorded, in that order

roundVars == <<host, node, presented, director, character, narrator, librarianLane, plotLane>>

RoundStages ==
    {"released", "starting", "choosing", "participating", "directing", "acting",
     "joiningNarrator", "joiningLibrarian", "joiningPlot", "completing", "presenting", "exited"}

CompletionReasons ==
    {"none", "defensive_turn_ceiling", "no_eligible_actors", "director_failure",
     "director_end_round", "character_failure", "librarian_persistence_failure"}

\* What the orchestrator read at a certain turn of the host: the eligible
\* characters, and the turn its commit is to find (expected_turn_index).
Expectations == {"eligibility", "anchor"}

NodeStates ==
    [at : RoundStages,
     number : 0 .. MaxRounds,
     ceiling : Nat,                             \* defensiveTurnCeiling
     used : SUBSET Characters,                  \* actorsUsedThisRound
     designation : Characters \cup {Nobody},    \* not consumed yet
     offered : SUBSET Characters,               \* the eligibility snapshot
     speaker : Characters \cup {Nobody},
     overtaken : SUBSET Expectations,           \* another client took a turn since
     commit : Nat,                              \* domainCommitId, as its number; 0 for none
     turns : Seq(Nat),                          \* characterTurns, as the numbers of their commits
     reason : CompletionReasons]

HostStates ==
    [scene : Scenes,
     used : SUBSET Characters,                  \* actors_used_this_round
     commits : Seq([round : 1 .. MaxRounds, actor : Characters]),
     audited : SUBSET Commits]                  \* commits with a librarian audit

RoundTypeOK ==
    /\ node \in NodeStates
    /\ host \in HostStates
    /\ presented \in Seq(Nat)
    /\ DirectorTypeOK /\ CharacterTypeOK /\ NarratorTypeOK /\ LanesTypeOK

NoRound ==
    [at |-> "released", number |-> 0, ceiling |-> 0, used |-> {}, designation |-> Nobody,
     offered |-> {}, speaker |-> Nobody, overtaken |-> {}, commit |-> 0,
     turns |-> <<>>, reason |-> "none"]

RoundInit ==
    /\ node = NoRound
    /\ \E scene \in Scenes :
          host = [scene |-> scene, used |-> {}, commits |-> <<>>, audited |-> {}]
    /\ presented = <<>>
    /\ DirectorInit /\ CharacterInit /\ NarratorInit /\ LanesInit

-----------------------------------------------------------------------------
(* The host *)

\* _available_actors: those present (the whole cast if nobody is), without
\* those used, those offstage and those the player controls.
Eligible ==
    (IF host.scene.present = {} THEN Characters ELSE host.scene.present)
        \ (host.used \cup host.scene.offstage \cup PlayerControlled)

Committed_Forgotten(h, actor, scene) ==
    [h EXCEPT !.scene = scene,
              !.commits = Append(@, [round |-> node.number, actor |-> actor])]

\* execute_commit_move: the commit, the round's used actors and the scene.
Committed(h, actor, scene) ==
    [h EXCEPT !.scene = scene, !.used = @ \cup {actor},
              !.commits = Append(@, [round |-> node.number, actor |-> actor])]

\* Another client of the host takes a turn in a round of its own.
OtherClientCommits ==
    /\ "others" \in Faults
    /\ node.at \in {"choosing", "participating", "directing", "acting"}
    /\ \E scene \in Scenes : host' = [host EXCEPT !.scene = scene]
    /\ node' = [node EXCEPT !.overtaken = Expectations]
    /\ UNCHANGED <<presented, director, character, narrator, lanesVars>>

-----------------------------------------------------------------------------
(* Start and end of a round *)

Goes(stage) == node' = [node EXCEPT !.at = stage]

\* Everything a phase kept dies with it.
PhasesIdle ==
    /\ director' = DirectorIdle
    /\ character' = CharacterIdle
    /\ narrator' = NarratorIdle

PhasesUnchanged == UNCHANGED <<director, character, narrator>>

\* runRound throws: the round's results are lost with it, and the application
\* may start another.
Throws == node' = [NoRound EXCEPT !.number = node.number]

Completes(reason) == node' = [node EXCEPT !.at = "completing", !.reason = reason]

\* start_round and get_scene_state.
RoundStarts(designation) ==
    /\ node.at = "released"
    /\ node.number < MaxRounds
    /\ host' = [host EXCEPT !.used = {}]
    /\ LET cast == Cardinality(host.scene.present) IN
       node' = [NoRound EXCEPT !.at = "starting", !.number = node.number + 1,
                               !.ceiling = 2 * (IF cast > 1 THEN cast ELSE 1),
                               !.designation = designation]
    /\ PhasesUnchanged
    /\ UNCHANGED <<presented, lanesVars>>

\* The storyteller's advice and the pending plot cognition come first.
RoundPrepared ==
    /\ node.at = "starting"
    /\ Goes("choosing")
    /\ PhasesUnchanged
    /\ UNCHANGED <<host, presented, lanesVars>>

\* A call to the host fails outside the phases.
RoundFails ==
    /\ "host" \in Faults
    /\ node.at \in {"starting", "choosing", "participating", "completing"}
    /\ Throws
    /\ PhasesIdle
    /\ UNCHANGED <<host, presented, lanesVars>>

\* get_scene_state for the result, and its return to the application.
RoundReturns ==
    /\ node.at = "completing"
    /\ Goes("presenting")
    /\ PhasesIdle
    /\ UNCHANGED <<host, presented, lanesVars>>

\* _recordRoundPresentations: in the order of the turns.
PresentationRecorded ==
    /\ node.at = "presenting"
    /\ node.turns # <<>>
    /\ presented' = Append(presented, Head(node.turns))
    /\ node' = [node EXCEPT !.turns = Tail(@)]
    /\ PhasesUnchanged
    /\ UNCHANGED <<host, lanesVars>>

\* One recording fails: the rest are given up.
PresentationFails ==
    /\ "host" \in Faults
    /\ node.at = "presenting"
    /\ node.turns # <<>>
    /\ Throws
    /\ PhasesUnchanged
    /\ UNCHANGED <<host, presented, lanesVars>>

RoundReleased ==
    /\ node.at = "presenting"
    /\ node.turns = <<>>
    /\ Throws
    /\ PhasesUnchanged
    /\ UNCHANGED <<host, presented, lanesVars>>

-----------------------------------------------------------------------------
(* Who speaks *)

\* The head of the loop.
EligibilityRead ==
    /\ node.at = "choosing"
    /\ CASE Len(node.turns) >= node.ceiling -> Completes("defensive_turn_ceiling")
         [] Len(node.turns) < node.ceiling /\ Eligible = {} -> Completes("no_eligible_actors")
         [] OTHER -> node' = [node EXCEPT !.at = "participating", !.offered = Eligible,
                                          !.overtaken = {}]
    /\ PhasesUnchanged
    /\ UNCHANGED <<host, presented, lanesVars>>

\* evaluate_participation_policy: a designated character who may speak does.
ParticipationDirect ==
    /\ node.at = "participating"
    /\ node.designation \in Eligible
    /\ node' = [node EXCEPT !.at = "acting", !.speaker = node.designation, !.designation = Nobody,
                            !.overtaken = @ \ {"anchor"}]
    /\ CharacterEnters
    /\ UNCHANGED <<host, presented, director, narrator, lanesVars>>

\* Otherwise the director chooses; a designation that is not eligible stays.
\* (The continuation of the last speaker is considered only for somebody
\* already used, who is never eligible.)
ParticipationToDirector ==
    /\ node.at = "participating"
    /\ node.designation \notin Eligible
    /\ Goes("directing")
    /\ DirectorEnters(node.offered)
    /\ UNCHANGED <<host, presented, character, narrator, lanesVars>>

DirectorActs ==
    /\ node.at = "directing"
    /\ \/ DirectorStep(Eligible)
       \/ {"host", "evidence"} \cap Faults # {} /\ DirectorThrows
    /\ UNCHANGED <<node, host, presented, character, narrator, lanesVars>>

DirectorFailed ==
    /\ node.at = "directing"
    /\ director.at = "over"
    /\ ~DirectorAccepted
    /\ Completes("director_failure")
    /\ PhasesIdle
    /\ UNCHANGED <<host, presented, lanesVars>>

DirectorEnds ==
    /\ node.at = "directing"
    /\ DirectorAccepted
    /\ DirectorDecision = EndRound
    /\ Completes("director_end_round")
    /\ PhasesIdle
    /\ UNCHANGED <<host, presented, lanesVars>>

DirectorSelects ==
    /\ node.at = "directing"
    /\ DirectorAccepted
    /\ DirectorDecision # EndRound
    /\ node' = [node EXCEPT !.at = "acting", !.speaker = DirectorDecision,
                            !.overtaken = @ \ {"anchor"}]
    /\ CharacterEnters
    /\ director' = DirectorIdle
    /\ UNCHANGED <<host, presented, narrator, lanesVars>>

DirectorThrew ==
    /\ node.at = "directing"
    /\ director.at = "thrown"
    /\ Throws
    /\ PhasesIdle
    /\ UNCHANGED <<host, presented, lanesVars>>

-----------------------------------------------------------------------------
(* The character's turn *)

\* Every inference is prepared anew, with the turn the host is at.
Anchored ==
    node' = [node EXCEPT !.overtaken = IF character'.at = "inferring" THEN @ \ {"anchor"} ELSE @]

CharacterActs ==
    /\ node.at = "acting"
    /\ \/ CharacterThinks
       \/ {"host", "evidence"} \cap Faults # {} /\ CharacterThrows
       \/ "anchor" \in node.overtaken /\ CommitFoundTurnTaken
       \/ "anchor" \notin node.overtaken /\ "save" \in Faults /\ CommitRefused
    /\ Anchored
    /\ UNCHANGED <<host, presented, director, narrator, lanesVars>>

\* commit_move: only if the turn is still the expected one.
MoveCommitted ==
    /\ node.at = "acting"
    /\ "anchor" \notin node.overtaken
    /\ \E scene \in Scenes : host' = Committed(host, node.speaker, scene)
    /\ CharacterCommitted
    /\ UNCHANGED <<node, presented, director, narrator, lanesVars>>

\* The move is committed, but not its answer: recording the plot cognition
\* that follows it fails, or the answer is lost.
CommitAnswerLost ==
    /\ "lost" \in Faults
    /\ node.at = "acting"
    /\ character.at = "committing"
    /\ "anchor" \notin node.overtaken
    /\ \E scene \in Scenes : host' = Committed(host, node.speaker, scene)
    /\ CharacterThrows
    /\ UNCHANGED <<node, presented, director, narrator, lanesVars>>

CharacterFailedRound ==
    /\ node.at = "acting"
    /\ character.at = "over"
    /\ character.committed = 0
    /\ Completes("character_failure")
    /\ PhasesIdle
    /\ UNCHANGED <<host, presented, lanesVars>>

CharacterThrew ==
    /\ node.at = "acting"
    /\ character.at = "thrown"
    /\ Throws
    /\ PhasesIdle
    /\ UNCHANGED <<host, presented, lanesVars>>

\* The three branches of the committed turn start together.
PostCommitStarts ==
    /\ node.at = "acting"
    /\ character.committed # 0
    /\ node' = [node EXCEPT !.at = "joiningNarrator", !.used = @ \cup {node.speaker},
                            !.overtaken = {}, !.offered = {}, !.speaker = Nobody,
                            !.commit = Len(host.commits)]
    /\ LanesStart(Len(host.commits))
    /\ NarratorEnters
    /\ character' = CharacterIdle
    /\ UNCHANGED <<host, presented, director>>

-----------------------------------------------------------------------------
(* The lanes and their joins *)

Up == node.at # "exited"

NarratorActs ==
    /\ Up
    /\ NarratorStep
    /\ UNCHANGED <<host, node, presented, director, character, lanesVars>>

LibrarianAnswers(c) ==
    IF c \in host.audited THEN {"already_terminal"} ELSE {"no_active_issue", "inference_required"}

LibrarianActs(c) ==
    /\ Up
    /\ \/ \E answer \in LibrarianAnswers(c) : LibrarianPrepared(c, answer) /\ UNCHANGED host
       \/ LibrarianThinks(c) /\ UNCHANGED host
       \/ LibrarianFinalized(c, TRUE) /\ host' = [host EXCEPT !.audited = @ \cup {c}]
       \/ "save" \in Faults /\ LibrarianFinalized(c, FALSE) /\ UNCHANGED host
       \/ {"host", "evidence"} \cap Faults # {} /\ LibrarianCallFails(c) /\ UNCHANGED host
    /\ UNCHANGED <<node, presented, director, character, narrator>>

PlotActs(c) ==
    /\ Up
    /\ \/ \E operation \in PlotOperations : PlotPlanned(c, operation)
       \/ PlotHasNoWork(c)
       \/ PlotServed(c)
       \/ \E accepted \in BOOLEAN : PlotPrepared(c, accepted)
       \/ PlotFinalized(c)
       \/ PlotThinks(c)
       \/ PlotAssessed(c)
    /\ UNCHANGED <<host, node, presented, director, character, narrator>>

\* The runtime's process ends, and all that runs in it.
Exits ==
    /\ node' = [NoRound EXCEPT !.at = "exited", !.number = node.number]
    /\ librarianLane' = [c \in Commits |-> NoLibrarianLane]
    /\ plotLane' = [c \in Commits |-> NoPlotLane]
    /\ PhasesIdle

\* Plot cognition's lane rejects.  If nobody awaits it, the rejection is
\* unhandled and the process ends.
PlotRejects(c) ==
    /\ Up
    /\ {"host", "evidence"} \cap Faults # {}
    /\ plotLane[c].at \notin Ended
    /\ IF node.at = "joiningPlot" /\ node.commit = c
       THEN PlotCallFails(c) /\ Throws /\ PhasesIdle
       ELSE Exits
    /\ UNCHANGED <<host, presented>>

\* The evidence of a narration cannot be written: its promise rejects, and the
\* round throws without waiting for the lanes.
NarrationUnrecorded ==
    /\ "evidence" \in Faults
    /\ node.at = "joiningNarrator"
    /\ narrator.at = "over"
    /\ Throws
    /\ PhasesIdle
    /\ UNCHANGED <<host, presented, lanesVars>>

NarratorJoined ==
    /\ node.at = "joiningNarrator"
    /\ narrator.at = "over"
    /\ Goes("joiningLibrarian")
    /\ PhasesIdle
    /\ UNCHANGED <<host, presented, lanesVars>>

LibrarianJoined_Alone ==
    /\ node.at = "joiningLibrarian"
    /\ librarianLane[node.commit].at = "settled"
    /\ node' = [node EXCEPT !.at = "choosing", !.turns = Append(@, node.commit)]
    /\ PhasesUnchanged
    /\ UNCHANGED <<host, presented, lanesVars>>

LibrarianJoined ==
    /\ node.at = "joiningLibrarian"
    /\ librarianLane[node.commit].at = "settled"
    /\ Goes("joiningPlot")
    /\ PhasesUnchanged
    /\ UNCHANGED <<host, presented, lanesVars>>

\* All three are joined: the turn goes into the result, and a batch that could
\* not be saved ends the round.
PlotJoined ==
    /\ node.at = "joiningPlot"
    /\ plotLane[node.commit].at = "settled"
    /\ node' = [node EXCEPT !.turns = Append(@, node.commit),
                    !.at = IF librarianLane[node.commit].blocking THEN "completing" ELSE "choosing",
                    !.reason = IF librarianLane[node.commit].blocking
                               THEN "librarian_persistence_failure" ELSE @]
    /\ LanesTakenUp(node.commit)
    /\ PhasesUnchanged
    /\ UNCHANGED <<host, presented>>

-----------------------------------------------------------------------------
(* The process *)

\* It is stopped, or ends by itself.
RuntimeExits ==
    /\ "exit" \in Faults
    /\ Up
    /\ Exits
    /\ UNCHANGED <<host, presented>>

RuntimeRestarts ==
    /\ node.at = "exited"
    /\ Throws
    /\ PhasesUnchanged
    /\ UNCHANGED <<host, presented, lanesVars>>

NodeActs ==
    \/ RoundPrepared
    \/ RoundReturns
    \/ PresentationRecorded
    \/ RoundReleased
    \/ EligibilityRead
    \/ ParticipationDirect
    \/ ParticipationToDirector
    \/ DirectorActs
    \/ DirectorFailed
    \/ DirectorEnds
    \/ DirectorSelects
    \/ DirectorThrew
    \/ CharacterActs
    \/ MoveCommitted
    \/ CharacterFailedRound
    \/ CharacterThrew
    \/ PostCommitStarts
    \/ NarratorJoined
    \/ LibrarianJoined
    \/ PlotJoined

LanesAct ==
    \/ NarratorActs
    \/ \E c \in Commits : LibrarianActs(c)
    \/ \E c \in Commits : PlotActs(c)

RoundFaults ==
    \/ OtherClientCommits
    \/ RoundFails
    \/ PresentationFails
    \/ CommitAnswerLost
    \/ NarrationUnrecorded
    \/ \E c \in Commits : PlotRejects(c)
    \/ RuntimeExits

RoundNext ==
    \/ \E designation \in Characters \cup {Nobody} : RoundStarts(designation)
    \/ NodeActs
    \/ LanesAct
    \/ RoundFaults
    \/ RuntimeRestarts

\* Every call to the host and every inference returns or fails.
RoundFairness ==
    /\ WF_roundVars(NodeActs)
    /\ WF_roundVars(NarratorActs)
    /\ \A c \in Commits : WF_roundVars(LibrarianActs(c)) /\ WF_roundVars(PlotActs(c))

RoundSpec == RoundInit /\ [][RoundNext]_roundVars /\ RoundFairness

-----------------------------------------------------------------------------
(* Properties *)

CommitsOf(number) == {c \in DOMAIN host.commits : host.commits[c].round = number}

InOrder(turns) == \A i, j \in DOMAIN turns : i < j => turns[i] < turns[j]

SelectingSpeaker == node.at \in {"choosing", "participating", "directing"}

\* Nobody speaks twice in a round.
NobodySpeaksTwice ==
    \A i, j \in DOMAIN host.commits :
        (i < j /\ host.commits[i].round = host.commits[j].round) =>
            host.commits[i].actor # host.commits[j].actor

\* Before the next selection, and when the round is over, the orchestrator
\* accounts for exactly what the host committed in it: the same actors used,
\* the same turns in the same order.
RoundAccounted ==
    (SelectingSpeaker \/ node.at = "completing") =>
        /\ node.used = host.used
        /\ {node.turns[i] : i \in DOMAIN node.turns} = CommitsOf(node.number)
        /\ InOrder(node.turns)

\* Whoever a move is committed for could speak when the move was, unless
\* another client took a turn since the eligible characters were read.
EligibleAtCommit ==
    [][(host'.commits # host.commits /\ node.overtaken = {}) => node.speaker \in Eligible]_roundVars

\* No lane of a turn of the round is still running when the next speaker is
\* chosen, nor when the round is over.
LanesJoined ==
    (SelectingSpeaker \/ node.at \in {"completing", "presenting"}) =>
        \A c \in LanesRunning : host.commits[c].round # node.number

\* A round that was started ends.
RoundEnds == node.at = "starting" ~> node.at \in {"released", "exited"}
=============================================================================
