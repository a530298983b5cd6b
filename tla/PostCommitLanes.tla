--------------------------- MODULE PostCommitLanes ---------------------------
(***************************************************************************)
(* The two lanes of work that a committed move starts beside its           *)
(* narration: the librarian's (prepare, at most one inference and one      *)
(* correction, finalize) and plot cognition's (plan, one operation, assess *)
(* the freshness).  A lane that has ended is settled or rejected.          *)
(***************************************************************************)
EXTENDS Integers

CONSTANT Commits        \* the commits a lane may be for

VARIABLES librarianLane, plotLane

lanesVars == <<librarianLane, plotLane>>

LibrarianStages ==
    {"none", "preparing", "inferring", "correcting", "finalizing", "settled", "rejected"}

LibrarianLaneStates == [at : LibrarianStages, blocking : BOOLEAN]

PlotOperations ==
    {"none", "clear_pending", "reconciliation", "authority_advance", "initialization",
     "semantic_update", "blocked"}

PlotStages ==
    {"none", "planning", "operating", "inferring", "correcting", "finalizing", "assessing",
     "settled", "rejected"}

PlotLaneStates == [at : PlotStages, operation : PlotOperations]

LanesTypeOK ==
    /\ librarianLane \in [Commits -> LibrarianLaneStates]
    /\ plotLane \in [Commits -> PlotLaneStates]

NoLibrarianLane == [at |-> "none", blocking |-> FALSE]
NoPlotLane == [at |-> "none", operation |-> "none"]

LanesInit ==
    /\ librarianLane = [c \in Commits |-> NoLibrarianLane]
    /\ plotLane = [c \in Commits |-> NoPlotLane]

Ended == {"none", "settled", "rejected"}

LanesRunning == {c \in Commits : librarianLane[c].at \notin Ended \/ plotLane[c].at \notin Ended}

\* Both lanes are started as soon as the commit is known.
LanesStart(c) ==
    /\ librarianLane' = [librarianLane EXCEPT ![c].at = "preparing"]
    /\ plotLane' = [plotLane EXCEPT ![c].at = "planning"]

\* Their results are taken up, and nothing refers to them any more.
LanesTakenUp(c) ==
    /\ librarianLane' = [librarianLane EXCEPT ![c] = NoLibrarianLane]
    /\ plotLane' = [plotLane EXCEPT ![c] = NoPlotLane]

\* What an inference under a structural contract may come to.
InferenceOutcomes == {"failed", "malformed", "parsed"}

-----------------------------------------------------------------------------
(* The librarian's lane *)

LibrarianMoves(c, from, lane) ==
    /\ librarianLane[c].at = from
    /\ librarianLane' = [librarianLane EXCEPT ![c] = lane]
    /\ UNCHANGED plotLane

\* prepare_librarian_proposal_context: the commit has its audit already, or no
\* issue is active, or the producer is to be asked.
LibrarianPrepared(c, answer) ==
    LibrarianMoves(c, "preparing",
        [librarianLane[c] EXCEPT !.at = CASE answer = "already_terminal" -> "settled"
                                          [] answer = "no_active_issue" -> "finalizing"
                                          [] answer = "inference_required" -> "inferring"])

\* A failed inference is finalized as such; a malformed answer is corrected once.
LibrarianInferred(c, outcome) ==
    LibrarianMoves(c, "inferring",
        [librarianLane[c] EXCEPT !.at = IF outcome = "malformed" THEN "correcting" ELSE "finalizing"])

LibrarianCorrected(c) ==
    LibrarianMoves(c, "correcting", [librarianLane[c] EXCEPT !.at = "finalizing"])

\* finalize_librarian_proposals answers; a batch it could not save blocks.
LibrarianFinalized(c, persisted) ==
    LibrarianMoves(c, "finalizing",
        [librarianLane[c] EXCEPT !.at = "settled", !.blocking = ~persisted])

\* Whatever is thrown in the lane is caught and reported as blocking.
LibrarianCallFails(c) ==
    \E from \in {"preparing", "inferring", "correcting", "finalizing"} :
        LibrarianMoves(c, from, [librarianLane[c] EXCEPT !.at = "settled", !.blocking = TRUE])

LibrarianThinks(c) ==
    \/ \E outcome \in InferenceOutcomes : LibrarianInferred(c, outcome)
    \/ LibrarianCorrected(c)

-----------------------------------------------------------------------------
(* The lane of plot cognition *)

PlotMoves(c, from, lane) ==
    /\ plotLane[c].at = from
    /\ plotLane' = [plotLane EXCEPT ![c] = lane]
    /\ UNCHANGED librarianLane

PlotSettled == [NoPlotLane EXCEPT !.at = "settled"]

\* plan_post_commit_plot_cognition_work names an operation.
PlotPlanned(c, operation) ==
    PlotMoves(c, "planning",
        IF operation = "blocked" THEN PlotSettled
        ELSE [plotLane[c] EXCEPT !.operation = operation, !.at = "operating"])

\* The gate is recorded and the lane is done.
PlotHasNoWork(c) ==
    /\ plotLane[c].operation = "none"
    /\ PlotMoves(c, "operating", PlotSettled)

\* One call does the operation, and the freshness is asked for.
PlotServed(c) ==
    /\ plotLane[c].operation \in {"clear_pending", "reconciliation", "authority_advance"}
    /\ PlotMoves(c, "operating", [plotLane[c] EXCEPT !.at = "assessing"])

\* What follows a refusal or an inference without a usable answer.
PlotGivesUp(c) ==
    IF plotLane[c].operation = "semantic_update" THEN [plotLane[c] EXCEPT !.at = "assessing"]
    ELSE PlotSettled

\* The operation needs an inference: it is prepared first.
PlotPrepared(c, accepted) ==
    /\ plotLane[c].operation \in {"initialization", "semantic_update"}
    /\ PlotMoves(c, "operating",
           IF accepted THEN [plotLane[c] EXCEPT !.at = "inferring"] ELSE PlotGivesUp(c))

PlotInferred(c, outcome) ==
    PlotMoves(c, "inferring",
        CASE outcome = "parsed" -> [plotLane[c] EXCEPT !.at = "finalizing"]
          [] outcome = "malformed" -> [plotLane[c] EXCEPT !.at = "correcting"]
          [] outcome = "failed" -> PlotGivesUp(c))

PlotCorrected(c, outcome) ==
    PlotMoves(c, "correcting",
        IF outcome = "parsed" THEN [plotLane[c] EXCEPT !.at = "finalizing"] ELSE PlotGivesUp(c))

PlotFinalized(c) == PlotMoves(c, "finalizing", [plotLane[c] EXCEPT !.at = "assessing"])

PlotAssessed(c) == PlotMoves(c, "assessing", PlotSettled)

\* Nothing is caught in this lane.
PlotCallFails(c) ==
    \E from \in PlotStages \ Ended :
        PlotMoves(c, from, [NoPlotLane EXCEPT !.at = "rejected"])

PlotThinks(c) ==
    \/ \E outcome \in InferenceOutcomes : PlotInferred(c, outcome)
    \/ \E outcome \in InferenceOutcomes : PlotCorrected(c, outcome)
=============================================================================
